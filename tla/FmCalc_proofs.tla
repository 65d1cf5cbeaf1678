--------------------------- MODULE FmCalc_proofs ---------------------------
(***************************************************************************)
(* The vectors of loss records hold what the losses of the current row     *)
(* give, however many samples, layers and levels were calculated in them.  *)
(*                                                                         *)
(* A call of dofmcalc_r clears its vector (Cleared), adds the records of   *)
(* the level below up into their nodes (Aggregates), carries the retained  *)
(* losses of the layer before over (CarriedFilled) and applies the terms   *)
(* of every node, which depend on the amounts of its record alone          *)
(* (RuledVector).  The allocation that follows leaves the amounts as they  *)
(* are (ProportionedKeeps, NettedKeeps).  So a call finds below it, and    *)
(* leaves behind, what the reference Folded computes without the vectors   *)
(* (CallFinds, CallFills), and IInv is an invariant.                       *)
(***************************************************************************)
EXTENDS FmCalc, FiniteSetTheorems, SequenceTheorems, TLAPS

-----------------------------------------------------------------------------
(* Loss records: what a rule does depends on the amounts alone *)

Amounts == {"loss", "retained_loss", "previous_layer_retained_loss",
            "effective_deductible", "accumulated_tiv", "over_limit", "under_limit",
            "step_loss"}
Fields == Amounts \cup {"proportion", "agg_id", "policytc_id", "item_idx", "item_prop",
                        "item_net"}

IsRecord(x) ==
    /\ DOMAIN x = Fields
    /\ \A i \in Amounts : x[i] \in Int
IsOf(a, t, x) == x.agg_id = a /\ x.policytc_id = t

\* Records of the node a with the profile t, with the same amounts.
Alike(a, t, x, u) ==
    /\ IsRecord(x) /\ IsOf(a, t, x)
    /\ IsRecord(u) /\ IsOf(a, t, u)
    /\ \A i \in Amounts : u[i] = x[i]

\* The terms of a profile are integers.
LEMMA TermsInt ==
    ASSUME NEW p \in PolicyTerms
    PROVE  /\ p.d1 \in Int /\ p.d2 \in Int /\ p.d3 \in Int /\ p.a1 \in Int
           /\ p.l1 \in Int /\ p.l2 \in Int /\ p.sh1 \in Int /\ p.sh2 \in Int
           /\ p.sh3 \in Int /\ p.ts \in Int /\ p.te \in Int /\ p.ps \in Int
           /\ p.sc1 \in Int /\ p.sc2 \in Int
BY SMT DEF PolicyTerms

\* Records that are alike have the same amounts, which are integers.
LEMMA AmountsAlike ==
    ASSUME NEW a, NEW t, NEW x, NEW u, Alike(a, t, x, u)
    PROVE  /\ x.loss \in Int /\ u.loss = x.loss
           /\ x.accumulated_tiv \in Int /\ u.accumulated_tiv = x.accumulated_tiv
           /\ x.effective_deductible \in Int
           /\ u.effective_deductible = x.effective_deductible
           /\ x.step_loss \in Int /\ u.step_loss = x.step_loss
BY SMT DEF IsRecord, IsOf, Alike, Amounts

\* A share of an integer is one.
LEMMA PartType ==
    ASSUME NEW d \in Int, NEW lim \in Int
    PROVE  Part(d, lim) \in Int
BY SMT, PartsAssumption DEF Part

\* A deductible keeps records alike.
LEMMA DeductedAlike ==
    ASSUME NEW a, NEW t, NEW x, NEW u, Alike(a, t, x, u), NEW d \in Int
    PROVE  Alike(a, t, Deducted(x, d), Deducted(u, d))
BY SMT DEF Deducted, Clamped, IsRecord, IsOf, Alike, Amounts, Fields

\* A loss reduced by an amount keeps records alike.
LEMMA ReducedAlike ==
    ASSUME NEW a, NEW t, NEW x, NEW u, Alike(a, t, x, u), NEW d \in Int
    PROVE  Alike(a, t, Reduced(x, d), Reduced(u, d))
BY SMT DEF Reduced, Clamped, IsRecord, IsOf, Alike, Amounts, Fields

\* The distance to the prior limits after a deductible keeps records alike.
LEMMA WidenedAlike ==
    ASSUME NEW a, NEW t, NEW x, NEW u, NEW y, NEW v, Alike(a, t, x, u), Alike(a, t, y, v)
    PROVE  Alike(a, t, Widened(x, y), Widened(u, v))
BY SMT DEF Widened, IsRecord, IsOf, Alike, Amounts, Fields

\* The limit of a level keeps records alike.
LEMMA LimitedAlike ==
    ASSUME NEW a, NEW t, NEW x, NEW u, NEW y, NEW v, Alike(a, t, x, u),
           Alike(a, t, y, v), NEW d \in Int, NEW lim \in Int
    PROVE  Alike(a, t, Limited(x, y, d, lim), Limited(u, v, d, lim))
BY SMT DEF Limited, Least, IsRecord, IsOf, Alike, Amounts, Fields

\* The account of the retained loss keeps records alike.
LEMMA RetainedAlike ==
    ASSUME NEW a, NEW t, NEW x, NEW u, NEW y, NEW v, Alike(a, t, x, u),
           Alike(a, t, y, v), NEW lay
    PROVE  Alike(a, t, Retained(x, y, lay), Retained(u, v, lay))
BY SMT DEF Retained, IsRecord, IsOf, Alike, Amounts, Fields

\* Records that are alike are so with the same new loss.
LEMMA WithLossAlike ==
    ASSUME NEW a, NEW t, NEW x, NEW u, Alike(a, t, x, u), NEW d \in Int
    PROVE  Alike(a, t, [x EXCEPT !.loss = d], [u EXCEPT !.loss = d])
BY SMT DEF IsRecord, IsOf, Alike, Amounts, Fields

\* Attachment, limit and share keep records alike.
LEMMA InLayerAlike ==
    ASSUME NEW a, NEW t, NEW x, NEW u, Alike(a, t, x, u), NEW p \in PolicyTerms
    PROVE  Alike(a, t, InLayer(x, p), InLayer(u, p))
<1> DEFINE left == Clamped(IF x.loss > p.a1 + p.l1 THEN p.l1 ELSE x.loss - p.a1)
           d == Part(left, p.sh1)
<1>1. x.loss \in Int /\ p.a1 \in Int /\ p.l1 \in Int /\ p.sh1 \in Int
    BY AmountsAlike, TermsInt
<1>2. left \in Int
    BY <1>1, SMT DEF Clamped
<1>3. d \in Int
    BY <1>1, <1>2, PartType
<1>4. u.loss = x.loss
    BY AmountsAlike
<1>5. InLayer(x, p) = [x EXCEPT !.loss = d]
    BY Zenon DEF InLayer
<1>6. InLayer(u, p) = [u EXCEPT !.loss =
            Part(Clamped(IF u.loss > p.a1 + p.l1 THEN p.l1 ELSE u.loss - p.a1), p.sh1)]
    BY Zenon DEF InLayer
<1>7. InLayer(u, p) = [u EXCEPT !.loss = d]
    BY <1>4, <1>6
<1> HIDE DEF d
<1>8. Alike(a, t, [x EXCEPT !.loss = d], [u EXCEPT !.loss = d])
    BY <1>3, WithLossAlike
<1> QED BY <1>5, <1>7, <1>8

\* The shares of what is placed keep records alike.
LEMMA PlacedAlike ==
    ASSUME NEW a, NEW t, NEW x, NEW u, Alike(a, t, x, u), NEW p \in PolicyTerms, NEW d \in Int
    PROVE  Alike(a, t, Placed(x, p, d), Placed(u, p, d))
BY SMT, TermsInt, PartType DEF Placed, IsRecord, IsOf, Alike, Amounts, Fields

\* A maximum deductible keeps records alike.
LEMMA MaximisedAlike ==
    ASSUME NEW a, NEW t, NEW x, NEW u, Alike(a, t, x, u), NEW d \in Int
    PROVE  Alike(a, t, Maximised(x, d), Maximised(u, d))
BY SMT DEF Maximised, HasPriorLimits, IsRecord, IsOf, Alike, Amounts, Fields

\* A minimum deductible keeps records alike.
LEMMA MinimisedAlike ==
    ASSUME NEW a, NEW t, NEW x, NEW u, Alike(a, t, x, u), NEW d \in Int
    PROVE  Alike(a, t, Minimised(x, d), Minimised(u, d))
BY SMT DEF Minimised, HasPriorLimits, Lowered, Clamped, IsRecord, IsOf, Alike, Amounts, Fields

\* The minimum deductible of calcrule 8 keeps records alike.
LEMMA MinimisedOnceAlike ==
    ASSUME NEW a, NEW t, NEW x, NEW u, Alike(a, t, x, u), NEW d \in Int
    PROVE  Alike(a, t, MinimisedOnce(x, d), MinimisedOnce(u, d))
BY SMT DEF MinimisedOnce, HasPriorLimits, Lowered, Clamped, IsRecord, IsOf, Alike, Amounts, Fields

\* A minimum and a maximum deductible together keep records alike.
LEMMA BandedAlike ==
    ASSUME NEW a, NEW t, NEW x, NEW u, NEW y, NEW v, Alike(a, t, x, u), Alike(a, t, y, v),
           NEW d \in Int, NEW d2 \in Int, NEW d3 \in Int
    PROVE  Alike(a, t, Banded(x, d, d2, d3, y), Banded(u, d, d2, d3, v))
<1>1. x.effective_deductible \in Int /\ u.effective_deductible = x.effective_deductible
    BY AmountsAlike
<1> QED BY <1>1, Zenon, MaximisedAlike, MinimisedAlike DEF Banded, IsMaximised, IsMinimised

\* A limit that is a share of the loss keeps records alike.
LEMMA LimitedShareAlike ==
    ASSUME NEW a, NEW t, NEW x, NEW u, NEW y, NEW v, Alike(a, t, x, u),
           Alike(a, t, y, v), NEW d \in Int
    PROVE  Alike(a, t, LimitedShare(x, y, d), LimitedShare(u, v, d))
BY SMT, PartType DEF LimitedShare, Least, IsRecord, IsOf, Alike, Amounts, Fields

\* calcrule 1 depends on the amounts alone.
LEMMA Rule1Alike ==
    ASSUME NEW a, NEW t, NEW x, NEW u, Alike(a, t, x, u), NEW p \in PolicyTerms
    PROVE  Alike(a, t, Rule1(x, p), Rule1(u, p))
BY Zenon, TermsInt, AmountsAlike, DeductedAlike, LimitedAlike DEF Rule1

\* calcrule 2 depends on the amounts alone.
LEMMA Rule2Alike ==
    ASSUME NEW a, NEW t, NEW x, NEW u, Alike(a, t, x, u), NEW p \in PolicyTerms, NEW lay
    PROVE  Alike(a, t, Rule2(x, p, lay), Rule2(u, p, lay))
BY Zenon, TermsInt, AmountsAlike, DeductedAlike, RetainedAlike, InLayerAlike DEF Rule2

\* calcrule 3 depends on the amounts alone.
LEMMA Rule3Alike ==
    ASSUME NEW a, NEW t, NEW x, NEW u, Alike(a, t, x, u), NEW p \in PolicyTerms, NEW lay
    PROVE  Alike(a, t, Rule3(x, p, lay), Rule3(u, p, lay))
<1> DEFINE d == IF x.loss < p.d1 THEN x.loss ELSE 0
<1>1. d \in Int
    BY AmountsAlike
<1>2. Alike(a, t, Deducted(x, d), Deducted(u, d))
    BY <1>1, DeductedAlike
<1>3. x.loss = u.loss /\ p.l1 \in Int
    BY AmountsAlike, TermsInt
<1> QED BY <1>2, <1>3, Zenon, LimitedAlike, RetainedAlike DEF Rule3

\* calcrule 4 depends on the amounts alone.
LEMMA Rule4Alike ==
    ASSUME NEW a, NEW t, NEW x, NEW u, Alike(a, t, x, u), NEW p \in PolicyTerms
    PROVE  Alike(a, t, Rule4(x, p), Rule4(u, p))
<1>1. /\ x.accumulated_tiv \in Int /\ u.accumulated_tiv = x.accumulated_tiv
      /\ p.d1 \in Int /\ p.l1 \in Int
    BY TermsInt, AmountsAlike
<1> QED BY <1>1, Zenon, DeductedAlike, LimitedAlike, PartType DEF Rule4

\* calcrule 5 depends on the amounts alone.
LEMMA Rule5Alike ==
    ASSUME NEW a, NEW t, NEW x, NEW u, Alike(a, t, x, u), NEW p \in PolicyTerms
    PROVE  Alike(a, t, Rule5(x, p), Rule5(u, p))
<1>1. /\ x.loss \in Int /\ u.loss = x.loss
      /\ p.d1 \in Int /\ p.l1 \in Int
    BY TermsInt, AmountsAlike
<1> QED BY <1>1, Zenon, DeductedAlike, LimitedAlike, PartType DEF Rule5

\* calcrule 6 depends on the amounts alone.
LEMMA Rule6Alike ==
    ASSUME NEW a, NEW t, NEW x, NEW u, Alike(a, t, x, u), NEW p \in PolicyTerms
    PROVE  Alike(a, t, Rule6(x, p), Rule6(u, p))
<1>1. /\ x.accumulated_tiv \in Int /\ u.accumulated_tiv = x.accumulated_tiv
      /\ p.d1 \in Int
    BY TermsInt, AmountsAlike
<1> QED BY <1>1, Zenon, DeductedAlike, WidenedAlike, PartType DEF Rule6

\* An account of the exceeded limits that starts again keeps records alike.
LEMMA WithinAlike ==
    ASSUME NEW a, NEW t, NEW x, NEW u, Alike(a, t, x, u)
    PROVE  Alike(a, t, [x EXCEPT !.over_limit = 0], [u EXCEPT !.over_limit = 0])
BY SMT DEF IsRecord, IsOf, Alike, Amounts, Fields

\* calcrule 7 depends on the amounts alone.
LEMMA Rule7Alike ==
    ASSUME NEW a, NEW t, NEW x, NEW u, Alike(a, t, x, u), NEW p \in PolicyTerms
    PROVE  Alike(a, t, Rule7(x, p), Rule7(u, p))
BY Zenon, TermsInt, AmountsAlike, DeductedAlike, LimitedAlike, BandedAlike, WithinAlike DEF Rule7

\* calcrule 8 depends on the amounts alone.
LEMMA Rule8Alike ==
    ASSUME NEW a, NEW t, NEW x, NEW u, Alike(a, t, x, u), NEW p \in PolicyTerms
    PROVE  Alike(a, t, Rule8(x, p), Rule8(u, p))
<1>1. /\ x.effective_deductible \in Int /\ u.effective_deductible = x.effective_deductible
      /\ p.d1 \in Int /\ p.d2 \in Int /\ p.l1 \in Int
    BY TermsInt, AmountsAlike
<1> QED BY <1>1, Zenon, ReducedAlike, LimitedAlike, MinimisedOnceAlike DEF Rule8, IsMinimised

\* calcrule 9 depends on the amounts alone.
LEMMA Rule9Alike ==
    ASSUME NEW a, NEW t, NEW x, NEW u, Alike(a, t, x, u), NEW p \in PolicyTerms
    PROVE  Alike(a, t, Rule9(x, p), Rule9(u, p))
BY Zenon, TermsInt, AmountsAlike, DeductedAlike, LimitedAlike, PartType DEF Rule9

\* calcrule 10 depends on the amounts alone.
LEMMA Rule10Alike ==
    ASSUME NEW a, NEW t, NEW x, NEW u, Alike(a, t, x, u), NEW p \in PolicyTerms
    PROVE  Alike(a, t, Rule10(x, p), Rule10(u, p))
<1>1. /\ x.effective_deductible \in Int /\ u.effective_deductible = x.effective_deductible
      /\ p.d1 \in Int /\ p.d3 \in Int
    BY TermsInt, AmountsAlike
<1> QED BY <1>1, Zenon, ReducedAlike, MaximisedAlike DEF Rule10, IsMaximised

\* calcrule 11 depends on the amounts alone.
LEMMA Rule11Alike ==
    ASSUME NEW a, NEW t, NEW x, NEW u, Alike(a, t, x, u), NEW p \in PolicyTerms
    PROVE  Alike(a, t, Rule11(x, p), Rule11(u, p))
<1>1. /\ x.effective_deductible \in Int /\ u.effective_deductible = x.effective_deductible
      /\ p.d1 \in Int /\ p.d2 \in Int
    BY TermsInt, AmountsAlike
<1> QED BY <1>1, Zenon, ReducedAlike, MinimisedAlike DEF Rule11, IsMinimised

\* calcrule 12 depends on the amounts alone.
LEMMA Rule12Alike ==
    ASSUME NEW a, NEW t, NEW x, NEW u, Alike(a, t, x, u), NEW p \in PolicyTerms
    PROVE  Alike(a, t, Rule12(x, p), Rule12(u, p))
<1>1. /\ x.loss \in Int /\ u.loss = x.loss
      /\ p.d1 \in Int
    BY TermsInt, AmountsAlike
<1> QED BY <1>1, Zenon, DeductedAlike, WidenedAlike, RetainedAlike DEF Rule12

\* calcrule 13 depends on the amounts alone.
LEMMA Rule13Alike ==
    ASSUME NEW a, NEW t, NEW x, NEW u, Alike(a, t, x, u), NEW p \in PolicyTerms
    PROVE  Alike(a, t, Rule13(x, p), Rule13(u, p))
BY Zenon, TermsInt, AmountsAlike, ReducedAlike, BandedAlike DEF Rule13

\* calcrule 14 depends on the amounts alone.
LEMMA Rule14Alike ==
    ASSUME NEW a, NEW t, NEW x, NEW u, Alike(a, t, x, u), NEW p \in PolicyTerms, NEW lay
    PROVE  Alike(a, t, Rule14(x, p, lay), Rule14(u, p, lay))
BY Zenon, TermsInt, AmountsAlike, LimitedAlike, RetainedAlike DEF Rule14

\* A payment and what it leaves over the limit keep records alike.
LEMMA PaidAlike ==
    ASSUME NEW a, NEW t, NEW x, NEW u, Alike(a, t, x, u), NEW d \in Int
    PROVE  Alike(a, t, [x EXCEPT !.loss = d, !.over_limit = IF x.loss > d THEN x.loss - d ELSE @],
                       [u EXCEPT !.loss = d, !.over_limit = IF u.loss > d THEN u.loss - d ELSE @])
BY SMT DEF IsRecord, IsOf, Alike, Amounts, Fields

\* calcrule 15 depends on the amounts alone.
LEMMA Rule15Alike ==
    ASSUME NEW a, NEW t, NEW x, NEW u, Alike(a, t, x, u), NEW p \in PolicyTerms
    PROVE  Alike(a, t, Rule15(x, p), Rule15(u, p))
<1> DEFINE d == Least(Clamped(x.loss - p.d1), Part(x.loss, p.l1))
           y == [x EXCEPT !.loss = d, !.over_limit = IF x.loss > d THEN x.loss - d ELSE @]
           v == [u EXCEPT !.loss = d, !.over_limit = IF u.loss > d THEN u.loss - d ELSE @]
<1>1. /\ x.loss \in Int /\ u.loss = x.loss
      /\ p.d1 \in Int /\ p.l1 \in Int
    BY TermsInt, AmountsAlike
<1>8. Part(x.loss, p.l1) \in Int
    BY <1>1, PartType
<1>2. d \in Int
    BY <1>1, <1>8 DEF Least, Clamped
<1>3. Rule15(x, p) = Limited(x, y, d, p.l1)
    BY DEF Rule15
<1> DEFINE e == Least(Clamped(u.loss - p.d1), Part(u.loss, p.l1))
           w == [u EXCEPT !.loss = e, !.over_limit = IF u.loss > e THEN u.loss - e ELSE @]
<1>4. Rule15(u, p) = Limited(u, w, e, p.l1)
    BY DEF Rule15
<1>6. e = d
    BY <1>1
<1> HIDE DEF d, e
<1>5. Alike(a, t, y, v)
    BY <1>2, PaidAlike, Zenon
<1>7. w = v
    BY <1>6, Zenon
<1> HIDE DEF y, v, w
<1> QED BY <1>1, <1>2, <1>3, <1>4, <1>5, <1>6, <1>7, LimitedAlike

\* calcrule 16 depends on the amounts alone.
LEMMA Rule16Alike ==
    ASSUME NEW a, NEW t, NEW x, NEW u, Alike(a, t, x, u), NEW p \in PolicyTerms
    PROVE  Alike(a, t, Rule16(x, p), Rule16(u, p))
<1>1. /\ x.loss \in Int /\ u.loss = x.loss
      /\ p.d1 \in Int
    BY TermsInt, AmountsAlike
<1> QED BY <1>1, Zenon, DeductedAlike, WidenedAlike, PartType DEF Rule16

\* calcrule 17 depends on the amounts alone.
LEMMA Rule17Alike ==
    ASSUME NEW a, NEW t, NEW x, NEW u, Alike(a, t, x, u), NEW p \in PolicyTerms
    PROVE  Alike(a, t, Rule17(x, p), Rule17(u, p))
<1>1. /\ x.loss \in Int /\ u.loss = x.loss
      /\ p.d1 \in Int
    BY TermsInt, AmountsAlike
<1> QED BY <1>1, Zenon, DeductedAlike, InLayerAlike, PartType DEF Rule17

\* The maximum deductible of a profile, given or not, is an integer.
LEMMA TopType ==
    ASSUME NEW p \in PolicyTerms
    PROVE  Top(p) \in Int
BY SMT, TermsInt DEF Top, NoMaximum

\* calcrule 18 depends on the amounts alone.
LEMMA Rule18Alike ==
    ASSUME NEW a, NEW t, NEW x, NEW u, Alike(a, t, x, u), NEW p \in PolicyTerms
    PROVE  Alike(a, t, Rule18(x, p), Rule18(u, p))
<1> DEFINE d == Part(x.accumulated_tiv, p.d1)
<1>1. /\ x.accumulated_tiv \in Int /\ u.accumulated_tiv = x.accumulated_tiv
      /\ p.d1 \in Int
    BY TermsInt, AmountsAlike
<1>2. d \in Int
    BY <1>1, PartType
<1>3. /\ Rule18(x, p) = InLayer(Deducted(x, d), p)
      /\ Rule18(u, p) = InLayer(Deducted(u, d), p)
    BY <1>1, Zenon DEF Rule18
<1> HIDE DEF d
<1>4. Alike(a, t, Deducted(x, d), Deducted(u, d))
    BY <1>2, DeductedAlike
<1> QED BY <1>3, <1>4, InLayerAlike

\* calcrule 19 depends on the amounts alone.
LEMMA Rule19Alike ==
    ASSUME NEW a, NEW t, NEW x, NEW u, Alike(a, t, x, u), NEW p \in PolicyTerms
    PROVE  Alike(a, t, Rule19(x, p), Rule19(u, p))
<1> DEFINE d == Part(x.loss, p.d1)
<1>1. /\ x.loss \in Int /\ u.loss = x.loss
      /\ p.d1 \in Int /\ p.d2 \in Int /\ p.d3 \in Int
    BY TermsInt, AmountsAlike
<1>2. d \in Int /\ Top(p) \in Int
    BY <1>1, PartType, TopType
<1>3. /\ Rule19(x, p) = Banded(x, d, p.d2, Top(p), Deducted(x, d))
      /\ Rule19(u, p) = Banded(u, d, p.d2, Top(p), Deducted(u, d))
    BY <1>1, Zenon DEF Rule19
<1> HIDE DEF d
<1>4. Alike(a, t, Deducted(x, d), Deducted(u, d))
    BY <1>2, DeductedAlike
<1> QED BY <1>1, <1>2, <1>3, <1>4, BandedAlike

\* calcrule 20 depends on the amounts alone.
LEMMA Rule20Alike ==
    ASSUME NEW a, NEW t, NEW x, NEW u, Alike(a, t, x, u), NEW p \in PolicyTerms, NEW lay
    PROVE  Alike(a, t, Rule20(x, p, lay), Rule20(u, p, lay))
<1> DEFINE d == IF x.loss > p.d1 THEN 0 ELSE x.loss
<1>1. /\ x.loss \in Int /\ u.loss = x.loss
      /\ p.d1 \in Int
    BY TermsInt, AmountsAlike
<1>2. d \in Int
    BY <1>1
<1>3. /\ Rule20(x, p, lay) = Retained(x, [x EXCEPT !.loss = d], lay)
      /\ Rule20(u, p, lay) = Retained(u, [u EXCEPT !.loss = d], lay)
    BY <1>1, Zenon DEF Rule20
<1> HIDE DEF d
<1>4. Alike(a, t, [x EXCEPT !.loss = d], [u EXCEPT !.loss = d])
    BY <1>2, WithLossAlike
<1> QED BY <1>3, <1>4, RetainedAlike

\* calcrule 21 depends on the amounts alone.
LEMMA Rule21Alike ==
    ASSUME NEW a, NEW t, NEW x, NEW u, Alike(a, t, x, u), NEW p \in PolicyTerms
    PROVE  Alike(a, t, Rule21(x, p), Rule21(u, p))
<1> DEFINE d == Least(Part(x.accumulated_tiv, p.d1), x.loss)
<1>1. /\ x.loss \in Int /\ u.loss = x.loss
      /\ x.accumulated_tiv \in Int /\ u.accumulated_tiv = x.accumulated_tiv
      /\ p.d1 \in Int /\ p.d2 \in Int /\ p.d3 \in Int
    BY TermsInt, AmountsAlike
<1>2. d \in Int
    BY <1>1, PartType DEF Least
<1>3. /\ Rule21(x, p) = Banded(x, d, p.d2, p.d3, Deducted(x, d))
      /\ Rule21(u, p) = Banded(u, d, p.d2, p.d3, Deducted(u, d))
    BY <1>1, Zenon DEF Rule21
<1> HIDE DEF d
<1>4. Alike(a, t, Deducted(x, d), Deducted(u, d))
    BY <1>2, DeductedAlike
<1> QED BY <1>1, <1>2, <1>3, <1>4, BandedAlike

\* calcrule 22 depends on the amounts alone.
LEMMA Rule22Alike ==
    ASSUME NEW a, NEW t, NEW x, NEW u, Alike(a, t, x, u), NEW p \in PolicyTerms, NEW lay
    PROVE  Alike(a, t, Rule22(x, p, lay), Rule22(u, p, lay))
<1> DEFINE d == Clamped(Least(Part(x.loss, p.sh1), p.l1))
<1>1. /\ x.loss \in Int /\ u.loss = x.loss
      /\ p.sh1 \in Int /\ p.l1 \in Int
    BY TermsInt, AmountsAlike
<1>5. Part(x.loss, p.sh1) \in Int
    BY <1>1, PartType
<1>2. d \in Int
    BY <1>1, <1>5 DEF Clamped, Least
<1>3. /\ Rule22(x, p, lay) = Retained(x, Placed(x, p, d), lay)
      /\ Rule22(u, p, lay) = Retained(u, Placed(u, p, d), lay)
    BY <1>1, Zenon DEF Rule22
<1> HIDE DEF d
<1>4. Alike(a, t, Placed(x, p, d), Placed(u, p, d))
    BY <1>2, PlacedAlike
<1> QED BY <1>3, <1>4, RetainedAlike

\* calcrule 23 depends on the amounts alone.
LEMMA Rule23Alike ==
    ASSUME NEW a, NEW t, NEW x, NEW u, Alike(a, t, x, u), NEW p \in PolicyTerms, NEW lay
    PROVE  Alike(a, t, Rule23(x, p, lay), Rule23(u, p, lay))
<1> DEFINE d == Clamped(Least(x.loss, p.l1))
<1>1. /\ x.loss \in Int /\ u.loss = x.loss
      /\ p.l1 \in Int
    BY TermsInt, AmountsAlike
<1>2. d \in Int
    BY <1>1 DEF Clamped, Least
<1>3. /\ Rule23(x, p, lay) = Retained(x, Placed(x, p, d), lay)
      /\ Rule23(u, p, lay) = Retained(u, Placed(u, p, d), lay)
    BY <1>1, Zenon DEF Rule23
<1> HIDE DEF d
<1>4. Alike(a, t, Placed(x, p, d), Placed(u, p, d))
    BY <1>2, PlacedAlike
<1> QED BY <1>3, <1>4, RetainedAlike

\* calcrule 24 depends on the amounts alone.
LEMMA Rule24Alike ==
    ASSUME NEW a, NEW t, NEW x, NEW u, Alike(a, t, x, u), NEW p \in PolicyTerms, NEW lay
    PROVE  Alike(a, t, Rule24(x, p, lay), Rule24(u, p, lay))
<1> DEFINE d == Least(Clamped(Part(x.loss, p.sh1) - p.a1), p.l1)
<1>1. /\ x.loss \in Int /\ u.loss = x.loss
      /\ p.sh1 \in Int /\ p.a1 \in Int /\ p.l1 \in Int
    BY TermsInt, AmountsAlike
<1>5. Part(x.loss, p.sh1) \in Int
    BY <1>1, PartType
<1>2. d \in Int
    BY <1>1, <1>5 DEF Clamped, Least
<1>3. /\ Rule24(x, p, lay) = Retained(x, Placed(x, p, d), lay)
      /\ Rule24(u, p, lay) = Retained(u, Placed(u, p, d), lay)
    BY <1>1, Zenon DEF Rule24
<1> HIDE DEF d
<1>4. Alike(a, t, Placed(x, p, d), Placed(u, p, d))
    BY <1>2, PlacedAlike
<1> QED BY <1>3, <1>4, RetainedAlike

\* calcrule 25 depends on the amounts alone.
LEMMA Rule25Alike ==
    ASSUME NEW a, NEW t, NEW x, NEW u, Alike(a, t, x, u), NEW p \in PolicyTerms, NEW lay
    PROVE  Alike(a, t, Rule25(x, p, lay), Rule25(u, p, lay))
<1> DEFINE d == Part(x.loss, p.sh1)
<1>1. /\ x.loss \in Int /\ u.loss = x.loss
      /\ p.sh1 \in Int
    BY TermsInt, AmountsAlike
<1>2. d \in Int
    BY <1>1, PartType
<1>3. /\ Rule25(x, p, lay) = Retained(x, Placed(x, p, d), lay)
      /\ Rule25(u, p, lay) = Retained(u, Placed(u, p, d), lay)
    BY <1>1, Zenon DEF Rule25
<1> HIDE DEF d
<1>4. Alike(a, t, Placed(x, p, d), Placed(u, p, d))
    BY <1>2, PlacedAlike
<1> QED BY <1>3, <1>4, RetainedAlike

\* calcrule 26 depends on the amounts alone.
LEMMA Rule26Alike ==
    ASSUME NEW a, NEW t, NEW x, NEW u, Alike(a, t, x, u), NEW p \in PolicyTerms
    PROVE  Alike(a, t, Rule26(x, p), Rule26(u, p))
<1> DEFINE d == Part(x.loss, p.d1)
           y == Banded(x, d, p.d2, Top(p), Deducted(x, d))
           v == Banded(u, d, p.d2, Top(p), Deducted(u, d))
<1>1. /\ x.loss \in Int /\ u.loss = x.loss
      /\ x.effective_deductible \in Int /\ u.effective_deductible = x.effective_deductible
      /\ p.d1 \in Int /\ p.d2 \in Int /\ p.d3 \in Int /\ p.l1 \in Int
    BY TermsInt, AmountsAlike
<1>2. d \in Int /\ Top(p) \in Int
    BY <1>1, PartType, TopType
<1>3. /\ Rule26(x, p) = IF IsMaximised(x, d, Top(p)) THEN y ELSE Limited(x, y, p.l1, p.l1)
      /\ Rule26(u, p) = IF IsMaximised(u, d, Top(p)) THEN v ELSE Limited(u, v, p.l1, p.l1)
    BY <1>1, Zenon DEF Rule26
<1>4. IsMaximised(u, d, Top(p)) = IsMaximised(x, d, Top(p))
    BY <1>1 DEF IsMaximised
<1> HIDE DEF d
<1>5. Alike(a, t, Deducted(x, d), Deducted(u, d))
    BY <1>2, DeductedAlike
<1>6. Alike(a, t, y, v)
    BY <1>1, <1>2, <1>5, BandedAlike
<1> HIDE DEF y, v
<1>7. Alike(a, t, Limited(x, y, p.l1, p.l1), Limited(u, v, p.l1, p.l1))
    BY <1>1, <1>6, LimitedAlike
<1> QED BY <1>3, <1>4, <1>6, <1>7

\* calcrule 33 depends on the amounts alone.
LEMMA Rule33Alike ==
    ASSUME NEW a, NEW t, NEW x, NEW u, Alike(a, t, x, u), NEW p \in PolicyTerms
    PROVE  Alike(a, t, Rule33(x, p), Rule33(u, p))
<1> DEFINE d == Part(x.loss, p.d1)
<1>1. /\ x.loss \in Int /\ u.loss = x.loss
      /\ p.d1 \in Int /\ p.l1 \in Int
    BY TermsInt, AmountsAlike
<1>2. d \in Int
    BY <1>1, PartType
<1>3. /\ Rule33(x, p) = Limited(x, Deducted(x, d), p.l1, p.l1)
      /\ Rule33(u, p) = Limited(u, Deducted(u, d), p.l1, p.l1)
    BY <1>1, Zenon DEF Rule33
<1> HIDE DEF d
<1>4. Alike(a, t, Deducted(x, d), Deducted(u, d))
    BY <1>2, DeductedAlike
<1> QED BY <1>1, <1>3, <1>4, LimitedAlike

\* calcrule 34 depends on the amounts alone.
LEMMA Rule34Alike ==
    ASSUME NEW a, NEW t, NEW x, NEW u, Alike(a, t, x, u), NEW p \in PolicyTerms, NEW lay
    PROVE  Alike(a, t, Rule34(x, p, lay), Rule34(u, p, lay))
<1> DEFINE y == Deducted(x, p.d1)
           v == Deducted(u, p.d1)
           d == Part(Clamped(y.loss - p.a1), p.sh1)
<1>1. p.d1 \in Int /\ p.a1 \in Int /\ p.sh1 \in Int
    BY TermsInt
<1>2. Alike(a, t, y, v)
    BY <1>1, DeductedAlike
<1> HIDE DEF y, v
<1>3. y.loss \in Int /\ v.loss = y.loss
    BY <1>2, AmountsAlike
<1>4. Clamped(y.loss - p.a1) \in Int
    BY <1>1, <1>3 DEF Clamped
<1>5. d \in Int
    BY <1>1, <1>4, PartType
<1>6. /\ Rule34(x, p, lay) = Retained(x, [y EXCEPT !.loss = d], lay)
      /\ Rule34(u, p, lay) = Retained(u, [v EXCEPT !.loss = d], lay)
    BY <1>3, Zenon DEF Rule34, y, v
<1> HIDE DEF d
<1>7. Alike(a, t, [y EXCEPT !.loss = d], [v EXCEPT !.loss = d])
    BY <1>2, <1>5, WithLossAlike
<1> QED BY <1>6, <1>7, RetainedAlike

\* calcrule 35 depends on the amounts alone.
LEMMA Rule35Alike ==
    ASSUME NEW a, NEW t, NEW x, NEW u, Alike(a, t, x, u), NEW p \in PolicyTerms
    PROVE  Alike(a, t, Rule35(x, p), Rule35(u, p))
<1> DEFINE d == Part(x.loss, p.d1)
           y == Banded(x, d, p.d2, Top(p), Deducted(x, d))
           v == Banded(u, d, p.d2, Top(p), Deducted(u, d))
<1>1. /\ x.loss \in Int /\ u.loss = x.loss
      /\ x.effective_deductible \in Int /\ u.effective_deductible = x.effective_deductible
      /\ p.d1 \in Int /\ p.d2 \in Int /\ p.d3 \in Int /\ p.l1 \in Int
    BY TermsInt, AmountsAlike
<1>2. d \in Int /\ Top(p) \in Int
    BY <1>1, PartType, TopType
<1>3. /\ Rule35(x, p) = IF IsMaximised(x, d, Top(p)) THEN y ELSE LimitedShare(x, y, p.l1)
      /\ Rule35(u, p) = IF IsMaximised(u, d, Top(p)) THEN v ELSE LimitedShare(u, v, p.l1)
    BY <1>1, Zenon DEF Rule35
<1>4. IsMaximised(u, d, Top(p)) = IsMaximised(x, d, Top(p))
    BY <1>1 DEF IsMaximised
<1> HIDE DEF d
<1>5. Alike(a, t, Deducted(x, d), Deducted(u, d))
    BY <1>2, DeductedAlike
<1>6. Alike(a, t, y, v)
    BY <1>1, <1>2, <1>5, BandedAlike
<1> HIDE DEF y, v
<1>7. Alike(a, t, LimitedShare(x, y, p.l1), LimitedShare(u, v, p.l1))
    BY <1>1, <1>6, LimitedShareAlike
<1> QED BY <1>3, <1>4, <1>6, <1>7

\* calcrule 36 depends on the amounts alone.
LEMMA Rule36Alike ==
    ASSUME NEW a, NEW t, NEW x, NEW u, Alike(a, t, x, u), NEW p \in PolicyTerms
    PROVE  Alike(a, t, Rule36(x, p), Rule36(u, p))
<1> DEFINE d == p.d1
           y == Banded(x, d, p.d2, Top(p), Deducted(x, d))
           v == Banded(u, d, p.d2, Top(p), Deducted(u, d))
<1>1. /\ x.effective_deductible \in Int /\ u.effective_deductible = x.effective_deductible
      /\ p.d1 \in Int /\ p.d2 \in Int /\ p.d3 \in Int /\ p.l1 \in Int
    BY TermsInt, AmountsAlike
<1>2. d \in Int /\ Top(p) \in Int
    BY <1>1, TopType
<1>3. /\ Rule36(x, p) = IF IsMaximised(x, d, Top(p)) THEN y ELSE LimitedShare(x, y, p.l1)
      /\ Rule36(u, p) = IF IsMaximised(u, d, Top(p)) THEN v ELSE LimitedShare(u, v, p.l1)
    BY <1>1, Zenon DEF Rule36
<1>4. IsMaximised(u, d, Top(p)) = IsMaximised(x, d, Top(p))
    BY <1>1 DEF IsMaximised
<1> HIDE DEF d
<1>5. Alike(a, t, Deducted(x, d), Deducted(u, d))
    BY <1>2, DeductedAlike
<1>6. Alike(a, t, y, v)
    BY <1>1, <1>2, <1>5, BandedAlike
<1> HIDE DEF y, v
<1>7. Alike(a, t, LimitedShare(x, y, p.l1), LimitedShare(u, v, p.l1))
    BY <1>1, <1>6, LimitedShareAlike
<1> QED BY <1>3, <1>4, <1>6, <1>7

\* applycalcrule depends on the amounts alone.
LEMMA CalcRuleAlike ==
    ASSUME NEW a, NEW t, NEW x, NEW u, Alike(a, t, x, u), NEW p \in PolicyTerms, NEW lay
    PROVE  Alike(a, t, applycalcrule(p, x, lay), applycalcrule(p, u, lay))
<1>1. Alike(a, t, Rule1(x, p), Rule1(u, p))
    BY Rule1Alike
<1>2. Alike(a, t, Rule2(x, p, lay), Rule2(u, p, lay))
    BY Rule2Alike
<1>3. Alike(a, t, Rule3(x, p, lay), Rule3(u, p, lay))
    BY Rule3Alike
<1>4. Alike(a, t, Rule4(x, p), Rule4(u, p))
    BY Rule4Alike
<1>5. Alike(a, t, Rule5(x, p), Rule5(u, p))
    BY Rule5Alike
<1>6. Alike(a, t, Rule6(x, p), Rule6(u, p))
    BY Rule6Alike
<1>7. Alike(a, t, Rule7(x, p), Rule7(u, p))
    BY Rule7Alike
<1>8. Alike(a, t, Rule8(x, p), Rule8(u, p))
    BY Rule8Alike
<1>9. Alike(a, t, Rule9(x, p), Rule9(u, p))
    BY Rule9Alike
<1>10. Alike(a, t, Rule10(x, p), Rule10(u, p))
    BY Rule10Alike
<1>11. Alike(a, t, Rule11(x, p), Rule11(u, p))
    BY Rule11Alike
<1>12. Alike(a, t, Rule12(x, p), Rule12(u, p))
    BY Rule12Alike
<1>13. Alike(a, t, Rule13(x, p), Rule13(u, p))
    BY Rule13Alike
<1>14. Alike(a, t, Rule14(x, p, lay), Rule14(u, p, lay))
    BY Rule14Alike
<1>15. Alike(a, t, Rule15(x, p), Rule15(u, p))
    BY Rule15Alike
<1>16. Alike(a, t, Rule16(x, p), Rule16(u, p))
    BY Rule16Alike
<1>17. Alike(a, t, Rule17(x, p), Rule17(u, p))
    BY Rule17Alike
<1>18. Alike(a, t, Rule18(x, p), Rule18(u, p))
    BY Rule18Alike
<1>19. Alike(a, t, Rule19(x, p), Rule19(u, p))
    BY Rule19Alike
<1>20. Alike(a, t, Rule20(x, p, lay), Rule20(u, p, lay))
    BY Rule20Alike
<1>21. Alike(a, t, Rule21(x, p), Rule21(u, p))
    BY Rule21Alike
<1>22. Alike(a, t, Rule22(x, p, lay), Rule22(u, p, lay))
    BY Rule22Alike
<1>23. Alike(a, t, Rule23(x, p, lay), Rule23(u, p, lay))
    BY Rule23Alike
<1>24. Alike(a, t, Rule24(x, p, lay), Rule24(u, p, lay))
    BY Rule24Alike
<1>25. Alike(a, t, Rule25(x, p, lay), Rule25(u, p, lay))
    BY Rule25Alike
<1>26. Alike(a, t, Rule26(x, p), Rule26(u, p))
    BY Rule26Alike
<1>27. Alike(a, t, Rule33(x, p), Rule33(u, p))
    BY Rule33Alike
<1>28. Alike(a, t, Rule34(x, p, lay), Rule34(u, p, lay))
    BY Rule34Alike
<1>29. Alike(a, t, Rule35(x, p), Rule35(u, p))
    BY Rule35Alike
<1>30. Alike(a, t, Rule36(x, p), Rule36(u, p))
    BY Rule36Alike
<1> QED BY <1>1, <1>2, <1>3, <1>4, <1>5, <1>6, <1>7, <1>8, <1>9, <1>10, <1>11, <1>12,
           <1>13, <1>14, <1>15, <1>16, <1>17, <1>18, <1>19, <1>20, <1>21, <1>22, <1>23,
           <1>24, <1>25, <1>26, <1>27, <1>28, <1>29, <1>30, SMT DEF applycalcrule

\* The payout of a step depends on the amounts alone.
LEMMA PayoutAlike ==
    ASSUME NEW a, NEW t, NEW x, NEW u, Alike(a, t, x, u), NEW p \in PolicyTerms,
           p.calcrule \in 27 .. 32
    PROVE  Payout(p, x) \in Int /\ Payout(p, u) = Payout(p, x)
BY SMT, TermsInt, AmountsAlike, PartType
   DEF Payout, Payout27, Payout28, Payout29, Payout30, Payout31, Payout32, Clamped, Least

\* A payout with the extra payments that go with it is an integer.
LEMMA GrossedUpType ==
    ASSUME NEW p \in PolicyTerms, NEW primary \in Int, NEW base \in Int
    PROVE  GrossedUp(p, primary, base) \in Int
<1> DEFINE rest == Part(base, p.sc2)
           loss == primary + Least(rest, p.l2)
<1>1. p.sc1 \in Int /\ p.sc2 \in Int /\ p.l2 \in Int
    BY TermsInt
<1>2. rest \in Int
    BY <1>1, PartType
<1> HIDE DEF rest
<1>3. loss \in Int
    BY <1>1, <1>2 DEF Least
<1>4. GrossedUp(p, primary, base) = loss + Part(loss, p.sc1)
    BY Zenon DEF GrossedUp, rest
<1> HIDE DEF loss
<1>5. Part(loss, p.sc1) \in Int
    BY <1>1, <1>3, PartType
<1> QED BY <1>3, <1>4, <1>5

\* What a step pays in all depends on the amounts alone.
LEMMA StepLossAlike ==
    ASSUME NEW a, NEW t, NEW x, NEW u, Alike(a, t, x, u), NEW p \in PolicyTerms,
           p.calcrule \in 27 .. 32
    PROVE  StepLoss(p, x) \in Int /\ StepLoss(p, u) = StepLoss(p, x)
<1>1. /\ Payout(p, x) \in Int /\ Payout(p, u) = Payout(p, x)
      /\ x.loss \in Int /\ u.loss = x.loss /\ x.step_loss \in Int /\ u.step_loss = x.step_loss
      /\ x.accumulated_tiv \in Int /\ u.accumulated_tiv = x.accumulated_tiv
    BY PayoutAlike, AmountsAlike
<1>2. Triggered(x, p) = Triggered(u, p)
    BY <1>1 DEF Triggered
<1> QED BY <1>1, <1>2, GrossedUpType DEF StepLoss

\* A step of a stepped policy keeps records alike.
LEMMA SteppedAlike ==
    ASSUME NEW a, NEW t, NEW x, NEW u, Alike(a, t, x, u), NEW p \in PolicyTerms,
           p.calcrule \in 27 .. 32, NEW last \in BOOLEAN
    PROVE  Alike(a, t, Stepped(p, x, last), Stepped(p, u, last))
<1>1. StepLoss(p, x) \in Int /\ StepLoss(p, u) = StepLoss(p, x)
    BY StepLossAlike
<1> QED BY <1>1, SMT DEF Stepped, IsRecord, IsOf, Alike, Amounts, Fields

\* applycalcrule_stepped depends on the amounts alone.
LEMMA SteppedRuleAlike ==
    ASSUME NEW a, NEW t, NEW x, NEW u, Alike(a, t, x, u), NEW p \in PolicyTerms,
           NEW lay, NEW last \in BOOLEAN
    PROVE  Alike(a, t, applycalcrule_stepped(p, x, lay, last),
                       applycalcrule_stepped(p, u, lay, last))
<1> DEFINE y == [Rule12(x, p) EXCEPT !.under_limit = x.under_limit]
           v == [Rule12(u, p) EXCEPT !.under_limit = u.under_limit]
<1>1. Alike(a, t, Rule12(x, p), Rule12(u, p))
    BY Rule12Alike
<1>2. Alike(a, t, y, v)
    BY <1>1, SMT DEF IsRecord, IsOf, Alike, Amounts, Fields
<1> HIDE DEF y, v
<1> QED BY <1>2, SteppedAlike, Rule2Alike, Rule14Alike, Rule34Alike, SMT
        DEF applycalcrule_stepped, y, v
-----------------------------------------------------------------------------
(* The steps of a profile, and the rule of a record *)

StepOf(env, x, k) == applycalcrule_stepped(env[1][k], x, env[2], k = Len(env[1]))
Steps == INSTANCE Folding WITH op <- StepOf

\* A sequence of steps, whatever its length, depends on the amounts alone.
LEMMA StepByStepAlike ==
    ASSUME NEW a, NEW t, NEW x, NEW u, Alike(a, t, x, u), NEW steps \in Seq(PolicyTerms),
           NEW lay
    PROVE  Alike(a, t, StepByStep(steps, x, lay), StepByStep(steps, u, lay))
<1> DEFINE env == <<steps, lay>>
           n == Len(steps)
<1>1. n \in Nat /\ DOMAIN steps = 1 .. n /\ 0 <= n
    OBVIOUS
<1>2. PICK f : f = Steps!Recursion(env, x, 0, n)
    OBVIOUS
<1>3. PICK g : g = Steps!Recursion(env, u, 0, n)
    OBVIOUS
<1>4. StepByStep(steps, x, lay) = f[n] /\ StepByStep(steps, u, lay) = g[n]
    BY <1>2, <1>3 DEF StepByStep, Steps!Recursion, StepOf
<1>5. Steps!Follows(f, env, x, 0, n) /\ Steps!Follows(g, env, u, 0, n)
    BY <1>1, <1>2, <1>3, Steps!RecursionSteps
<1>6. f[0] = x /\ g[0] = u
    BY <1>5 DEF Steps!Follows
<1>7. ASSUME NEW i \in 0 .. n, i < n
      PROVE  /\ f[i + 1] = applycalcrule_stepped(steps[i + 1], f[i], lay, i + 1 = n)
             /\ g[i + 1] = applycalcrule_stepped(steps[i + 1], g[i], lay, i + 1 = n)
             /\ steps[i + 1] \in PolicyTerms
    <2>1. i + 1 \in 0 .. n /\ i + 1 # 0 /\ (i + 1) - 1 = i /\ i + 1 \in 1 .. n
        BY <1>1, <1>7
    <2>2. f[i + 1] = StepOf(env, f[i], i + 1) /\ g[i + 1] = StepOf(env, g[i], i + 1)
        BY <1>5, <2>1 DEF Steps!Follows
    <2> QED BY <2>1, <2>2 DEF StepOf
<1> DEFINE S == {i \in 0 .. n : Alike(a, t, f[i], g[i])}
<1>8. 0 \in S
    BY <1>1, <1>6
<1>9. ASSUME NEW i \in 0 .. n, i \in S, i < n
      PROVE  i + 1 \in S
    <2>1. Alike(a, t, f[i], g[i]) /\ i + 1 \in 0 .. n
        BY <1>1, <1>9
    <2>2. /\ f[i + 1] = applycalcrule_stepped(steps[i + 1], f[i], lay, i + 1 = n)
          /\ g[i + 1] = applycalcrule_stepped(steps[i + 1], g[i], lay, i + 1 = n)
          /\ steps[i + 1] \in PolicyTerms
        BY <1>7, <1>9, Zenon
    <2>3. (i + 1 = n) \in BOOLEAN
        BY Zenon
    <2>4. Alike(a, t, applycalcrule_stepped(steps[i + 1], f[i], lay, i + 1 = n),
                      applycalcrule_stepped(steps[i + 1], g[i], lay, i + 1 = n))
        BY <2>1, <2>2, <2>3, SteppedRuleAlike, Zenon
    <2>5. Alike(a, t, f[i + 1], g[i + 1])
        BY <2>2, <2>4, Zenon
    <2> QED BY <2>1, <2>5
<1> HIDE DEF S, n, env
<1>10. \A i \in 0 .. n : i \in S
    BY <1>1, <1>8, <1>9, Steps!Induction
<1> QED BY <1>1, <1>4, <1>10 DEF S

\* The profiles of a programme.
Profiles == (Seq(PolicyTerms) \ {<<>>}) \cup {Noop}

\* The terms of a node depend on the amounts of its record alone.
LEMMA RuledAlike ==
    ASSUME NEW a, NEW t \in Profiles, NEW x, NEW u, Alike(a, t, x, u),
           NEW stepped \in BOOLEAN, NEW lay
    PROVE  Alike(a, t, Ruled(stepped, x, lay), Ruled(stepped, u, lay))
<1>1. /\ x.loss = u.loss /\ x.retained_loss = u.retained_loss
      /\ x.agg_id = a /\ u.agg_id = a /\ x.policytc_id = t /\ u.policytc_id = t
    BY SMT DEF Alike, IsOf, Amounts
<1>2. CASE t = Noop
    BY <1>1, <1>2 DEF Ruled
<1>3. CASE t \in Seq(PolicyTerms) \ {<<>>}
    <2>1. t[1] \in PolicyTerms /\ t \in Seq(PolicyTerms)
        BY <1>3
    <2>2. Alike(a, t, StepByStep(t, x, lay), StepByStep(t, u, lay))
        BY <2>1, StepByStepAlike
    <2>3. Alike(a, t, applycalcrule(t[1], x, lay), applycalcrule(t[1], u, lay))
        BY <2>1, CalcRuleAlike
    <2> QED BY <1>1, <2>2, <2>3, Zenon DEF Ruled
<1> QED BY <1>2, <1>3 DEF Profiles

-----------------------------------------------------------------------------
(* Sums *)

PlusOf(amount, t, x) == t + amount[x]
Sums == INSTANCE Folding WITH op <- PlusOf

\* SumOf is a fold over a set.
LEMMA SumIs ==
    ASSUME NEW amount, NEW S
    PROVE  SumOf(amount, S) = Sums!OverSet(amount, 0, S)
BY SMT DEF SumOf, Sums!OverSet, PlusOf, FoldSet, MapThenFoldSet,
           Sums!FoldSet, Sums!MapThenFoldSet

\* The sum over the empty set is 0.
LEMMA SumEmpty ==
    ASSUME NEW amount
    PROVE  SumOf(amount, {}) = 0
BY SumIs, Sums!OverSetEmpty

\* A sum over a finite set of integers is an integer.
LEMMA SumType ==
    ASSUME NEW amount, NEW S, IsFiniteSet(S), \A x \in S : amount[x] \in Int
    PROVE  SumOf(amount, S) \in Int
<1>1. Sums!Closed(amount, Int, S)
    BY DEF Sums!Closed, PlusOf
<1>2. Sums!OverSet(amount, 0, S) \in Int
    <2>1. 0 \in Int
        OBVIOUS
    <2>2. Sums!IsFiniteSet(S)
        BY DEF IsFiniteSet, Sums!IsFiniteSet
    <2> QED BY <1>1, <2>1, <2>2, Sums!OverSetType, Zenon
<1> QED BY <1>2, SumIs

\* A sum over one element more is greater by its amount.
LEMMA SumInsert ==
    ASSUME NEW amount, NEW S, IsFiniteSet(S), NEW x, x \notin S,
           \A y \in S \cup {x} : amount[y] \in Int
    PROVE  SumOf(amount, S \cup {x}) = SumOf(amount, S) + amount[x]
<1>1. PICK T : T = S \cup {x}
    OBVIOUS
<1>2. Sums!Closed(amount, Int, T)
    BY <1>1 DEF Sums!Closed, PlusOf
<1>3. Sums!Commutes(amount, Int, T)
    BY <1>1 DEF Sums!Commutes, PlusOf
<1>4. 0 \in Int /\ Sums!IsFiniteSet(S)
    BY DEF IsFiniteSet, Sums!IsFiniteSet
<1>5. Sums!OverSet(amount, 0, T) = PlusOf(amount, Sums!OverSet(amount, 0, S), x)
    BY <1>1, <1>2, <1>3, <1>4, Sums!OverSetInsert
<1> QED BY <1>1, <1>5, SumIs DEF PlusOf


-----------------------------------------------------------------------------
(* Adding up the records of the level below *)

\* What a level takes from the one below.
Taken == {"loss", "retained_loss", "effective_deductible", "over_limit", "under_limit"}

IsBlank(x) == Alike(0, NoProfile, LossRec, x)

\* The record x has the sums of the children kids of the node a.
Gathers(f, recs, kids, l, k, a, x) ==
    IF kids = {} THEN IsBlank(x)
    ELSE Alike(a, ProfileOf(f, l, a, k), Gathered(f, recs, kids, l, k, a), x)

\* The amounts of a fresh record are 0, and it belongs to no node.
LEMMA Blank ==
    /\ DOMAIN LossRec = Fields /\ \A i \in Amounts : LossRec[i] = 0
    /\ LossRec.agg_id = 0 /\ LossRec.policytc_id = NoProfile
BY SMT DEF LossRec, Fields, Amounts

\* The record w is x, of the node n, with what the child y has.
IsChildOf(w, f, l, k, x, n, y) ==
    /\ DOMAIN w = Fields
    /\ w.agg_id = n.agg_id /\ w.policytc_id = ProfileOf(f, l, n.agg_id, k)
    /\ \A i \in Taken : w[i] = x[i] + y[i]
    /\ w.accumulated_tiv = AccumulatedTiv(f, l, n.agg_id)
    /\ w.previous_layer_retained_loss = x.previous_layer_retained_loss
    /\ w.step_loss = x.step_loss

\* What a child adds to the record of its node.
LEMMA WithChildIs ==
    ASSUME NEW f, NEW l, NEW k, NEW x, NEW n, NEW y, DOMAIN x = Fields
    PROVE  IsChildOf(WithChild(f, l, k, x, n, y), f, l, k, x, n, y)
<1> DEFINE w == WithChild(f, l, k, x, n, y)
<1>1. DOMAIN w = Fields
    BY Zenon DEF WithChild
<1>2. w.agg_id = n.agg_id
    BY SMT DEF WithChild, Fields, Amounts
<1>5. w.policytc_id = ProfileOf(f, l, n.agg_id, k)
    BY SMT DEF WithChild, Fields, Amounts
<1>6. w.accumulated_tiv = AccumulatedTiv(f, l, n.agg_id)
    BY SMT DEF WithChild, Fields, Amounts
<1>7. w.previous_layer_retained_loss = x.previous_layer_retained_loss
    BY SMT DEF WithChild, Fields, Amounts
<1>8. w.step_loss = x.step_loss
    BY SMT DEF WithChild, Fields, Amounts
<1>3. /\ w.loss = x.loss + y.loss /\ w.retained_loss = x.retained_loss + y.retained_loss
      /\ w.effective_deductible = x.effective_deductible + y.effective_deductible
      /\ w.over_limit = x.over_limit + y.over_limit
      /\ w.under_limit = x.under_limit + y.under_limit
    BY SMT DEF WithChild, Fields, Amounts
<1>4. \A i \in Taken : w[i] = x[i] + y[i]
    <2> HIDE DEF w
    <2> QED BY <1>3, SMT DEF Taken
<1> HIDE DEF w
<1> QED BY <1>1, <1>2, <1>4, <1>5, <1>6, <1>7, <1>8 DEF IsChildOf, w

\* What the reference adds up for a node.
LEMMA GatheredIs ==
    ASSUME NEW f, NEW recs, NEW kids, NEW l, NEW k, NEW a,
           NEW h, h = Gathered(f, recs, kids, l, k, a)
    PROVE  /\ DOMAIN h = Fields /\ h.agg_id = a /\ h.policytc_id = ProfileOf(f, l, a, k)
           /\ \A i \in Taken : h[i] = Added(recs, kids, i)
           /\ h.accumulated_tiv = AccumulatedTiv(f, l, a)
           /\ h.previous_layer_retained_loss = 0 /\ h.step_loss = 0
<1>1. /\ LossRec.previous_layer_retained_loss = 0 /\ LossRec.step_loss = 0
      /\ DOMAIN LossRec = Fields
    BY Blank DEF Amounts
<1>2. /\ DOMAIN h = Fields /\ h.agg_id = a /\ h.policytc_id = ProfileOf(f, l, a, k)
      /\ h.accumulated_tiv = AccumulatedTiv(f, l, a)
      /\ h.previous_layer_retained_loss = 0 /\ h.step_loss = 0
      /\ h.loss = Added(recs, kids, "loss")
      /\ h.retained_loss = Added(recs, kids, "retained_loss")
      /\ h.effective_deductible = Added(recs, kids, "effective_deductible")
      /\ h.over_limit = Added(recs, kids, "over_limit")
      /\ h.under_limit = Added(recs, kids, "under_limit")
    BY <1>1, SMT DEF Gathered, Fields, Amounts
<1>3. \A i \in Taken : h[i] = Added(recs, kids, i)
    BY <1>2, SMT DEF Taken
<1> QED BY <1>2, <1>3

\* A record that gathers the children S gathers one more when that is added.
LEMMA GatherOne ==
    ASSUME NEW f, NEW recs, NEW S, IsFiniteSet(S), NEW b \in DOMAIN recs, b \notin S,
           S \subseteq DOMAIN recs, \A c \in DOMAIN recs : \A i \in Taken : recs[c][i] \in Int,
           NEW l, NEW k, NEW a, AccumulatedTiv(f, l, a) \in Int,
           NEW x, Gathers(f, recs, S, l, k, a, x),
           NEW n, n.agg_id = a, NEW y, \A i \in Taken : y[i] = recs[b][i]
    PROVE  Gathers(f, recs, S \cup {b}, l, k, a, WithChild(f, l, k, x, n, y))
<1> DEFINE g == Gathered(f, recs, S, l, k, a)
           h == Gathered(f, recs, S \cup {b}, l, k, a)
           w == WithChild(f, l, k, x, n, y)
           tiv == AccumulatedTiv(f, l, a)
           t == ProfileOf(f, l, a, k)
<1>1. ASSUME NEW i \in Taken
      PROVE  /\ Added(recs, S, i) \in Int /\ recs[b][i] \in Int
             /\ Added(recs, S \cup {b}, i) = Added(recs, S, i) + recs[b][i]
             /\ S = {} => Added(recs, S, i) = 0
    <2> DEFINE amount == [c \in DOMAIN recs |-> recs[c][i]]
    <2>1. /\ \A c \in S \cup {b} : amount[c] \in Int
          /\ \A c \in S : amount[c] \in Int
          /\ amount[b] = recs[b][i]
        OBVIOUS
    <2>2. \A T : Added(recs, T, i) = SumOf(amount, T)
        BY DEF Added
    <2> HIDE DEF amount
    <2>3. SumOf(amount, S) \in Int
        BY <2>1, SumType
    <2>4. SumOf(amount, S \cup {b}) = SumOf(amount, S) + amount[b]
        BY <2>1, SumInsert
    <2>5. SumOf(amount, {}) = 0
        BY SumEmpty
    <2> QED BY <2>1, <2>2, <2>3, <2>4, <2>5
<1>2. /\ DOMAIN x = Fields
      /\ \A i \in Taken : x[i] = Added(recs, S, i)
      /\ x.previous_layer_retained_loss = 0 /\ x.step_loss = 0
    <2>1. CASE S = {}
        <3>1. IsBlank(x)
            BY <2>1 DEF Gathers
        <3>2. \A i \in Taken : Added(recs, S, i) = 0
            BY <1>1, <2>1
        <3>3. DOMAIN x = Fields /\ \A i \in Amounts : x[i] = 0
            BY <3>1, Blank DEF IsBlank, Alike, IsRecord
        <3> QED BY <3>2, <3>3 DEF Amounts, Taken
    <2>2. CASE S # {}
        <3>1. Alike(a, t, g, x)
            BY <2>2 DEF Gathers
        <3>2. /\ \A i \in Taken : g[i] = Added(recs, S, i)
              /\ g.previous_layer_retained_loss = 0 /\ g.step_loss = 0
            BY GatheredIs
        <3> HIDE DEF g
        <3>3. DOMAIN x = Fields /\ \A i \in Amounts : x[i] = g[i]
            BY <3>1 DEF Alike, IsRecord
        <3> QED BY <3>2, <3>3 DEF Amounts, Taken
    <2> QED BY <2>1, <2>2
<1>3. /\ DOMAIN w = Fields /\ w.agg_id = a /\ w.policytc_id = t
      /\ \A i \in Taken : w[i] = x[i] + y[i]
      /\ w.accumulated_tiv = tiv
      /\ w.previous_layer_retained_loss = 0 /\ w.step_loss = 0
    BY <1>2, WithChildIs DEF IsChildOf
<1>4. /\ DOMAIN h = Fields /\ h.agg_id = a /\ h.policytc_id = t
      /\ \A i \in Taken : h[i] = Added(recs, S \cup {b}, i)
      /\ h.accumulated_tiv = tiv
      /\ h.previous_layer_retained_loss = 0 /\ h.step_loss = 0
    BY GatheredIs
<1> HIDE DEF g, h, w, t
<1>5. \A i \in Taken : h[i] \in Int /\ w[i] = h[i]
    <2> TAKE i \in Taken
    <2>1. PICK p : p = Added(recs, S, i)
        OBVIOUS
    <2>2. PICK q : q = Added(recs, S \cup {b}, i)
        OBVIOUS
    <2>3. p \in Int /\ recs[b][i] \in Int /\ q = p + recs[b][i]
        BY <1>1, <2>1, <2>2, Zenon
    <2>4. x[i] = p /\ w[i] = x[i] + y[i] /\ h[i] = q /\ y[i] = recs[b][i]
        BY <1>2, <1>3, <1>4, <2>1, <2>2, Zenon
    <2> QED BY <2>3, <2>4
<1>6. \A i \in Amounts : i \in Taken \/ i = "accumulated_tiv"
         \/ i = "previous_layer_retained_loss" \/ i = "step_loss"
    BY DEF Amounts, Taken
<1>7. tiv \in Int
    OBVIOUS
<1> HIDE DEF tiv
<1>8. \A i \in Amounts : h[i] \in Int /\ w[i] = h[i]
    <2> TAKE i \in Amounts
    <2> QED BY <1>3, <1>4, <1>5, <1>6, <1>7
<1>9. Alike(a, t, h, w)
    BY <1>3, <1>4, <1>8 DEF Alike, IsRecord, IsOf
<1>10. S \cup {b} # {}
    OBVIOUS
<1> QED BY <1>9, <1>10, Zenon DEF Gathers, h, w, t


IsVector(vec, size) == vec = [n \in 1 .. size |-> vec[n]]

\* The length of a vector.
LEMMA VectorLen ==
    ASSUME NEW size \in Nat, NEW vec, IsVector(vec, size)
    PROVE  DOMAIN vec = 1 .. size /\ Len(vec) = size
<1>1. DOMAIN vec = 1 .. size
    BY DEF IsVector
<1>2. Len(vec) = size
    <2> DEFINE T == {vec[n] : n \in 1 .. size}
    <2>1. vec = [n \in 1 .. size |-> vec[n]] /\ \A n \in 1 .. size : vec[n] \in T
        BY DEF IsVector
    <2>2. vec \in [1 .. size -> T]
        BY <2>1
    <2>3. vec \in Seq(T)
        BY <2>2
    <2> QED BY <1>1, <2>3
<1> QED BY <1>1, <1>2

IsNodes(nodes) == \A i, j \in DOMAIN nodes : nodes[i].agg_id = nodes[j].agg_id => i = j

\* The vector lookup finds the node.
LEMMA IndexOf ==
    ASSUME NEW nodes, IsNodes(nodes), NEW a \in AggIds(nodes)
    PROVE  /\ VecIdx(nodes, a) \in DOMAIN nodes
           /\ nodes[VecIdx(nodes, a)].agg_id = a
           /\ \A j \in DOMAIN nodes : nodes[j].agg_id = a => j = VecIdx(nodes, a)
<1>1. \E i \in DOMAIN nodes : nodes[i].agg_id = a
    BY DEF AggIds
<1> QED BY <1>1 DEF VecIdx, IsNodes

\* The records of the nodes below, in their order and nothing behind them.
Brings(previous, size, below, recs) ==
    \A n \in 1 .. size :
        IF n \in DOMAIN below
        THEN /\ previous[n].agg_id = below[n].agg_id
             /\ \A i \in Taken : previous[n][i] = recs[below[n].agg_id][i]
        ELSE previous[n].agg_id = 0

\* The nodes below can be added up.
Climbs(f, below, here, recs, l, k) ==
    /\ DOMAIN recs = AggIds(below)
    /\ \A b \in AggIds(below) :
          /\ b # 0 /\ \A i \in Taken : recs[b][i] \in Int
          /\ f.parent[l][b] \in AggIds(here) /\ HasLayer(f, l, f.parent[l][b], k)
    /\ \A a \in AggIds(here) : AccumulatedTiv(f, l, a) \in Int

KidsUpTo(f, below, l, a, n) ==
    {below[m].agg_id : m \in {j \in DOMAIN below : j <= n /\ f.parent[l][below[j].agg_id] = a}}

\* What has been added up from the first n records.
SumsUpTo(f, below, here, recs, l, k, size, acc, n) ==
    /\ IsVector(acc, size)
    /\ \A j \in 1 .. size :
          IF j \in DOMAIN here
          THEN Gathers(f, recs, KidsUpTo(f, below, l, here[j].agg_id, n), l, k,
                       here[j].agg_id, acc[j])
          ELSE IsBlank(acc[j])

\* The image of a finite set is finite.
LEMMA ImageFinite ==
    ASSUME NEW S, IsFiniteSet(S), NEW g, NEW T, \A t \in T : \E x \in S : t = g[x]
    PROVE  IsFiniteSet(T)
<1> DEFINE U == {g[x] : x \in S}
           h == [x \in S |-> g[x]]
<1>1. h \in Surjection(S, U)
    BY DEF Surjection
<1>2. IsFiniteSet(U)
    <2> HIDE DEF h, U
    <2> QED BY <1>1, FS_Surjection
<1>3. T \subseteq U
    OBVIOUS
<1> QED BY <1>2, <1>3, FS_Subset

\* A record of another node's child, or of none, adds no child.
LEMMA KidsSame ==
    ASSUME NEW f, NEW below, IsNodes(below), DOMAIN below \subseteq Nat, NEW l, NEW a,
           NEW n \in Nat,
           n + 1 \notin DOMAIN below \/ f.parent[l][below[n + 1].agg_id] # a
    PROVE  KidsUpTo(f, below, l, a, n + 1) = KidsUpTo(f, below, l, a, n)
<1>1. \A j \in DOMAIN below : j <= n + 1 <=> j <= n \/ j = n + 1
    OBVIOUS
<1> QED BY <1>1 DEF KidsUpTo

OneMore(after, before, b, all) ==
    /\ IsFiniteSet(before) /\ before \subseteq all
    /\ after = before \cup {b} /\ b \notin before

\* The record of a child adds that child.
LEMMA KidsMore ==
    ASSUME NEW f, NEW below, IsNodes(below), DOMAIN below \subseteq Nat, NEW l, NEW n \in Nat,
           n + 1 \in DOMAIN below, NEW b, b = below[n + 1].agg_id, NEW a, a = f.parent[l][b]
    PROVE  OneMore(KidsUpTo(f, below, l, a, n + 1), KidsUpTo(f, below, l, a, n), b, AggIds(below))
<1> DEFINE At == {j \in DOMAIN below : j <= n /\ f.parent[l][below[j].agg_id] = a}
<1>1. At \subseteq 0 .. n
    OBVIOUS
<1>2. IsFiniteSet(At)
    <2>1. IsFiniteSet(0 .. n)
        BY FS_Interval
    <2> QED BY <1>1, <2>1, FS_Subset
<1>3. \A c \in KidsUpTo(f, below, l, a, n) : \E m \in At : c = below[m].agg_id
    BY DEF KidsUpTo
<1>4. IsFiniteSet(KidsUpTo(f, below, l, a, n))
    <2> DEFINE g == [m \in At |-> below[m].agg_id]
    <2>1. \A c \in KidsUpTo(f, below, l, a, n) : \E m \in At : c = g[m]
        BY <1>3
    <2> HIDE DEF At, g
    <2> QED BY <1>2, <2>1, ImageFinite
<1>5. \A j \in DOMAIN below : j <= n + 1 <=> j <= n \/ j = n + 1
    OBVIOUS
<1>6. KidsUpTo(f, below, l, a, n + 1) = KidsUpTo(f, below, l, a, n) \cup {b}
    BY <1>5 DEF KidsUpTo
<1>7. b \notin KidsUpTo(f, below, l, a, n)
    BY DEF KidsUpTo, IsNodes
<1>8. KidsUpTo(f, below, l, a, n) \subseteq AggIds(below)
    BY DEF KidsUpTo, AggIds
<1> QED BY <1>4, <1>6, <1>7, <1>8, Zenon DEF OneMore

\* Before the first record nothing is added up.
LEMMA SumsNone ==
    ASSUME NEW f, NEW below, DOMAIN below \subseteq Nat \ {0}, NEW here, NEW recs,
           NEW l, NEW k,
           NEW size \in Nat, NEW vec, IsVector(vec, size), \A j \in 1 .. size : IsBlank(vec[j])
    PROVE  SumsUpTo(f, below, here, recs, l, k, size, vec, 0)
<1>1. \A j \in DOMAIN below : ~(j <= 0)
    OBVIOUS
<1>2. \A a : KidsUpTo(f, below, l, a, 0) = {}
    BY <1>1, Zenon DEF KidsUpTo
<1> QED BY <1>2, Zenon DEF SumsUpTo, Gathers

\* One record of the level below, added up into its node.
LEMMA SumsStep ==
    ASSUME NEW f, NEW below, IsNodes(below), DOMAIN below \subseteq Nat,
           NEW here, IsNodes(here), NEW size \in Nat, DOMAIN here \subseteq 1 .. size,
           NEW recs, NEW l, NEW k, Climbs(f, below, here, recs, l, k),
           NEW psize \in Nat, NEW previous, Brings(previous, psize, below, recs),
           NEW n \in Nat, n + 1 \in 1 .. psize,
           NEW acc, SumsUpTo(f, below, here, recs, l, k, size, acc, n)
    PROVE  SumsUpTo(f, below, here, recs, l, k, size,
                    AddedUp(f, here, l, k, acc, previous[n + 1]), n + 1)
<1> DEFINE y == previous[n + 1]
           after == AddedUp(f, here, l, k, acc, y)
           kids(a) == KidsUpTo(f, below, l, a, n)
           more(a) == KidsUpTo(f, below, l, a, n + 1)
<1>1. CASE n + 1 \notin DOMAIN below
    <2>1. y.agg_id = 0
        BY <1>1 DEF Brings
    <2>2. after = acc
        BY <2>1, Zenon DEF AddedUp
    <2>3. \A a : more(a) = kids(a)
        BY <1>1, KidsSame
    <2> QED BY <2>2, <2>3, Zenon DEF SumsUpTo
<1>2. CASE n + 1 \in DOMAIN below
    <2> DEFINE b == below[n + 1].agg_id
               a == f.parent[l][b]
               j == VecIdx(here, a)
    <2>1. y.agg_id = b /\ \A i \in Taken : y[i] = recs[b][i]
        BY <1>2 DEF Brings
    <2>2. b \in AggIds(below)
        BY <1>2 DEF AggIds
    <2>3. /\ b # 0 /\ a \in AggIds(here) /\ HasLayer(f, l, a, k) /\ DOMAIN recs = AggIds(below)
          /\ \A c \in DOMAIN recs : \A i \in Taken : recs[c][i] \in Int
          /\ AccumulatedTiv(f, l, a) \in Int
        BY <2>2, Zenon DEF Climbs
    <2> HIDE DEF b
    <2>4. after = [acc EXCEPT ![j] = WithChild(f, l, k, acc[j], here[j], y)]
        BY <2>1, <2>3 DEF AddedUp
    <2> HIDE DEF a
    <2>5. j \in DOMAIN here /\ here[j].agg_id = a
          /\ \A m \in DOMAIN here : here[m].agg_id = a => m = j
        BY <2>3, IndexOf
    <2> HIDE DEF j
    <2>6. DOMAIN acc = 1 .. size /\ IsVector(after, size)
        BY <2>4 DEF SumsUpTo, IsVector
    <2>7. IsFiniteSet(kids(a)) /\ kids(a) \subseteq DOMAIN recs /\ b \notin kids(a)
          /\ more(a) = kids(a) \cup {b}
        <3>1. b = below[n + 1].agg_id
            BY DEF b
        <3>2. a = f.parent[l][b]
            BY DEF a
        <3>3. /\ IsFiniteSet(KidsUpTo(f, below, l, a, n))
              /\ KidsUpTo(f, below, l, a, n) \subseteq AggIds(below)
              /\ KidsUpTo(f, below, l, a, n + 1) = KidsUpTo(f, below, l, a, n) \cup {b}
              /\ b \notin KidsUpTo(f, below, l, a, n)
            <4>1. OneMore(KidsUpTo(f, below, l, a, n + 1), KidsUpTo(f, below, l, a, n), b,
                          AggIds(below))
                BY <1>2, <3>1, <3>2, KidsMore
            <4> QED BY <4>1, Zenon DEF OneMore
        <3> QED BY <2>3, <3>3
    <2>8. \A d : d # a => more(d) = kids(d)
        <3> TAKE d
        <3> HAVE d # a
        <3>1. f.parent[l][below[n + 1].agg_id] # d
            BY DEF a, b
        <3> QED BY <3>1, KidsSame
    <2>9. Gathers(f, recs, kids(a), l, k, a, acc[j])
        BY <2>5 DEF SumsUpTo
    <2> HIDE DEF after, y
    <2>10. Gathers(f, recs, kids(a) \cup {b}, l, k, a, WithChild(f, l, k, acc[j], here[j], y))
        <3>1. b \in DOMAIN recs
            BY <2>2, <2>3
        <3> HIDE DEF kids
        <3> QED BY <2>1, <2>3, <2>5, <2>7, <2>9, <3>1, GatherOne
    <2>11. ASSUME NEW m \in 1 .. size
           PROVE  IF m \in DOMAIN here
                  THEN Gathers(f, recs, more(here[m].agg_id), l, k, here[m].agg_id, after[m])
                  ELSE IsBlank(after[m])
        <3>1. CASE m = j
            <4>1. after[m] = WithChild(f, l, k, acc[j], here[j], y)
                BY <2>4, <2>6, <3>1
            <4> QED BY <2>5, <2>7, <2>10, <3>1, <4>1
        <3>2. CASE m # j
            <4>1. after[m] = acc[m]
                BY <2>4, <2>6, <3>2
            <4>2. m \in DOMAIN here => here[m].agg_id # a
                BY <2>5, <3>2
            <4>3. IF m \in DOMAIN here
                  THEN Gathers(f, recs, kids(here[m].agg_id), l, k, here[m].agg_id, acc[m])
                  ELSE IsBlank(acc[m])
                BY DEF SumsUpTo
            <4> HIDE DEF kids, more
            <4> QED BY <2>8, <4>1, <4>2, <4>3
        <3> QED BY <3>1, <3>2
    <2> QED BY <2>6, <2>11 DEF SumsUpTo, after, y
<1> QED BY <1>1, <1>2

AddOf(env, acc, n) == AddedUp(env[1], env[2], env[3], env[4], acc, env[5][n])
Adds == INSTANCE Folding WITH op <- AddOf

\* With the last record, all children have been met.
LEMMA AllKids ==
    ASSUME NEW f, NEW below, NEW here, NEW l, NEW n \in Nat, DOMAIN below \subseteq 1 .. n,
           NEW av, av[l - 1] = below, NEW a
    PROVE  KidsUpTo(f, below, l, a, n) = Kids(f, av, l, a)
<1>1. \A j \in DOMAIN below : j <= n
    OBVIOUS
<1> QED BY <1>1 DEF KidsUpTo, Kids, AggIds

\* A cleared vector holds, after the records of the level below were added up,
\* the sums of every node's children and nothing else.
LEMMA Aggregates ==
    ASSUME NEW f, NEW below, IsNodes(below),
           NEW here, IsNodes(here), NEW size \in Nat, DOMAIN here \subseteq 1 .. size,
           NEW recs, NEW l, NEW k, Climbs(f, below, here, recs, l, k),
           NEW psize \in Nat, DOMAIN below \subseteq 1 .. psize,
           NEW previous, IsVector(previous, psize), Brings(previous, psize, below, recs),
           NEW vec, IsVector(vec, size), \A j \in 1 .. size : IsBlank(vec[j])
    PROVE  SumsUpTo(f, below, here, recs, l, k, size,
                    Aggregated(f, here, vec, previous, l, k), psize)
<1> DEFINE env == <<f, here, l, k, previous>>
<1>1. Len(previous) = psize
    BY VectorLen
<1>2. PICK sum : sum = Adds!Recursion(env, vec, 0, psize)
    OBVIOUS
<1>3. Aggregated(f, here, vec, previous, l, k) = sum[psize]
    BY <1>1, <1>2 DEF Aggregated, Adds!Recursion, AddOf
<1>4. Adds!Follows(sum, env, vec, 0, psize)
    BY <1>2, Adds!RecursionSteps
<1>5. sum[0] = vec /\ \A i \in 0 .. psize : i < psize
            => sum[i + 1] = AddedUp(f, here, l, k, sum[i], previous[i + 1])
    <2>1. ASSUME NEW i \in 0 .. psize, i < psize
          PROVE  sum[i + 1] = AddedUp(f, here, l, k, sum[i], previous[i + 1])
        <3>1. i + 1 \in 0 .. psize /\ i + 1 # 0 /\ (i + 1) - 1 = i
            BY <2>1
        <3>2. sum[i + 1] = AddOf(env, sum[i], i + 1)
            BY <1>4, <3>1 DEF Adds!Follows
        <3> QED BY <3>2 DEF AddOf
    <2> QED BY <1>4, <2>1 DEF Adds!Follows
<1> DEFINE S == {i \in 0 .. psize : SumsUpTo(f, below, here, recs, l, k, size, sum[i], i)}
<1>6. 0 \in S
    <2>1. SumsUpTo(f, below, here, recs, l, k, size, vec, 0)
        BY SumsNone
    <2> QED BY <1>5, <2>1
<1>7. ASSUME NEW i \in 0 .. psize, i \in S, i < psize PROVE i + 1 \in S
    <2>1. i + 1 \in 1 .. psize /\ i \in Nat /\ i + 1 \in 0 .. psize
        BY <1>7
    <2>2. SumsUpTo(f, below, here, recs, l, k, size, sum[i], i)
        BY <1>7
    <2>3. DOMAIN below \subseteq Nat
        OBVIOUS
    <2>4. SumsUpTo(f, below, here, recs, l, k, size,
                    AddedUp(f, here, l, k, sum[i], previous[i + 1]), i + 1)
        BY <2>1, <2>2, <2>3, SumsStep
    <2>5. sum[i + 1] = AddedUp(f, here, l, k, sum[i], previous[i + 1])
        BY <1>5, <1>7
    <2> QED BY <2>1, <2>4, <2>5
<1> HIDE DEF S
<1>8. \A i \in 0 .. psize : i \in S
    BY <1>6, <1>7, Adds!Induction
<1> QED BY <1>3, <1>8 DEF S

-----------------------------------------------------------------------------
(* One call of dofmcalc_r *)

\* A vector with the records of the nodes, in their order, and blanks behind.
IsFilled(f, nodes, size, recs, vec, l, k) ==
    /\ IsVector(vec, size)
    /\ \A n \in 1 .. size :
          IF n \in DOMAIN nodes
          THEN Alike(nodes[n].agg_id, ProfileOf(f, l, nodes[n].agg_id, k),
                     recs[nodes[n].agg_id], vec[n])
          ELSE IsBlank(vec[n])

\* What a call finds in a vector: nothing, or what an earlier one left.
IsShaped(nodes, size, vec) ==
    \/ vec = <<>>
    \/ /\ IsVector(vec, size)
       /\ \A n \in 1 .. size :
             IF n \in DOMAIN nodes THEN DOMAIN vec[n] = Fields /\ vec[n].policytc_id # NoProfile
             ELSE IsBlank(vec[n])

\* Nodes for a vector of size records.
AreNodes(nodes, size) ==
    /\ IsNodes(nodes)
    /\ \E m \in 0 .. size : DOMAIN nodes = 1 .. m
    /\ \A n \in DOMAIN nodes : nodes[n].agg_id # 0

\* A fresh record is blank.
LEMMA BlankRec == IsBlank(LossRec)
<1>1. DOMAIN LossRec = Fields
    BY SMT DEF LossRec, Fields, Amounts
<1>2. LossRec.agg_id = 0 /\ LossRec.policytc_id = NoProfile
    BY DEF LossRec
<1>3. \A i \in Amounts : LossRec[i] \in Int
    BY SMT DEF LossRec, Amounts
<1> QED BY <1>1, <1>2, <1>3 DEF IsBlank, Alike, IsRecord, IsOf

\* Whatever an earlier call left in a vector, Reset and Resized clear it: the
\* records in use come first, and those behind them never were.
LEMMA Cleared ==
    ASSUME NEW size \in Nat, NEW nodes, AreNodes(nodes, size),
           NEW vec, IsShaped(nodes, size, vec)
    PROVE  /\ IsVector(Resized(Reset(vec), size), size)
           /\ \A n \in 1 .. size : IsBlank(Resized(Reset(vec), size)[n])
<1> DEFINE clear == Resized(Reset(vec), size)
<1>1. \A n \in 1 .. size : clear[n] = IF n <= Len(Reset(vec)) THEN Reset(vec)[n] ELSE LossRec
    BY DEF Resized
<1>2. IsVector(clear, size)
    BY DEF Resized, IsVector
<1>3. CASE vec = <<>>
    <2>1. IsVector(Reset(vec), 0)
        BY <1>3 DEF Reset, IsVector
    <2>2. Len(Reset(vec)) = 0
        BY <2>1, VectorLen
    <2>3. \A n \in 1 .. size : clear[n] = LossRec
        BY <1>1, <2>2
    <2> HIDE DEF clear
    <2> QED BY <1>2, <2>3, BlankRec DEF clear
<1>4. CASE /\ IsVector(vec, size)
           /\ \A n \in 1 .. size :
             IF n \in DOMAIN nodes THEN DOMAIN vec[n] = Fields /\ vec[n].policytc_id # NoProfile
             ELSE IsBlank(vec[n])
    <2>1. DOMAIN vec = 1 .. size
        BY <1>4, VectorLen
    <2>2. IsVector(Reset(vec), size)
        BY <2>1 DEF Reset, IsVector
    <2>3. Len(Reset(vec)) = size
        BY <2>2, VectorLen
    <2>4. ASSUME NEW n \in 1 .. size PROVE IsBlank(Reset(vec)[n])
        <3>1. CASE n \in DOMAIN nodes
            <4>1. \A j \in 1 .. n : j \in DOMAIN nodes /\ j \in 1 .. size
                BY <3>1 DEF AreNodes
            <4>2. \A j \in 1 .. n : vec[j].policytc_id # NoProfile
                BY <1>4, <4>1
            <4>3. Reset(vec)[n] = LossRec
                BY <2>1, <4>2 DEF Reset
            <4> QED BY <4>3, BlankRec
        <3>2. CASE n \notin DOMAIN nodes
            <4>1. IsBlank(vec[n])
                BY <1>4, <3>2
            <4>2. Reset(vec)[n] \in {vec[n], LossRec}
                BY <2>1 DEF Reset
            <4> QED BY <4>1, <4>2, BlankRec
        <3> QED BY <3>1, <3>2
    <2>5. \A n \in 1 .. size : clear[n] = Reset(vec)[n]
        BY <1>1, <2>3
    <2> QED BY <1>2, <2>4, <2>5
<1> QED BY <1>3, <1>4 DEF IsShaped

\* The retained loss of the layer before is carried over.
LEMMA CarriedAlike ==
    ASSUME NEW a, NEW t, NEW x, NEW u, Alike(a, t, x, u), NEW d \in Int
    PROVE  Alike(a, t, [x EXCEPT !.previous_layer_retained_loss = d],
                       [u EXCEPT !.previous_layer_retained_loss = d])
BY SMT DEF IsRecord, IsOf, Alike, Amounts, Fields

\* The first layer carries no retained loss over.
LEMMA FirstAlike ==
    ASSUME NEW a, NEW t, NEW x, NEW u, Alike(a, t, x, u), x.previous_layer_retained_loss = 0
    PROVE  Alike(a, t, [x EXCEPT !.previous_layer_retained_loss = 0], u)
BY SMT DEF IsRecord, IsOf, Alike, Amounts, Fields

\* A blank record stays one when no retained loss is carried over.
LEMMA BlankStays ==
    ASSUME NEW x, IsBlank(x)
    PROVE  IsBlank([x EXCEPT !.previous_layer_retained_loss = 0])
BY SMT DEF IsBlank, IsRecord, IsOf, Alike, Amounts, Fields, LossRec

\* A blank record belongs to no node and has no profile.
LEMMA BlankFacts ==
    ASSUME NEW x, IsBlank(x)
    PROVE  x.agg_id = 0 /\ x.policytc_id = NoProfile /\ x.retained_loss = 0
BY SMT DEF IsBlank, IsRecord, IsOf, Alike, Amounts, LossRec

\* Records that are alike belong to the same node and retain the same.
LEMMA AlikeFacts ==
    ASSUME NEW a, NEW t, NEW x, NEW u, Alike(a, t, x, u)
    PROVE  /\ x.agg_id = a /\ u.agg_id = a /\ u.policytc_id = t
           /\ x.retained_loss \in Int /\ u.retained_loss = x.retained_loss
BY SMT DEF IsRecord, IsOf, Alike, Amounts

\* The records ruled are those of recs after their rules.
AreRuled(ruled, recs, nodes, f, k) ==
    \A a \in AggIds(nodes) : ruled[a] = Ruled(f.stepped, recs[a], k)

RuledAll(f, vec, k) ==
    [n \in DOMAIN vec |->
        IF \E j \in 1 .. n : vec[j].agg_id = 0 THEN vec[n]
        ELSE Ruled(f.stepped, vec[n], k)]

\* dofmcalc applies the rule of every node, and leaves the blanks alone.
LEMMA RuledVector ==
    ASSUME NEW size \in Nat, NEW nodes, AreNodes(nodes, size), NEW f, NEW l, NEW k,
           f.stepped \in BOOLEAN,
           \A a \in AggIds(nodes) : ProfileOf(f, l, a, k) \in Profiles,
           NEW recs, NEW ruled, AreRuled(ruled, recs, nodes, f, k),
           NEW vec, IsFilled(f, nodes, size, recs, vec, l, k)
    PROVE  IsFilled(f, nodes, size, ruled, RuledAll(f, vec, k), l, k)
<1> DEFINE out == RuledAll(f, vec, k)
<1>1. DOMAIN vec = 1 .. size /\ IsVector(out, size)
    BY VectorLen DEF IsVector, IsFilled, RuledAll
<1>2. ASSUME NEW n \in 1 .. size, n \in DOMAIN nodes
      PROVE  Alike(nodes[n].agg_id, ProfileOf(f, l, nodes[n].agg_id, k),
                   ruled[nodes[n].agg_id], out[n])
    <2> DEFINE a == nodes[n].agg_id
    <2>1. \A j \in 1 .. n : j \in DOMAIN nodes /\ j \in 1 .. size
        BY <1>2 DEF AreNodes
    <2>2. ASSUME NEW j \in 1 .. n PROVE vec[j].agg_id # 0
        <3>1. Alike(nodes[j].agg_id, ProfileOf(f, l, nodes[j].agg_id, k),
                    recs[nodes[j].agg_id], vec[j])
            BY <2>1 DEF IsFilled
        <3>2. vec[j].agg_id = nodes[j].agg_id /\ nodes[j].agg_id # 0
            BY <2>1, <3>1, AlikeFacts DEF AreNodes
        <3> QED BY <3>2
    <2>3. out[n] = Ruled(f.stepped, vec[n], k)
        BY <1>1, <2>2 DEF RuledAll
    <2>4. a \in AggIds(nodes)
        BY <1>2 DEF AggIds
    <2>5. Alike(a, ProfileOf(f, l, a, k), recs[a], vec[n])
        BY <1>2 DEF IsFilled
    <2> HIDE DEF out, a
    <2>6. Alike(a, ProfileOf(f, l, a, k), Ruled(f.stepped, recs[a], k), Ruled(f.stepped, vec[n], k))
        BY <2>4, <2>5, RuledAlike
    <2> QED BY <2>3, <2>4, <2>6 DEF a, AreRuled
<1>3. ASSUME NEW n \in 1 .. size, n \notin DOMAIN nodes
      PROVE  IsBlank(out[n])
    <2>1. IsBlank(vec[n])
        BY <1>3 DEF IsFilled
    <2>2. vec[n].agg_id = 0 /\ n \in 1 .. n
        BY <2>1, BlankFacts
    <2>3. out[n] = vec[n]
        BY <1>1, <2>2 DEF RuledAll
    <2> QED BY <2>1, <2>3
<1> QED BY <1>1, <1>2, <1>3 DEF IsFilled

\* A level whose nodes have parents, children and policies.
IsLevel(f, av, l) ==
    /\ MaxAgg(f, l) \in Nat
    /\ AreNodes(av[l], MaxAgg(f, l))
    /\ \A b \in AggIds(av[l - 1]) : f.parent[l][b] \in AggIds(av[l])
    /\ \A a \in AggIds(av[l]) : Kids(f, av, l, a) # {} /\ AccumulatedTiv(f, l, a) \in Int
    /\ MaxLayer(f, l) \in Nat \ {0}
    /\ \A a \in AggIds(av[l]) : \A k \in 1 .. MaxLayer(f, l) :
          HasLayer(f, l, a, k) /\ ProfileOf(f, l, a, k) \in Profiles

\* What the nodes of the layer before retained.
IsBefore(nodes, size, before, f, vecs, l, k) ==
    /\ k = 1 => \A a \in AggIds(nodes) : before[a] = 0
    /\ k # 1 => \E prev : /\ IsFilled(f, nodes, size, prev, vecs[k - 1], l, k - 1)
                          /\ \A a \in AggIds(nodes) : before[a] = prev[a].retained_loss

Carried(summed, before, k) ==
    IF k = 1 THEN summed
    ELSE [n \in DOMAIN summed |->
            [summed[n] EXCEPT !.previous_layer_retained_loss = before[n].retained_loss]]

\* The records given are those of recs with what was retained before.
AreGiven(given, recs, before, nodes) ==
    \A a \in AggIds(nodes) :
        /\ recs[a].previous_layer_retained_loss = 0
        /\ given[a] = [recs[a] EXCEPT !.previous_layer_retained_loss = before[a]]

\* The retained losses of the layer before are carried over, node by node.
LEMMA CarriedFilled ==
    ASSUME NEW size \in Nat, NEW nodes, AreNodes(nodes, size), NEW f, NEW l, NEW k, NEW vecs,
           NEW before, IsBefore(nodes, size, before, f, vecs, l, k),
           NEW recs, NEW summed, IsFilled(f, nodes, size, recs, summed, l, k),
           NEW given, AreGiven(given, recs, before, nodes)
    PROVE  IsFilled(f, nodes, size, given, Carried(summed, vecs[k - 1], k), l, k)
<1> DEFINE out == Carried(summed, vecs[k - 1], k)
<1>1. DOMAIN summed = 1 .. size
    BY VectorLen DEF IsFilled
<1>2. IsVector(out, size)
    BY <1>1 DEF Carried, IsVector, IsFilled
<1>3. ASSUME NEW n \in 1 .. size, n \in DOMAIN nodes
      PROVE  Alike(nodes[n].agg_id, ProfileOf(f, l, nodes[n].agg_id, k),
                   given[nodes[n].agg_id], out[n])
    <2> DEFINE a == nodes[n].agg_id
               t == ProfileOf(f, l, a, k)
    <2>1. Alike(a, t, recs[a], summed[n])
        BY <1>3 DEF IsFilled
    <2>2. a \in AggIds(nodes)
        BY <1>3 DEF AggIds
    <2> HIDE DEF t
    <2>3. CASE k = 1
        <3>1. given[a] = [recs[a] EXCEPT !.previous_layer_retained_loss = 0] /\ out[n] = summed[n]
            BY <2>2, <2>3 DEF IsBefore, Carried, AreGiven
        <3>2. recs[a].previous_layer_retained_loss = 0
            BY <2>2 DEF AreGiven
        <3> HIDE DEF a, out
        <3>3. Alike(a, t, [recs[a] EXCEPT !.previous_layer_retained_loss = 0], summed[n])
            BY <2>1, <3>2, FirstAlike
        <3> QED BY <3>1, <3>3 DEF a, t
    <2>4. CASE k # 1
        <3>1. PICK prev : /\ IsFilled(f, nodes, size, prev, vecs[k - 1], l, k - 1)
                          /\ \A b \in AggIds(nodes) : before[b] = prev[b].retained_loss
            BY <2>4 DEF IsBefore
        <3> DEFINE q == vecs[k - 1][n]
                   d == q.retained_loss
        <3>2. Alike(a, ProfileOf(f, l, a, k - 1), prev[a], q)
            BY <1>3, <3>1 DEF IsFilled
        <3>3. before[a] = prev[a].retained_loss
            BY <2>2, <3>1
        <3>4. out[n] = [summed[n] EXCEPT !.previous_layer_retained_loss = d]
            BY <1>1, <2>4 DEF Carried
        <3>5. given[a] = [recs[a] EXCEPT !.previous_layer_retained_loss = before[a]]
            BY <2>2 DEF AreGiven
        <3> HIDE DEF a, out, q
        <3>6. d \in Int /\ before[a] = d
            BY <3>2, <3>3, AlikeFacts
        <3> HIDE DEF d
        <3>7. Alike(a, t, [recs[a] EXCEPT !.previous_layer_retained_loss = d],
                          [summed[n] EXCEPT !.previous_layer_retained_loss = d])
            BY <2>1, <3>6, CarriedAlike
        <3> QED BY <3>4, <3>5, <3>6, <3>7 DEF a, t
    <2> QED BY <2>3, <2>4
<1>4. ASSUME NEW n \in 1 .. size, n \notin DOMAIN nodes
      PROVE  IsBlank(out[n])
    <2>1. IsBlank(summed[n])
        BY <1>4 DEF IsFilled
    <2>2. CASE k = 1
        BY <2>1, <2>2 DEF Carried
    <2>3. CASE k # 1
        <3>1. PICK prev : IsFilled(f, nodes, size, prev, vecs[k - 1], l, k - 1)
            BY <2>3 DEF IsBefore
        <3>2. IsBlank(vecs[k - 1][n])
            BY <1>4, <3>1 DEF IsFilled
        <3>3. vecs[k - 1][n].retained_loss = 0
            BY <3>2, BlankFacts
        <3>4. out[n] = [summed[n] EXCEPT !.previous_layer_retained_loss = 0]
            BY <1>1, <2>3, <3>3 DEF Carried
        <3> QED BY <2>1, <3>4, BlankStays
    <2> QED BY <2>2, <2>3
<1> HIDE DEF out
<1>5. IsFilled(f, nodes, size, given, out, l, k)
    BY <1>2, <1>3, <1>4 DEF IsFilled
<1> QED BY <1>5 DEF out

\* A call leaves the losses of the nodes in the vector, each from its children.
LEMMA Called ==
    ASSUME NEW l, NEW k, IsLevel(fm, avxs, l), k \in 1 .. MaxLayer(fm, l),
           MaxLayer(fm, l - 1) = 1, fm.stepped \in BOOLEAN,
           IsShaped(avxs[l], MaxAgg(fm, l), agg_vecs[l][k]),
           NEW psize \in Nat, AreNodes(avxs[l - 1], psize), IsVector(agg_vecs[l - 1][1], psize),
           NEW recs, DOMAIN recs = AggIds(avxs[l - 1]),
           \A b \in DOMAIN recs : b # 0 /\ \A i \in Taken : recs[b][i] \in Int,
           Brings(agg_vecs[l - 1][1], psize, avxs[l - 1], recs),
           NEW before, IsBefore(avxs[l], MaxAgg(fm, l), before, fm, agg_vecs[l], l, k)
    PROVE  IsFilled(fm, avxs[l], MaxAgg(fm, l),
                    [a \in AggIds(avxs[l]) |-> FoldedNode(fm, avxs, recs, l, k, a, before[a])],
                    Calculated(l, k), l, k)
<1> DEFINE nodes == avxs[l]
           below == avxs[l - 1]
           size == MaxAgg(fm, l)
           previous == agg_vecs[l - 1][1]
           clear == Resized(Reset(agg_vecs[l][k]), size)
           summed == Aggregated(fm, nodes, clear, previous, l, k)
           carried == Carried(summed, agg_vecs[l][k - 1], k)
           sums == [a \in AggIds(nodes) |-> Gathered(fm, recs, Kids(fm, avxs, l, a), l, k, a)]
           given == [a \in AggIds(nodes) |->
                       [sums[a] EXCEPT !.previous_layer_retained_loss = before[a]]]
           ruled == [a \in AggIds(nodes) |-> FoldedNode(fm, avxs, recs, l, k, a, before[a])]
<1>1. size \in Nat /\ AreNodes(nodes, size) /\ IsNodes(nodes) /\ IsNodes(below)
    BY DEF IsLevel, AreNodes
<1>2. DOMAIN nodes \subseteq 1 .. size /\ DOMAIN below \subseteq 1 .. psize
    BY <1>1 DEF AreNodes
<1>3. IsVector(clear, size) /\ \A n \in 1 .. size : IsBlank(clear[n])
    BY <1>1, Cleared
<1>4. Climbs(fm, below, nodes, recs, l, k)
    BY DEF Climbs, IsLevel
<1>5. Calculated(l, k) = RuledAll(fm, carried, k)
    <2> DEFINE prior == agg_vecs[l - 1][IF k <= MaxLayer(fm, l - 1) THEN k ELSE 1]
    <2>1. prior = previous
        <3>1. k \in Nat \ {0}
            BY DEF IsLevel
        <3> QED BY <3>1
    <2>2. Calculated(l, k) = dofmcalc(Carried(Aggregated(fm, nodes, clear, prior, l, k),
                                              agg_vecs[l][k - 1], k), k)
        BY Zenon DEF Calculated, Carried
    <2>3. Calculated(l, k) = dofmcalc(carried, k)
        BY <2>1, <2>2, Zenon
    <2> HIDE DEF carried
    <2> QED BY <2>3, Zenon DEF dofmcalc, RuledAll
<1> HIDE DEF clear, size, previous
<1>6. SumsUpTo(fm, below, nodes, recs, l, k, size, summed, psize)
    <2> HIDE DEF nodes, below
    <2> QED BY <1>1, <1>2, <1>3, <1>4, Aggregates DEF previous, below
<1>7. IsFilled(fm, nodes, size, sums, summed, l, k)
    <2> HIDE DEF summed
    <2>1. IsVector(summed, size)
        BY <1>6 DEF SumsUpTo
    <2>2. ASSUME NEW n \in 1 .. size, n \in DOMAIN nodes
          PROVE  Alike(nodes[n].agg_id, ProfileOf(fm, l, nodes[n].agg_id, k),
                       sums[nodes[n].agg_id], summed[n])
        <3> DEFINE a == nodes[n].agg_id
        <3>1. a \in AggIds(nodes)
            BY <2>2 DEF AggIds
        <3>2. Kids(fm, avxs, l, a) # {}
            BY <3>1 DEF IsLevel
        <3>3. KidsUpTo(fm, below, l, a, psize) = Kids(fm, avxs, l, a)
            BY <1>2, AllKids
        <3>4. Gathers(fm, recs, Kids(fm, avxs, l, a), l, k, a, summed[n])
            BY <1>6, <2>2, <3>3 DEF SumsUpTo
        <3> QED BY <3>1, <3>2, <3>4 DEF Gathers
    <2>3. \A n \in 1 .. size : n \notin DOMAIN nodes => IsBlank(summed[n])
        BY <1>6 DEF SumsUpTo
    <2> HIDE DEF sums
    <2> QED BY <2>1, <2>2, <2>3 DEF IsFilled
<1>8. AreGiven(given, sums, before, nodes)
    <2> SUFFICES ASSUME NEW a \in AggIds(nodes)
                 PROVE  /\ sums[a].previous_layer_retained_loss = 0
                        /\ given[a] = [sums[a] EXCEPT !.previous_layer_retained_loss = before[a]]
        BY Zenon DEF AreGiven
    <2>1. sums[a] = Gathered(fm, recs, Kids(fm, avxs, l, a), l, k, a)
        OBVIOUS
    <2>2. sums[a].previous_layer_retained_loss = 0
        BY <2>1, GatheredIs
    <2> QED BY <2>2, Zenon
<1>9. AreRuled(ruled, given, nodes, fm, k)
    BY Zenon DEF FoldedNode, AreRuled
<1> HIDE DEF sums, given, ruled, summed
<1>10. IsFilled(fm, nodes, size, given, carried, l, k)
    <2> HIDE DEF nodes
    <2>1. IsBefore(nodes, size, before, fm, agg_vecs[l], l, k)
        BY DEF nodes, size
    <2> QED BY <1>1, <1>7, <1>8, <2>1, CarriedFilled
<1> HIDE DEF carried
<1>11. \A a \in AggIds(nodes) : ProfileOf(fm, l, a, k) \in Profiles
    BY DEF IsLevel
<1>12. IsFilled(fm, nodes, size, ruled, Calculated(l, k), l, k)
    <2> HIDE DEF nodes
    <2> QED BY <1>1, <1>5, <1>9, <1>10, <1>11, RuledVector
<1> QED BY <1>12 DEF ruled, size, nodes

-----------------------------------------------------------------------------
(* The programme *)

\* A finite set of naturals that is not empty has a greatest element.
LEMMA MaxOfFinite ==
    ASSUME NEW S, IsFiniteSet(S), S \subseteq Nat, S # {}
    PROVE  Max(S) \in S /\ \A y \in S : y <= Max(S)
<1> DEFINE C == {T \in SUBSET S : T # {} => \E x \in T : \A y \in T : x >= y}
<1>1. ASSUME NEW T \in SUBSET S, \A x \in T : T \ {x} \in C PROVE T \in C
    <2> SUFFICES ASSUME T # {} PROVE \E x \in T : \A y \in T : x >= y
        OBVIOUS
    <2>1. PICK z : z \in T
        OBVIOUS
    <2>2. T \ {z} \in C
        BY <1>1, <2>1
    <2>3. CASE T \ {z} = {}
        BY <2>1, <2>3
    <2>4. CASE T \ {z} # {}
        <3>1. PICK x \in T \ {z} : \A y \in T \ {z} : x >= y
            BY <2>2, <2>4
        <3>2. x \in Nat /\ z \in Nat /\ \A y \in T : y \in Nat
            BY <2>1
        <3>3. CASE x >= z
            BY <3>1, <3>3
        <3>4. CASE z >= x
            <4>1. \A y \in T : z >= y
                BY <3>1, <3>2, <3>4
            <4> QED BY <2>1, <4>1
        <3> QED BY <3>2, <3>3, <3>4
    <2> QED BY <2>3, <2>4
<1> HIDE DEF C
<1>2. \A T \in SUBSET S : T \in C
    <2>1. Sums!IsFiniteSet(S)
        BY DEF IsFiniteSet, Sums!IsFiniteSet
    <2> QED BY <1>1, <2>1, Sums!SetInduction
<1>3. S \in C
    BY <1>2
<1>4. \E x \in S : \A y \in S : x >= y
    BY <1>3 DEF C
<1>5. Max(S) \in S /\ \A y \in S : Max(S) >= y
    BY <1>4 DEF Max
<1> QED BY <1>5

\* That is the greatest element.
LEMMA MaxIs ==
    ASSUME NEW S, IsFiniteSet(S), S \subseteq Nat, NEW m \in S, \A y \in S : y <= m
    PROVE  Max(S) = m
<1>1. Max(S) \in S /\ m <= Max(S)
    BY MaxOfFinite
<1>2. Max(S) <= m /\ Max(S) \in Nat /\ m \in Nat
    BY <1>1
<1> QED BY <1>1, <1>2

\* The layers and the nodes of finitely many policies are finitely many.
LEMMA LayersFinite ==
    ASSUME NEW S, IsFiniteSet(S), \A r \in S : r.layer \in Nat \ {0} /\ r.agg \in Nat \ {0}
    PROVE  /\ IsFiniteSet({r.layer : r \in S}) /\ {r.layer : r \in S} \subseteq Nat
           /\ IsFiniteSet({r.agg : r \in S}) /\ {r.agg : r \in S} \subseteq Nat
<1> DEFINE g == [r \in S |-> r.layer]
           h == [r \in S |-> r.agg]
<1>1. \A t \in {r.layer : r \in S} : \E r \in S : t = g[r]
    OBVIOUS
<1>2. \A t \in {r.agg : r \in S} : \E r \in S : t = h[r]
    OBVIOUS
<1>3. {r.layer : r \in S} \subseteq Nat /\ {r.agg : r \in S} \subseteq Nat
    OBVIOUS
<1> HIDE DEF g, h
<1>4. IsFiniteSet({r.layer : r \in S})
    BY <1>1, ImageFinite
<1>5. IsFiniteSet({r.agg : r \in S})
    BY <1>2, ImageFinite
<1> QED BY <1>3, <1>4, <1>5

PolicyRows(f, lev) == {r \in f.policytc : r.level = lev}

\* The policies of a level.
LEMMA RowsOf ==
    ASSUME NEW f, ArePolicies(f), NEW l
    PROVE  /\ IsFiniteSet(PolicyRows(f, l))
           /\ \A r \in PolicyRows(f, l) :
                /\ r.level = l /\ r.agg \in Nat \ {0} /\ r.layer \in Nat \ {0}
                /\ r.profile \in Profiles
                /\ l < f.levels => r.layer = 1
<1>1. PolicyRows(f, l) \in SUBSET f.policytc /\ IsFiniteSet(f.policytc)
    BY DEF ArePolicies, PolicyRows
<1>2. IsFiniteSet(PolicyRows(f, l))
    BY <1>1, FS_Subset
<1> QED BY <1>2 DEF ArePolicies, PolicyRows, Profiles

\* The parent of a node has a policy.
LEMMA RowExists ==
    ASSUME NEW f, ArePolicies(f), NEW l \in 1 .. f.levels, NEW b \in DOMAIN f.parent[l]
    PROVE  \E r \in PolicyRows(f, l) : r.agg = f.parent[l][b]
BY DEF ArePolicies, PolicyRows

\* Below the last level the rows are those of the input, all of one layer.
LEMMA RowsBelow ==
    ASSUME NEW f, ArePolicies(f), f.levels \in Nat, NEW l \in 1 .. f.levels, l < f.levels
    PROVE  {r \in Policytc(f) : r.level = l} = PolicyRows(f, l)
<1> DEFINE last == PolicyRows(f, f.levels)
           top == Max({r.layer : r \in last})
           most == Max({r.agg : r \in last})
           new == {[level |-> f.levels, agg |-> k[1], layer |-> k[2], profile |-> Noop] :
                    k \in {j \in (1 .. most) \X (1 .. top) :
                              \A r \in last : <<r.agg, r.layer>> # j}}
<1>1. l # f.levels
    OBVIOUS
<1>2. Policytc(f) = f.policytc \cup new
    BY Zenon DEF Policytc, PolicyRows
<1> HIDE DEF top, most
<1>3. ASSUME NEW r \in new PROVE r.level = f.levels
    OBVIOUS
<1> HIDE DEF new
<1> QED BY <1>1, <1>2, <1>3 DEF PolicyRows

\* On the last level every node has a row for every layer.
AllLayers(f, l, top) ==
    LET rows == {r \in Policytc(f) : r.level = l}
    IN  /\ top \in Nat \ {0}
        /\ \A r \in rows : r.layer \in 1 .. top /\ r.profile \in Profiles
        /\ \A a \in {r.agg : r \in PolicyRows(f, l)} : \A k \in 1 .. top :
              \E r \in rows : r.agg = a /\ r.layer = k
\* On the last level, parse_policytc gives every node every layer.
LEMMA RowsLast ==
    ASSUME NEW f, ArePolicies(f), f.levels \in Nat \ {0}, PolicyRows(f, f.levels) # {}
    PROVE  AllLayers(f, f.levels, Max({r.layer : r \in PolicyRows(f, f.levels)}))
<1> DEFINE last == PolicyRows(f, f.levels)
           top == Max({r.layer : r \in last})
           most == Max({r.agg : r \in last})
           new == {[level |-> f.levels, agg |-> k[1], layer |-> k[2], profile |-> Noop] :
                    k \in {j \in (1 .. most) \X (1 .. top) :
                              \A r \in last : <<r.agg, r.layer>> # j}}
           rows == {r \in Policytc(f) : r.level = f.levels}
<1>1. IsFiniteSet(last) /\ \A r \in last : /\ r.layer \in Nat \ {0} /\ r.agg \in Nat \ {0}
                                           /\ r.profile \in Profiles
    BY RowsOf
<1>2. /\ IsFiniteSet({r.layer : r \in last}) /\ {r.layer : r \in last} \subseteq Nat
      /\ IsFiniteSet({r.agg : r \in last}) /\ {r.agg : r \in last} \subseteq Nat
    BY <1>1, LayersFinite
<1>3. {r.layer : r \in last} # {} /\ {r.agg : r \in last} # {}
    OBVIOUS
<1>4. top \in {r.layer : r \in last} /\ \A y \in {r.layer : r \in last} : y <= top
    BY <1>2, <1>3, MaxOfFinite
<1>5. most \in {r.agg : r \in last} /\ \A y \in {r.agg : r \in last} : y <= most
    BY <1>2, <1>3, MaxOfFinite
<1>6. Policytc(f) = f.policytc \cup new
    BY Zenon DEF Policytc, PolicyRows
<1> HIDE DEF top, most
<1>7. ASSUME NEW r \in new
      PROVE  /\ r.level = f.levels /\ r.agg \in 1 .. most /\ r.layer \in 1 .. top
             /\ r.profile = Noop
    OBVIOUS
<1>8. rows = last \cup new
    <2> HIDE DEF new
    <2> QED BY <1>6, <1>7 DEF PolicyRows
<1>9. \A r \in rows : r.layer \in 1 .. top /\ r.profile \in Profiles
    <2>1. \A r \in last : r.layer <= top
        BY <1>4
    <2>2. Noop \in Profiles
        BY DEF Profiles
    <2> HIDE DEF new, rows
    <2> QED BY <1>1, <1>4, <1>7, <1>8, <2>1, <2>2
<1>10. ASSUME NEW a \in {r.agg : r \in last}, NEW k \in 1 .. top
       PROVE  \E r \in rows : r.agg = a /\ r.layer = k
    <2>1. CASE \E r \in last : <<r.agg, r.layer>> = <<a, k>>
        <3>1. PICK r \in last : r.agg = a /\ r.layer = k
            BY <2>1
        <3> HIDE DEF new, rows, last
        <3> QED BY <1>8, <3>1
    <2>2. CASE \A r \in last : <<r.agg, r.layer>> # <<a, k>>
        <3>1. a \in 1 .. most
            BY <1>1, <1>5
        <3> DEFINE j == <<a, k>>
                   e == [level |-> f.levels, agg |-> j[1], layer |-> j[2], profile |-> Noop]
        <3>2. j \in (1 .. most) \X (1 .. top) /\ j[1] = a /\ j[2] = k
            BY <3>1
        <3>3. e.agg = j[1] /\ e.layer = j[2]
            OBVIOUS
        <3> HIDE DEF j
        <3>4. \A r \in last : <<r.agg, r.layer>> # j
            BY <2>2 DEF j
        <3>5. e \in new
            BY <3>2, <3>4, Zenon
        <3> HIDE DEF e
        <3> QED BY <1>8, <3>2, <3>3, <3>5
    <2> QED BY <2>1, <2>2
<1> HIDE DEF new, rows
<1>11. top \in Nat \ {0}
    BY <1>1, <1>4
<1> QED BY <1>9, <1>10, <1>11, Zenon DEF AllLayers, top, rows

\* The greatest layer of some policies.
LEMMA TopLayer ==
    ASSUME NEW rows, NEW top \in Nat, \A r \in rows : r.layer \in 1 .. top,
           \E r \in rows : r.layer = top
    PROVE  Max({r.layer : r \in rows}) = top
<1> DEFINE S == {r.layer : r \in rows}
<1>1. S \in SUBSET (1 .. top)
    OBVIOUS
<1>2. IsFiniteSet(S)
    <2> HIDE DEF S
    <2>1. IsFiniteSet(1 .. top)
        BY FS_Interval
    <2> QED BY <1>1, <2>1, FS_Subset
<1>4. S \subseteq Nat /\ top \in S /\ \A y \in S : y <= top
    BY <1>1
<1> HIDE DEF S
<1>3. Max(S) = top
    BY <1>2, <1>4, MaxIs
<1> QED BY <1>3 DEF S

\* The nodes nodes of the level l have a policy on every layer.
LEMMA PolicyFacts ==
    ASSUME NEW f, IsProgramme(f), NEW l \in 1 .. f.levels, NEW nodes, nodes # {},
           \A a \in nodes : \E b \in DOMAIN f.parent[l] : f.parent[l][b] = a
    PROVE  /\ MaxLayer(f, l) \in Nat \ {0}
           /\ l < f.levels => MaxLayer(f, l) = 1
           /\ l = f.levels => MaxLayer(f, l) = max_layer(f)
           /\ \A a \in nodes : \A k \in 1 .. MaxLayer(f, l) :
                 HasLayer(f, l, a, k) /\ ProfileOf(f, l, a, k) \in Profiles
<1> DEFINE rows == {r \in Policytc(f) : r.level = l}
           top == MaxLayer(f, l)
<1>1. ArePolicies(f) /\ f.levels \in Nat \ {0} /\ l # 0
    BY DEF IsProgramme, IsTree
<1>2. \A a \in nodes : \E r \in PolicyRows(f, l) : r.agg = a
    <2> TAKE a \in nodes
    <2>1. PICK b \in DOMAIN f.parent[l] : f.parent[l][b] = a
        OBVIOUS
    <2> QED BY <1>1, <2>1, RowExists
<1>3. \A r \in PolicyRows(f, l) : r.layer \in Nat \ {0} /\ r.profile \in Profiles
                                  /\ (l < f.levels => r.layer = 1)
    BY <1>1, RowsOf
<1>4. PolicyRows(f, l) # {}
    BY <1>2
<1>5. top = Max({r.layer : r \in rows})
    BY <1>1, Zenon DEF MaxLayer
<1> HIDE DEF top
<1>6. /\ top \in Nat \ {0}
      /\ l < f.levels => top = 1
      /\ l = f.levels => top = max_layer(f)
      /\ \A r \in rows : r.profile \in Profiles
      /\ \A a \in nodes : \A k \in 1 .. top : \E r \in rows : r.agg = a /\ r.layer = k
    <2>1. CASE l < f.levels
        <3>1. rows = PolicyRows(f, l)
            BY <1>1, <2>1, RowsBelow
        <3> HIDE DEF rows
        <3>2. (\A r \in rows : r.layer \in 1 .. 1) /\ \E r \in rows : r.layer = 1
            BY <1>3, <1>4, <2>1, <3>1
        <3>3. top = 1
            BY <1>5, <3>2, TopLayer
        <3>4. \A a \in nodes : \A k \in 1 .. 1 : \E r \in rows : r.agg = a /\ r.layer = k
            BY <1>2, <1>3, <2>1, <3>1
        <3> QED BY <1>3, <2>1, <3>1, <3>3, <3>4
    <2>2. CASE l = f.levels
        <3> DEFINE m == Max({r.layer : r \in PolicyRows(f, f.levels)})
        <3>1. /\ m \in Nat \ {0}
              /\ \A r \in rows : r.layer \in 1 .. m /\ r.profile \in Profiles
              /\ \A a \in {r.agg : r \in PolicyRows(f, l)} : \A k \in 1 .. m :
                     \E r \in rows : r.agg = a /\ r.layer = k
            <4>1. AllLayers(f, f.levels, m)
                BY <1>1, <1>4, <2>2, RowsLast
            <4> HIDE DEF m, rows
            <4>2. AllLayers(f, l, m)
                BY <2>2, <4>1, Zenon
            <4> QED BY <4>2, Zenon DEF AllLayers, rows
        <3>2. \A a \in nodes : \A k \in 1 .. m : \E r \in rows : r.agg = a /\ r.layer = k
            BY <1>2, <2>2, <3>1
        <3>3. \E r \in rows : r.layer = m
            <4>1. PICK q \in PolicyRows(f, l) : TRUE
                BY <1>4
            <4> HIDE DEF m, rows
            <4>2. m \in 1 .. m
                BY <3>1
            <4>3. q.agg \in {r.agg : r \in PolicyRows(f, l)}
                OBVIOUS
            <4> QED BY <3>1, <4>2, <4>3, Zenon
        <3> HIDE DEF m, rows
        <3>4. top = m
            BY <1>5, <3>1, <3>3, TopLayer
        <3>5. max_layer(f) = m
            <4>1. IsFiniteSet(PolicyRows(f, l)) /\ PolicyRows(f, l) # {}
                BY <1>1, <1>4, RowsOf
            <4>2. /\ IsFiniteSet({r.layer : r \in PolicyRows(f, l)})
                  /\ {r.layer : r \in PolicyRows(f, l)} \subseteq Nat
                <5>1. \A r \in PolicyRows(f, l) : r.layer \in Nat \ {0} /\ r.agg \in Nat \ {0}
                    BY <1>1, RowsOf
                <5> QED BY <4>1, <5>1, LayersFinite
            <4>3. {r.layer : r \in PolicyRows(f, l)} # {}
                BY <4>1
            <4>4. /\ m \in {r.layer : r \in PolicyRows(f, l)}
                  /\ \A y \in {r.layer : r \in PolicyRows(f, l)} : y <= m
                BY <2>2, <4>2, <4>3, MaxOfFinite DEF m
            <4>5. ASSUME NEW r \in f.policytc PROVE r.layer \in 1 .. m
                <5>1. /\ r.level \in 1 .. f.levels /\ r.layer \in Nat \ {0}
                      /\ r.level < f.levels => r.layer = 1
                    BY <1>1 DEF ArePolicies
                <5>2. CASE r.level < f.levels
                    BY <3>1, <5>1, <5>2
                <5>3. CASE r.level = l
                    <6>1. r \in PolicyRows(f, l)
                        BY <5>3 DEF PolicyRows
                    <6>2. r.layer <= m
                        BY <4>4, <6>1
                    <6> QED BY <3>1, <5>1, <6>2
                <5> QED BY <1>1, <2>2, <5>1, <5>2, <5>3
            <4>6. \E r \in f.policytc : r.layer = m
                BY <4>4 DEF PolicyRows
            <4>7. Max({r.layer : r \in f.policytc}) = m
                BY <3>1, <4>5, <4>6, TopLayer
            <4> QED BY <4>7 DEF max_layer
        <3> QED BY <2>2, <3>1, <3>2, <3>4, <3>5
    <2> QED BY <1>1, <2>1, <2>2
<1>7. ASSUME NEW a \in nodes, NEW k \in 1 .. top
      PROVE  HasLayer(f, l, a, k) /\ ProfileOf(f, l, a, k) \in Profiles
    <2>1. PICK r \in rows : r.agg = a /\ r.layer = k
        BY <1>6
    <2>2. HasLayer(f, l, a, k)
        <3>1. r.layer >= k
            BY <2>1
        <3> QED BY <2>1, <3>1 DEF HasLayer
    <2> DEFINE chosen == {q \in Policytc(f) : q.level = l /\ q.agg = a /\ q.layer = k}
    <2>3. r \in chosen
        BY <2>1
    <2>4. (CHOOSE q \in chosen : TRUE) \in chosen
        BY <2>3
    <2>5. (CHOOSE q \in chosen : TRUE) \in rows
        BY <2>4
    <2>6. ProfileOf(f, l, a, k) = (CHOOSE q \in chosen : TRUE).profile
        BY DEF ProfileOf
    <2> HIDE DEF chosen, rows
    <2> QED BY <1>6, <2>2, <2>5, <2>6
<1> QED BY <1>6, <1>7 DEF top

\* The insured value of a node is an integer, whatever the stream.
LEMMA TivType ==
    ASSUME NEW f, IsProgramme(f), NEW l, NEW a
    PROVE  AccumulatedTiv(f, l, a) \in Int
<1>0. CASE ~f.isGULStreamType_
    BY <1>0 DEF AccumulatedTiv
<1> SUFFICES ASSUME f.isGULStreamType_
             PROVE  AccumulatedTiv(f, l, a) \in Int
    BY <1>0
<1>7. AreCoverages(f)
    BY DEF IsProgramme
<1> DEFINE below == CoveragesBelow(f, l, a)
<1>1. \E T \in SUBSET DOMAIN f.coverage : below = {f.coverage[i] : i \in T}
    BY Zenon DEF CoveragesBelow
<1>2. PICK T \in SUBSET DOMAIN f.coverage : below = {f.coverage[i] : i \in T}
    BY <1>1
<1> HIDE DEF below
<1>3. IsFiniteSet(T)
    BY <1>7, FS_Subset DEF AreCoverages
<1>4. IsFiniteSet(below)
    <2>1. \A c \in below : \E i \in T : c = f.coverage[i]
        BY <1>2
    <2> QED BY <1>3, <2>1, ImageFinite
<1>5. \A c \in below : f.tiv[c] \in Int
    BY <1>2, <1>7 DEF AreCoverages
<1>6. SumOf(f.tiv, below) \in Int
    BY <1>2, <1>4, <1>5, SumType
<1> QED BY <1>6 DEF AccumulatedTiv, below

-----------------------------------------------------------------------------
(* The nodes of an event *)

GroupOf(parent, acc, n) ==
    LET a == parent[n.agg_id]
    IN  IF \E k \in DOMAIN acc : acc[k].agg_id = a
        THEN [k \in DOMAIN acc |->
                IF acc[k].agg_id = a THEN [acc[k] EXCEPT !.item_idx = @ \o n.item_idx]
                ELSE acc[k]]
        ELSE Append(acc, [agg_id |-> a, item_idx |-> n.item_idx])
Groups == INSTANCE Folding WITH op <- GroupOf

LevelOf(f, nodes, l) == Grouped(nodes, f.parent[l])
Climb == INSTANCE Folding WITH op <- LevelOf

\* A sequence of distinct nodes.
IsList(nodes) ==
    /\ \E m \in Nat : IsVector(nodes, m)
    /\ IsNodes(nodes)
    /\ \A k \in DOMAIN nodes : DOMAIN nodes[k] = {"agg_id", "item_idx"}

\* A vector with one element more.
LEMMA AppendIs ==
    ASSUME NEW m \in Nat, NEW s, IsVector(s, m), NEW e
    PROVE  /\ DOMAIN Append(s, e) = 1 .. (m + 1)
           /\ IsVector(Append(s, e), m + 1)
           /\ \A k \in 1 .. m : Append(s, e)[k] = s[k]
           /\ Append(s, e)[m + 1] = e
<1> DEFINE T == {s[k] : k \in 1 .. m} \cup {e}
<1>1. s \in [1 .. m -> T]
    BY DEF IsVector
<1>2. s \in Seq(T) /\ e \in T
    BY <1>1
<1>3. Len(s) = m
    BY VectorLen
<1> HIDE DEF T
<1>4. /\ Append(s, e) \in Seq(T) /\ Len(Append(s, e)) = m + 1
      /\ \A k \in 1 .. m : Append(s, e)[k] = s[k]
      /\ Append(s, e)[m + 1] = e
    BY <1>2, <1>3
<1>5. DOMAIN Append(s, e) = 1 .. (m + 1)
    BY <1>4
<1>6. IsVector(Append(s, e), m + 1)
    <2> PICK t : t = Append(s, e)
        OBVIOUS
    <2>1. t \in Seq(T) /\ Len(t) = m + 1
        BY <1>4
    <2>2. t = [n \in 1 .. (m + 1) |-> t[n]]
        <3>1. t \in [1 .. Len(t) -> T]
            BY <2>1, LenProperties
        <3> QED BY <3>1, <2>1
    <2> QED BY <2>2 DEF IsVector
<1> QED BY <1>4, <1>5, <1>6

\* One node grouped under its parent: the list has one entry for it.
LEMMA GroupStep ==
    ASSUME NEW acc, IsList(acc), NEW parent, NEW n
    PROVE  /\ IsList(GroupOf(parent, acc, n))
           /\ AggIds(GroupOf(parent, acc, n)) = AggIds(acc) \cup {parent[n.agg_id]}
<1> DEFINE a == parent[n.agg_id]
           after == GroupOf(parent, acc, n)
<1>1. PICK m \in Nat : IsVector(acc, m)
    BY DEF IsList
<1>2. DOMAIN acc = 1 .. m
    BY <1>1, VectorLen
<1>3. CASE \E k \in DOMAIN acc : acc[k].agg_id = a
    <2>1. after = [k \in DOMAIN acc |->
                     IF acc[k].agg_id = a THEN [acc[k] EXCEPT !.item_idx = @ \o n.item_idx]
                     ELSE acc[k]]
        BY <1>3 DEF GroupOf
    <2>2. DOMAIN after = 1 .. m /\ IsVector(after, m)
        BY <1>2, <2>1 DEF IsVector
    <2>3. ASSUME NEW k \in DOMAIN acc
          PROVE  DOMAIN after[k] = {"agg_id", "item_idx"} /\ after[k].agg_id = acc[k].agg_id
        <3>1. DOMAIN acc[k] = {"agg_id", "item_idx"}
            BY DEF IsList
        <3> QED BY <2>1, <3>1
    <2> HIDE DEF after
    <2>4. IsList(after)
        BY <1>2, <2>2, <2>3 DEF IsList, IsNodes
    <2>5. AggIds(after) = AggIds(acc) /\ a \in AggIds(acc)
        BY <1>2, <1>3, <2>2, <2>3 DEF AggIds
    <2> QED BY <2>4, <2>5 DEF after
<1>4. CASE ~ \E k \in DOMAIN acc : acc[k].agg_id = a
    <2> DEFINE e == [agg_id |-> a, item_idx |-> n.item_idx]
    <2>1. after = Append(acc, e)
        BY <1>4 DEF GroupOf
    <2>2. e.agg_id = a /\ DOMAIN e = {"agg_id", "item_idx"}
        OBVIOUS
    <2> HIDE DEF e, after
    <2>3. /\ DOMAIN after = 1 .. (m + 1) /\ IsVector(after, m + 1)
          /\ \A k \in 1 .. m : after[k] = acc[k]
          /\ after[m + 1] = e
        BY <1>1, <2>1, AppendIs
    <2>4. IsVector(after, m + 1) /\ m + 1 \in Nat
        BY <2>3
    <2>5. \A k \in 1 .. (m + 1) : k \in DOMAIN acc \/ k = m + 1
        BY <1>2
    <2>6. IsNodes(after)
        BY <1>2, <1>4, <2>2, <2>3, <2>5 DEF IsList, IsNodes
    <2>7. \A k \in DOMAIN after : DOMAIN after[k] = {"agg_id", "item_idx"}
        BY <1>2, <2>2, <2>3, <2>5 DEF IsList
    <2>8. AggIds(after) = AggIds(acc) \cup {a}
        <3>1. DOMAIN acc \subseteq DOMAIN after /\ m + 1 \in DOMAIN after
            BY <1>2, <2>3
        <3>2. \A k \in DOMAIN after : k \in DOMAIN acc \/ k = m + 1
            BY <2>3, <2>5
        <3>3. \A k \in DOMAIN acc : after[k] = acc[k]
            BY <1>2, <2>3
        <3> QED BY <2>2, <2>3, <3>1, <3>2, <3>3 DEF AggIds
    <2>9. IsList(after)
        BY <2>4, <2>6, <2>7, Zenon DEF IsList
    <2> QED BY <2>8, <2>9 DEF after
<1> QED BY <1>3, <1>4

\* The nodes of the next level are the parents of those of this one.
AreParents(above, nodes, parent) == AggIds(above) = {parent[b] : b \in AggIds(nodes)}

\* The nodes of a level are the parents of those below, each once.
LEMMA GroupedIs ==
    ASSUME NEW nodes, IsList(nodes), NEW parent
    PROVE  IsList(Grouped(nodes, parent)) /\ AreParents(Grouped(nodes, parent), nodes, parent)
<1>1. PICK m \in Nat : IsVector(nodes, m)
    BY DEF IsList
<1>2. DOMAIN nodes = 1 .. m
    BY <1>1, VectorLen
<1>3. Grouped(nodes, parent) = Groups!OverSeq(parent, <<>>, nodes)
    BY DEF Grouped, Groups!OverSeq, GroupOf, FoldLeft, Groups!FoldLeft,
           MapThenFoldSet, Groups!MapThenFoldSet, Max, Groups!Max
<1>4. PICK acc : Groups!Along(acc, parent, <<>>, nodes, m)
                 /\ Groups!OverSeq(parent, <<>>, nodes) = acc[m]
    BY <1>2, Groups!FoldsAlong
<1> DEFINE met(i) == {parent[nodes[j].agg_id] : j \in 1 .. i}
           S == {i \in 0 .. m : IsList(acc[i]) /\ AggIds(acc[i]) = met(i)}
<1>5. 0 \in S
    <2>1. acc[0] = <<>>
        BY <1>4 DEF Groups!Along
    <2>2. IsVector(<<>>, 0) /\ DOMAIN <<>> = {}
        BY DEF IsVector
    <2>3. IsList(<<>>)
        BY <2>2 DEF IsList, IsNodes
    <2>4. AggIds(<<>>) = {} /\ met(0) = {} /\ 0 \in 0 .. m
        BY <2>2 DEF AggIds
    <2> QED BY <2>1, <2>3, <2>4
<1>6. ASSUME NEW i \in 0 .. m, i \in S, i < m PROVE i + 1 \in S
    <2>1. i + 1 \in 1 .. m /\ (i + 1) - 1 = i /\ i + 1 \in 0 .. m
        BY <1>6
    <2>2. acc[i + 1] = GroupOf(parent, acc[i], nodes[i + 1])
        BY <1>4, <2>1 DEF Groups!Along
    <2>3. met(i + 1) = met(i) \cup {parent[nodes[i + 1].agg_id]}
        <3>1. \A j : j \in 1 .. (i + 1) <=> j \in 1 .. i \/ j = i + 1
            OBVIOUS
        <3> QED BY <3>1
    <2>4. IsList(acc[i]) /\ AggIds(acc[i]) = met(i)
        BY <1>6
    <2> HIDE DEF met
    <2>5. /\ IsList(GroupOf(parent, acc[i], nodes[i + 1]))
          /\ AggIds(GroupOf(parent, acc[i], nodes[i + 1]))
                = AggIds(acc[i]) \cup {parent[nodes[i + 1].agg_id]}
        BY <2>4, GroupStep
    <2> QED BY <2>1, <2>2, <2>3, <2>4, <2>5
<1> HIDE DEF S
<1>7. \A i \in 0 .. m : i \in S
    BY <1>5, <1>6, Groups!Induction
<1>8. IsList(acc[m]) /\ AggIds(acc[m]) = met(m)
    BY <1>7 DEF S
<1>9. met(m) = {parent[b] : b \in AggIds(nodes)}
    BY <1>2 DEF AggIds
<1> QED BY <1>3, <1>4, <1>8, <1>9 DEF AreParents

\* The nodes of a level are those above the items.
IsReached(f, nodes, l) ==
    /\ IsList(nodes)
    /\ AggIds(nodes) # {} /\ AggIds(nodes) \subseteq Nat \ {0}
    /\ l < f.levels => AggIds(nodes) \subseteq DOMAIN f.parent[l + 1]

\* The nodes of every level of an event.
LEMMA AvxsIs ==
    ASSUME NEW c \in Cases, NEW av, av = Avxs(c.fm, c.items)
    PROVE  /\ \A l \in 0 .. c.fm.levels : IsReached(c.fm, av[l], l)
           /\ \A l \in 1 .. c.fm.levels :
                 AggIds(av[l]) = {c.fm.parent[l][b] : b \in AggIds(av[l - 1])}
<1> DEFINE f == c.fm
           items == c.items
           top == f.levels
           base == [i \in DOMAIN items |-> [agg_id |-> items[i], item_idx |-> <<i>>]]
<1>1. /\ IsTree(f) /\ items \in Seq(DOMAIN f.parent[1]) \ {<<>>}
      /\ \A i, j \in DOMAIN items : items[i] = items[j] => i = j
    BY CasesAssumption DEF IsProgramme
<1>2. top \in Nat \ {0} /\ DOMAIN f.parent[1] \subseteq Nat \ {0}
    BY <1>1 DEF IsTree
<1>3. av = Climb!Recursion(f, base, 0, top)
    BY DEF Avxs, Climb!Recursion, LevelOf
<1> HIDE DEF f, top, base
<1>4. Climb!Follows(av, f, base, 0, top)
    BY <1>2, <1>3, Climb!RecursionSteps
<1>5. av[0] = base /\ \A l \in 0 .. top : l # 0 => av[l] = Grouped(av[l - 1], f.parent[l])
    BY <1>4 DEF Climb!Follows, LevelOf
<1> DEFINE S == {l \in 0 .. top : IsReached(f, av[l], l)}
<1>6. 0 \in S
    <2>1. IsVector(base, Len(items)) /\ Len(items) \in Nat
        BY <1>1 DEF base, IsVector
    <2>2. DOMAIN base = DOMAIN items /\ \A i \in DOMAIN items : base[i].agg_id = items[i]
                /\ DOMAIN base[i] = {"agg_id", "item_idx"}
        BY DEF base
    <2>3. IsList(base)
        BY <1>1, <2>1, <2>2 DEF IsList, IsNodes
    <2>4. AggIds(base) \subseteq DOMAIN f.parent[1]
        BY <1>1, <2>2 DEF AggIds
    <2>5. AggIds(base) # {}
        <3>1. 1 \in DOMAIN items
            BY <1>1
        <3> QED BY <2>2, <3>1 DEF AggIds
    <2> QED BY <1>2, <1>5, <2>3, <2>4, <2>5 DEF IsReached
<1>7. ASSUME NEW l \in 0 .. top, l \in S, l < top
      PROVE  /\ l + 1 \in S
             /\ AggIds(av[l + 1]) = {f.parent[l + 1][b] : b \in AggIds(av[l])}
    <2>1. IsReached(f, av[l], l)
        BY <1>7
    <2>2. l + 1 \in 1 .. top /\ l + 1 \in 0 .. top /\ (l + 1) - 1 = l /\ l + 1 # 0
        BY <1>2, <1>7
    <2>3. av[l + 1] = Grouped(av[l], f.parent[l + 1])
        BY <1>5, <2>2
    <2>4. /\ IsList(av[l + 1])
          /\ AggIds(av[l + 1]) = {f.parent[l + 1][b] : b \in AggIds(av[l])}
        <3>1. IsList(av[l])
            BY <2>1 DEF IsReached
        <3> PICK nodes : nodes = av[l]
            OBVIOUS
        <3> PICK parent : parent = f.parent[l + 1]
            OBVIOUS
        <3>2. IsList(Grouped(nodes, parent)) /\ AreParents(Grouped(nodes, parent), nodes, parent)
            BY <3>1, GroupedIs
        <3> QED BY <2>3, <3>2 DEF AreParents
    <2>5. AggIds(av[l]) # {} /\ AggIds(av[l]) \subseteq DOMAIN f.parent[l + 1]
        BY <1>7, <2>1 DEF IsReached, top
    <2>6. /\ f.parent[l + 1] \in [DOMAIN f.parent[l + 1] -> Nat \ {0}]
          /\ \A a \in DOMAIN f.parent[l + 1] :
                l + 1 < top => f.parent[l + 1][a] \in DOMAIN f.parent[(l + 1) + 1]
        BY <1>1, <2>2 DEF IsTree, top, f
    <2>7. AggIds(av[l + 1]) # {} /\ AggIds(av[l + 1]) \subseteq Nat \ {0}
        BY <2>4, <2>5, <2>6
    <2>8. l + 1 < top => AggIds(av[l + 1]) \subseteq DOMAIN f.parent[(l + 1) + 1]
        BY <2>4, <2>5, <2>6
    <2> QED BY <2>2, <2>4, <2>7, <2>8 DEF IsReached, top
<1>8. \A l \in 0 .. top : l \in S
    <2> HIDE DEF S
    <2>1. 0 \in Nat /\ top \in Nat
        BY <1>2
    <2> QED BY <1>6, <1>7, <2>1, Climb!Induction
<1>9. ASSUME NEW l \in 1 .. top
      PROVE  AggIds(av[l]) = {f.parent[l][b] : b \in AggIds(av[l - 1])}
    <2>1. l - 1 \in 0 .. top /\ l - 1 < top /\ (l - 1) + 1 = l
        BY <1>2
    <2>2. l - 1 \in S
        BY <1>8, <2>1
    <2> QED BY <1>7, <2>1, <2>2
<1> QED BY <1>8, <1>9 DEF top, f

\* There is room for the nodes.
LEMMA Fits ==
    ASSUME NEW nodes, IsList(nodes), NEW size \in Nat, AggIds(nodes) \subseteq 1 .. size
    PROVE  AreNodes(nodes, size)
<1>1. PICK m \in Nat : IsVector(nodes, m)
    BY DEF IsList
<1>2. DOMAIN nodes = 1 .. m
    BY <1>1, VectorLen
<1>3. m <= size
    <2> SUFFICES ASSUME size < m PROVE FALSE
        BY <1>1
    <2> DEFINE g == [k \in 1 .. m |-> nodes[k].agg_id]
    <2>1. g \in [1 .. m -> 1 .. size]
        BY <1>2 DEF AggIds
    <2>2. /\ IsFiniteSet(1 .. m) /\ IsFiniteSet(1 .. size)
          /\ Cardinality(1 .. size) < Cardinality(1 .. m)
        <3>1. /\ IsFiniteSet(1 .. m)
              /\ Cardinality(1 .. m) = IF 1 > m THEN 0 ELSE m - 1 + 1
            BY FS_Interval
        <3>2. /\ IsFiniteSet(1 .. size)
              /\ Cardinality(1 .. size) = IF 1 > size THEN 0 ELSE size - 1 + 1
            BY FS_Interval
        <3> QED BY <3>1, <3>2
    <2>3. PICK i \in 1 .. m, j \in 1 .. m : i # j /\ g[i] = g[j]
        <3> HIDE DEF g
        <3> QED BY <2>1, <2>2, FS_PigeonHole
    <2> QED BY <1>2, <2>3 DEF IsList, IsNodes
<1>4. \A k \in DOMAIN nodes : nodes[k].agg_id \in 1 .. size
    BY DEF AggIds
<1>5. m \in 0 .. size
    BY <1>3
<1> QED BY <1>2, <1>4, <1>5 DEF AreNodes, IsList

\* The items of an event as nodes.
LEMMA ItemsAreNodes ==
    ASSUME NEW nodes, IsList(nodes), AggIds(nodes) \subseteq Nat \ {0}
    PROVE  /\ AreNodes(nodes, Len(nodes)) /\ Len(nodes) \in Nat
           /\ IsVector(nodes, Len(nodes)) /\ DOMAIN nodes = 1 .. Len(nodes)
<1>1. PICK m \in Nat : IsVector(nodes, m)
    BY DEF IsList
<1>2. DOMAIN nodes = 1 .. m /\ Len(nodes) = m
    BY <1>1, VectorLen
<1>3. \A k \in DOMAIN nodes : nodes[k].agg_id # 0
    BY DEF AggIds
<1>4. m \in 0 .. m
    OBVIOUS
<1> QED BY <1>1, <1>2, <1>3, <1>4 DEF AreNodes, IsList

\* Every level of every case is one.
LEMMA LevelsAre ==
    ASSUME NEW c \in Cases, NEW av, av = Avxs(c.fm, c.items), NEW l \in 1 .. c.fm.levels
    PROVE  /\ IsLevel(c.fm, av, l)
           /\ l < c.fm.levels => MaxLayer(c.fm, l) = 1
           /\ l = c.fm.levels => MaxLayer(c.fm, l) = max_layer(c.fm)
<1> DEFINE f == c.fm
           nodes == AggIds(av[l])
<1>1. IsProgramme(f) /\ IsTree(f)
    BY CasesAssumption DEF IsProgramme
<1>2. f.levels \in Nat \ {0} /\ l \in 0 .. f.levels /\ l - 1 \in 0 .. f.levels
      /\ l - 1 < f.levels /\ (l - 1) + 1 = l
    BY <1>1 DEF IsTree
<1>3. IsReached(f, av[l], l) /\ IsReached(f, av[l - 1], l - 1)
      /\ nodes = {f.parent[l][b] : b \in AggIds(av[l - 1])}
    BY <1>2, AvxsIs
<1>4. AggIds(av[l - 1]) \subseteq DOMAIN f.parent[l] /\ nodes # {}
    BY <1>2, <1>3 DEF IsReached
<1>5. /\ IsFiniteSet(DOMAIN f.parent[l])
      /\ f.parent[l] \in [DOMAIN f.parent[l] -> Nat \ {0}]
    BY <1>1 DEF IsTree
<1> DEFINE S == {f.parent[l][a] : a \in DOMAIN f.parent[l]}
<1>6. nodes \subseteq S
    BY <1>3, <1>4
<1>7. IsFiniteSet(S) /\ S \subseteq Nat /\ S # {}
    <2>1. IsFiniteSet(S)
        <3>1. \A t \in S : \E a \in DOMAIN f.parent[l] : t = f.parent[l][a]
            OBVIOUS
        <3> HIDE DEF S, f
        <3> QED BY <1>5, <3>1, ImageFinite
    <2> QED BY <1>4, <1>5, <1>6, <2>1
<1>8. MaxAgg(f, l) = Max(S)
    BY DEF MaxAgg
<1>9. \A a \in nodes : \E b \in DOMAIN f.parent[l] : f.parent[l][b] = a
    BY <1>3, <1>4
<1>10. \A a \in nodes : Kids(f, av, l, a) # {}
    BY <1>3 DEF Kids
<1>11. \A b \in AggIds(av[l - 1]) : f.parent[l][b] \in nodes
    BY <1>3
<1>12. nodes \subseteq Nat \ {0}
    BY <1>3 DEF IsReached
<1> HIDE DEF S, f
<1>13. MaxAgg(f, l) \in Nat /\ \A a \in nodes : a <= MaxAgg(f, l)
    BY <1>6, <1>7, <1>8, MaxOfFinite
<1>14. nodes \subseteq 1 .. MaxAgg(f, l)
    BY <1>12, <1>13
<1>15. AreNodes(av[l], MaxAgg(f, l))
    BY <1>3, <1>13, <1>14, Fits DEF IsReached
<1> HIDE DEF nodes
<1>16. /\ MaxLayer(f, l) \in Nat \ {0}
       /\ l < f.levels => MaxLayer(f, l) = 1
       /\ l = f.levels => MaxLayer(f, l) = max_layer(f)
       /\ \A a \in nodes : \A k \in 1 .. MaxLayer(f, l) :
             HasLayer(f, l, a, k) /\ ProfileOf(f, l, a, k) \in Profiles
    <2>1. l \in 1 .. f.levels
        BY DEF f
    <2> QED BY <1>1, <1>4, <1>9, <2>1, PolicyFacts
<1>17. \A a \in nodes : AccumulatedTiv(f, l, a) \in Int
    BY <1>1, TivType
<1>18. IsLevel(f, av, l)
    BY <1>10, <1>11, <1>13, <1>15, <1>16, <1>17 DEF IsLevel, nodes
<1> QED BY <1>16, <1>18 DEF f

-----------------------------------------------------------------------------
(* The proportions and the net losses leave the amounts alone *)

Shared == {"proportion", "item_prop", "item_net"}

KeepsRec(x, y) == DOMAIN y = DOMAIN x /\ \A i \in DOMAIN x \ Shared : y[i] = x[i]

Keeps(v, w) ==
    \/ w = v
    \/ /\ w = [n \in DOMAIN v |-> w[n]]
       /\ \A n \in DOMAIN v : KeepsRec(v[n], w[n])

KeepsAll(vecs, after) ==
    /\ DOMAIN after = DOMAIN vecs
    /\ after[0] = vecs[0]
    /\ \A l \in DOMAIN vecs : /\ DOMAIN after[l] = DOMAIN vecs[l]
                              /\ \A k \in DOMAIN vecs[l] : Keeps(vecs[l][k], after[l][k])

\* A record with another proportion or net loss keeps its amounts.
LEMMA KeepsShared ==
    ASSUME NEW x, NEW p, NEW y,
           \/ y = x
           \/ y = [x EXCEPT !.proportion = p]
           \/ y = [x EXCEPT !.item_prop = p]
           \/ y = [x EXCEPT !.item_net = p]
    PROVE  KeepsRec(x, y)
BY SMT DEF KeepsRec, Shared

\* A record with another proportion and other shares keeps its amounts.
LEMMA KeepsTwo ==
    ASSUME NEW x, NEW p, NEW q, NEW z, z = [x EXCEPT !.proportion = p, !.item_prop = q]
    PROVE  KeepsRec(x, z)
<1>1. DOMAIN z = DOMAIN x
    BY Zenon
<1>2. \A i \in DOMAIN x : i # "proportion" /\ i # "item_prop" => z[i] = x[i]
    OBVIOUS
<1>3. "proportion" \in Shared /\ "item_prop" \in Shared
    BY DEF Shared
<1> QED BY <1>1, <1>2, <1>3, Zenon DEF KeepsRec

\* A record that keeps its amounts twice keeps them.
LEMMA KeepsRecTrans ==
    ASSUME NEW x, NEW y, NEW z, KeepsRec(x, y), KeepsRec(y, z)
    PROVE  KeepsRec(x, z)
BY DEF KeepsRec

\* A vector that keeps its amounts twice keeps them.
LEMMA KeepsTrans ==
    ASSUME NEW u, NEW v, NEW w, Keeps(u, v), Keeps(v, w)
    PROVE  Keeps(u, w)
<1>1. CASE u = v \/ v = w
    BY <1>1
<1>2. CASE /\ v = [n \in DOMAIN u |-> v[n]] /\ \A n \in DOMAIN u : KeepsRec(u[n], v[n])
           /\ w = [n \in DOMAIN v |-> w[n]] /\ \A n \in DOMAIN v : KeepsRec(v[n], w[n])
    <2>1. DOMAIN v = DOMAIN u
        BY <1>2
    <2>2. \A n \in DOMAIN u : KeepsRec(u[n], w[n])
        BY <1>2, <2>1, KeepsRecTrans
    <2> QED BY <1>2, <2>1, <2>2, Zenon DEF Keeps
<1> QED BY <1>1, <1>2 DEF Keeps

\* The vectors of an event that keep their amounts twice keep them.
LEMMA KeepsAllTrans ==
    ASSUME NEW u, NEW v, NEW w, KeepsAll(u, v), KeepsAll(v, w)
    PROVE  KeepsAll(u, w)
<1>1. ASSUME NEW l \in DOMAIN u, NEW k \in DOMAIN u[l] PROVE Keeps(u[l][k], w[l][k])
    <2>1. Keeps(u[l][k], v[l][k]) /\ Keeps(v[l][k], w[l][k])
        BY DEF KeepsAll
    <2> QED BY <2>1, KeepsTrans
<1> QED BY <1>1 DEF KeepsAll

\* One vector in another's place keeps the amounts of all if it keeps its own.
LEMMA KeepsOne ==
    ASSUME NEW vecs, NEW l \in DOMAIN vecs, l # 0, NEW k \in DOMAIN vecs[l], NEW w,
           Keeps(vecs[l][k], w)
    PROVE  KeepsAll(vecs, [vecs EXCEPT ![l][k] = w])
<1>1. \A v : Keeps(v, v)
    BY DEF Keeps
<1> HIDE DEF Keeps
<1> QED BY <1>1 DEF KeepsAll

\* The vectors keep their own amounts.
LEMMA KeepsSame ==
    ASSUME NEW vecs
    PROVE  KeepsAll(vecs, vecs)
BY DEF KeepsAll, Keeps

\* The proportions of one level leave the amounts alone.
LEMMA LevelKeeps ==
    ASSUME NEW raw, NEW previous, NEW props, NEW first, NEW allowzeros
    PROVE  Keeps(raw, LevelProportions(raw, previous, props, first, allowzeros).vec)
<1> DEFINE counts(x) == x.loss > 0 \/ x.retained_loss > 0 \/ allowzeros
           vec == [k \in DOMAIN raw |->
                  IF counts(raw[k])
                  THEN [raw[k] EXCEPT !.item_prop =
                            [i \in DOMAIN raw[k].item_idx |-> ZeroFrac]]
                  ELSE raw[k]]
           loss_total == FoldLeft(LAMBDA sum, x : IF counts(x) THEN sum + x.loss ELSE sum,
                               0, vec)
           earlier == FracSum([k \in DOMAIN previous |-> previous[k].proportion])
           of(x) == FracSum([i \in DOMAIN x.item_idx |-> props[x.item_idx[i]]])
           share(x) == IF x.loss > 0 /\ loss_total > 0 THEN Frac(x.loss, loss_total)
                    ELSE ZeroFrac
           weight(i) == IF first THEN Gul(i) ELSE props[i]
           total(x) == IF first THEN GulTotal(x) ELSE of(x)
           within(x) == [i \in DOMAIN x.item_idx |-> Over(weight(x.item_idx[i]), total(x))]
           kept(k) ==
            LET x == vec[k]
            IN  CASE IsPositive(total(x)) ->
                        IF x.item_prop = Null THEN Null ELSE within(x)
                  [] ~IsPositive(total(x)) /\ ~first /\ x.item_idx # <<>> ->
                        previous[k].item_prop
                  [] OTHER -> x.item_prop
           one == [k \in DOMAIN vec |-> [vec[k] EXCEPT !.proportion = Plus(@, of(vec[k]))]]
           two == [k \in DOMAIN vec |->
                          [vec[k] EXCEPT !.proportion = share(vec[k]),
                                         !.item_prop = kept(k)]]
           new == LevelProportions(raw, previous, props, first, allowzeros).vec
<1>1. new = one \/ new = two
    BY Zenon DEF LevelProportions
<1> HIDE DEF counts, loss_total, earlier, share, kept, of
<1>2. DOMAIN vec = DOMAIN raw /\ \A k \in DOMAIN raw : KeepsRec(raw[k], vec[k])
    <2>1. ASSUME NEW k \in DOMAIN raw
          PROVE  \/ vec[k] = raw[k]
                 \/ vec[k] = [raw[k] EXCEPT !.item_prop =
                                [i \in DOMAIN raw[k].item_idx |-> ZeroFrac]]
        BY Zenon
    <2> HIDE DEF vec
    <2>2. ASSUME NEW k \in DOMAIN raw PROVE KeepsRec(raw[k], vec[k])
        BY <2>1, KeepsShared
    <2> QED BY <2>2 DEF vec
<1> HIDE DEF vec, new
<1>3. DOMAIN one = DOMAIN vec /\ \A k \in DOMAIN vec : KeepsRec(vec[k], one[k])
    <2>1. ASSUME NEW k \in DOMAIN vec
          PROVE  one[k] = [vec[k] EXCEPT !.proportion = Plus(vec[k].proportion, of(vec[k]))]
        OBVIOUS
    <2>2. DOMAIN one = DOMAIN vec
        OBVIOUS
    <2> HIDE DEF one
    <2>3. ASSUME NEW k \in DOMAIN vec PROVE KeepsRec(vec[k], one[k])
        BY <2>1, KeepsShared
    <2> QED BY <2>2, <2>3
<1>4. DOMAIN two = DOMAIN vec /\ \A k \in DOMAIN vec : KeepsRec(vec[k], two[k])
    <2>1. ASSUME NEW k \in DOMAIN vec
          PROVE  two[k] = [vec[k] EXCEPT !.proportion = share(vec[k]), !.item_prop = kept(k)]
        OBVIOUS
    <2>2. DOMAIN two = DOMAIN vec
        OBVIOUS
    <2> HIDE DEF two
    <2>3. ASSUME NEW k \in DOMAIN vec PROVE KeepsRec(vec[k], two[k])
        BY <2>1, KeepsTwo, Zenon
    <2> QED BY <2>2, <2>3
<1>5. one = [k \in DOMAIN vec |-> one[k]] /\ two = [k \in DOMAIN vec |-> two[k]]
    OBVIOUS
<1> HIDE DEF one, two
<1>6. Keeps(vec, new)
    BY <1>1, <1>3, <1>4, <1>5 DEF Keeps
<1>7. Keeps(raw, vec)
    <2>1. vec = [k \in DOMAIN raw |-> vec[k]]
        BY DEF vec
    <2> QED BY <1>2, <2>1 DEF Keeps
<1> QED BY <1>6, <1>7, KeepsTrans DEF new

PropOf(allowzeros, acc, l) ==
    LET new == LevelProportions(acc.vecs[l][1], acc.vecs[l - 1][1], acc.props, l = 1, allowzeros)
    IN  [vecs |-> [acc.vecs EXCEPT ![l][1] = new.vec], props |-> new.props]
Props == INSTANCE Folding WITH op <- PropOf

\* The proportions of all levels on the first layer leave the amounts alone.
LEMMA FirstKeeps ==
    ASSUME NEW vecs, NEW lev \in Nat, NEW allowzeros,
           \A l \in 1 .. lev : l \in DOMAIN vecs /\ 1 \in DOMAIN vecs[l]
    PROVE  KeepsAll(vecs, FirstLayerProportions(vecs, lev, allowzeros))
<1> DEFINE base == [vecs |-> vecs, props |-> [i \in DOMAIN guls |-> ZeroFrac]]
<1>1. PICK upto : upto = Props!Recursion(allowzeros, base, 0, lev)
    OBVIOUS
<1>2. FirstLayerProportions(vecs, lev, allowzeros) = upto[lev].vecs
    BY <1>1 DEF FirstLayerProportions, Props!Recursion, PropOf
<1>3. Props!Follows(upto, allowzeros, base, 0, lev)
    BY <1>1, Props!RecursionSteps
<1>4. upto[0] = base
    BY <1>3 DEF Props!Follows
<1>5. ASSUME NEW l \in 0 .. lev, l < lev
      PROVE  \E w : /\ Keeps(upto[l].vecs[l + 1][1], w)
                    /\ upto[l + 1].vecs = [upto[l].vecs EXCEPT ![l + 1][1] = w]
    <2>1. l + 1 \in 0 .. lev /\ l + 1 # 0 /\ (l + 1) - 1 = l
        BY <1>5
    <2>2. upto[l + 1] = PropOf(allowzeros, upto[l], l + 1)
        BY <1>3, <2>1 DEF Props!Follows
    <2> DEFINE new == LevelProportions(upto[l].vecs[l + 1][1], upto[l].vecs[(l + 1) - 1][1],
                                       upto[l].props, l + 1 = 1, allowzeros)
               w == new.vec
    <2>5. upto[l + 1] = [vecs |-> [upto[l].vecs EXCEPT ![l + 1][1] = new.vec],
                         props |-> new.props]
        BY <2>2, Zenon DEF PropOf
    <2>3. upto[l + 1].vecs = [upto[l].vecs EXCEPT ![l + 1][1] = w]
        <3> HIDE DEF new
        <3> QED BY <2>5
    <2>4. Keeps(upto[l].vecs[l + 1][1], w)
        BY LevelKeeps
    <2> HIDE DEF w
    <2> QED BY <2>3, <2>4
<1> DEFINE S == {l \in 0 .. lev : KeepsAll(vecs, upto[l].vecs)}
<1>6. 0 \in S
    BY <1>4, KeepsSame
<1>7. ASSUME NEW l \in 0 .. lev, l \in S, l < lev PROVE l + 1 \in S
    <2>1. l + 1 \in 1 .. lev /\ l + 1 \in 0 .. lev
        BY <1>7
    <2>2. KeepsAll(vecs, upto[l].vecs)
        BY <1>7
    <2>3. PICK w : /\ Keeps(upto[l].vecs[l + 1][1], w)
                   /\ upto[l + 1].vecs = [upto[l].vecs EXCEPT ![l + 1][1] = w]
        BY <1>5, <1>7
    <2>4. l + 1 \in DOMAIN upto[l].vecs /\ 1 \in DOMAIN upto[l].vecs[l + 1] /\ l + 1 # 0
        BY <2>1, <2>2 DEF KeepsAll
    <2>5. KeepsAll(upto[l].vecs, upto[l + 1].vecs)
        BY <2>3, <2>4, KeepsOne
    <2>6. KeepsAll(vecs, upto[l + 1].vecs)
        BY <2>2, <2>5, KeepsAllTrans
    <2> QED BY <2>1, <2>6
<1> HIDE DEF S
<1>8. \A l \in 0 .. lev : l \in S
    <2>1. 0 \in Nat /\ lev \in Nat
        OBVIOUS
    <2> QED BY <1>6, <1>7, <2>1, Props!Induction
<1> QED BY <1>2, <1>8 DEF S

\* compute_item_proportions leaves the amounts alone, on every layer.
LEMMA ProportionsKeep ==
    ASSUME NEW vecs, NEW lev \in Nat \ {0}, NEW lay, NEW allowzeros,
           \A l \in 1 .. lev : l \in DOMAIN vecs /\ 1 \in DOMAIN vecs[l],
           lay \in DOMAIN vecs[lev]
    PROVE  KeepsAll(vecs, compute_item_proportions(vecs, lev, lay, allowzeros))
<1>1. CASE lay = 1
    BY <1>1, FirstKeeps DEF compute_item_proportions
<1>2. CASE lay # 1
    <2> DEFINE v == vecs[lev][lay]
               w == [k \in DOMAIN v |->
                        [v[k] EXCEPT !.proportion = vecs[lev][1][k].proportion,
                                     !.item_prop = vecs[lev][1][k].item_prop]]
    <2>1. compute_item_proportions(vecs, lev, lay, allowzeros) = [vecs EXCEPT ![lev][lay] = w]
        BY <1>2, Zenon DEF compute_item_proportions
    <2>2. Keeps(v, w)
        <3>1. ASSUME NEW k \in DOMAIN v
              PROVE  w[k] = [v[k] EXCEPT !.proportion = vecs[lev][1][k].proportion,
                                         !.item_prop = vecs[lev][1][k].item_prop]
            BY Zenon
        <3>2. w = [n \in DOMAIN v |-> w[n]]
            BY Zenon
        <3> HIDE DEF w
        <3>3. ASSUME NEW k \in DOMAIN v PROVE KeepsRec(v[k], w[k])
            BY <3>1, KeepsTwo, Zenon
        <3> HIDE DEF v
        <3> QED BY <3>2, <3>3 DEF Keeps
    <2>3. lev \in DOMAIN vecs /\ lev # 0
        OBVIOUS
    <2> HIDE DEF w
    <2>4. KeepsAll(vecs, [vecs EXCEPT ![lev][lay] = w])
        BY <2>2, <2>3, KeepsOne
    <2> QED BY <2>1, <2>4, Zenon
<1> QED BY <1>1, <1>2

\* Whichever allocation rule is asked for leaves the amounts alone.
LEMMA ProportionedKeeps ==
    ASSUME NEW vecs, level \in Nat \ {0},
           \A l \in 1 .. level : l \in DOMAIN vecs /\ 1 \in DOMAIN vecs[l],
           layer \in DOMAIN vecs[level]
    PROVE  KeepsAll(vecs, Proportioned(vecs))
BY ProportionsKeep, KeepsSame DEF Proportioned

\* The net losses leave the amounts alone.
LEMMA NettedKeeps ==
    ASSUME NEW vecs, level \in DOMAIN vecs, level # 0, layer \in DOMAIN vecs[level]
    PROVE  KeepsAll(vecs, Netted(vecs))
<1>1. CASE ~input.netvalue
    BY <1>1, KeepsSame DEF Netted
<1>2. CASE input.netvalue
    <2> DEFINE v == vecs[level][layer]
               before == vecs[level][IF layer = 1 THEN 1 ELSE layer - 1]
               w == [k \in DOMAIN v |-> [v[k] EXCEPT !.item_net = NetOf(v[k], layer, before[k])]]
    <2>1. Netted(vecs) = [vecs EXCEPT ![level][layer] = w]
        BY <1>2, Zenon DEF Netted
    <2>2. Keeps(v, w)
        <3>1. ASSUME NEW k \in DOMAIN v
              PROVE  w[k] = [v[k] EXCEPT !.item_net = NetOf(v[k], layer, before[k])]
            BY Zenon
        <3>2. w = [n \in DOMAIN v |-> w[n]]
            BY Zenon
        <3> HIDE DEF w
        <3>3. ASSUME NEW k \in DOMAIN v PROVE KeepsRec(v[k], w[k])
            <4> PICK p : p = NetOf(v[k], layer, before[k])
                OBVIOUS
            <4>1. w[k] = [v[k] EXCEPT !.item_net = p]
                BY <3>1, Zenon
            <4> PICK x : x = v[k]
                OBVIOUS
            <4>2. w[k] = [x EXCEPT !.item_net = p]
                BY <4>1
            <4>3. KeepsRec(x, w[k])
                BY <4>2, SMT DEF KeepsRec, Shared
            <4> QED BY <4>3
        <3> HIDE DEF v
        <3> QED BY <3>2, <3>3 DEF Keeps
    <2> HIDE DEF w
    <2>4. KeepsAll(vecs, [vecs EXCEPT ![level][layer] = w])
        BY <2>2, KeepsOne
    <2> QED BY <2>1, <2>4, Zenon
<1> QED BY <1>1, <1>2

\* What a vector holds, it holds after that.
LEMMA FilledKept ==
    ASSUME NEW f, NEW nodes, NEW size \in Nat, NEW recs, NEW v, NEW w, NEW l, NEW k,
           IsFilled(f, nodes, size, recs, v, l, k), Keeps(v, w)
    PROVE  IsFilled(f, nodes, size, recs, w, l, k)
<1>1. ASSUME NEW a, NEW t, NEW x, NEW y, NEW z, Alike(a, t, x, y), KeepsRec(y, z)
      PROVE  Alike(a, t, x, z)
    BY <1>1, SMT DEF Alike, IsRecord, IsOf, KeepsRec, Shared, Fields, Amounts
<1>2. ASSUME NEW y, NEW z, IsBlank(y), KeepsRec(y, z)
      PROVE  IsBlank(z)
    BY <1>1, <1>2, Zenon DEF IsBlank
<1>3. DOMAIN v = 1 .. size
    BY VectorLen DEF IsFilled
<1>4. CASE w = v
    BY <1>4
<1>5. CASE w = [n \in DOMAIN v |-> w[n]] /\ \A n \in DOMAIN v : KeepsRec(v[n], w[n])
    <2>1. IsVector(w, size)
        BY <1>3, <1>5, Zenon DEF IsVector
    <2>2. \A n \in 1 .. size : KeepsRec(v[n], w[n])
        BY <1>3, <1>5
    <2> QED BY <1>1, <1>2, <2>1, <2>2 DEF IsFilled
<1> QED BY <1>4, <1>5 DEF Keeps

\* A vector that keeps its amounts can be cleared as before.
LEMMA ShapeKept ==
    ASSUME NEW nodes, NEW size \in Nat, NEW v, NEW w, IsShaped(nodes, size, v), Keeps(v, w)
    PROVE  IsShaped(nodes, size, w)
<1>1. ASSUME NEW y, NEW z, IsBlank(y), KeepsRec(y, z)
      PROVE  IsBlank(z)
    BY <1>1, SMT DEF IsBlank, Alike, IsRecord, IsOf, KeepsRec, Shared, Fields, Amounts
<1>2. ASSUME NEW y, NEW z, DOMAIN y = Fields, y.policytc_id # NoProfile, KeepsRec(y, z)
      PROVE  DOMAIN z = Fields /\ z.policytc_id # NoProfile
    BY <1>2, SMT DEF KeepsRec, Shared, Fields, Amounts
<1>3. CASE w = v
    BY <1>3
<1>4. CASE w = [n \in DOMAIN v |-> w[n]] /\ \A n \in DOMAIN v : KeepsRec(v[n], w[n])
    <2>1. CASE v = <<>>
        <3>1. w = <<>>
            BY <1>4, <2>1
        <3> QED BY <3>1 DEF IsShaped
    <2>2. CASE v # <<>>
        <3>1. DOMAIN v = 1 .. size
            BY <2>2, VectorLen DEF IsShaped
        <3>2. IsVector(w, size)
            BY <1>4, <3>1, Zenon DEF IsVector
        <3>3. \A n \in 1 .. size : KeepsRec(v[n], w[n])
            BY <1>4, <3>1
        <3> QED BY <1>1, <1>2, <2>2, <3>2, <3>3 DEF IsShaped
    <2> QED BY <2>1, <2>2
<1> QED BY <1>3, <1>4 DEF Keeps

\* A vector that a call has filled can be cleared by the next one.
LEMMA FilledShaped ==
    ASSUME NEW f, NEW nodes, NEW size \in Nat, NEW recs, NEW v, NEW l, NEW k,
           \A a \in AggIds(nodes) : ProfileOf(f, l, a, k) \in Profiles,
           IsFilled(f, nodes, size, recs, v, l, k)
    PROVE  IsShaped(nodes, size, v)
<1>1. NoProfile \notin Profiles
    BY DEF Profiles, Noop, NoProfile
<1>2. ASSUME NEW a, NEW t, NEW x, NEW y, Alike(a, t, x, y)
      PROVE  DOMAIN y = Fields /\ y.policytc_id = t
    BY <1>2, Zenon DEF Alike, IsRecord, IsOf
<1>3. ASSUME NEW n \in 1 .. size, n \in DOMAIN nodes
      PROVE  DOMAIN v[n] = Fields /\ v[n].policytc_id # NoProfile
    <2>1. nodes[n].agg_id \in AggIds(nodes)
        BY <1>3 DEF AggIds
    <2>2. DOMAIN v[n] = Fields /\ v[n].policytc_id = ProfileOf(f, l, nodes[n].agg_id, k)
        BY <1>2, <1>3 DEF IsFilled
    <2> QED BY <1>1, <2>1, <2>2
<1> QED BY <1>3 DEF IsFilled, IsShaped

-----------------------------------------------------------------------------
(* The reference: each node from its children *)

FirstOf(env, acc, l) ==
    [a \in AggIds(env[2][l]) |-> FoldedNode(env[1], env[2], acc, l, 1, a, 0)]
Firsts == INSTANCE Folding WITH op <- FirstOf

LayerOf(env, acc, k) ==
    [a \in AggIds(env[2][env[4]]) |->
        FoldedNode(env[1], env[2], FoldedFirst(env[1], env[2], env[3], env[4] - 1), env[4], k, a,
                   acc[a].retained_loss)]
Layers == INSTANCE Folding WITH op <- LayerOf

FirstFolds(f, av, row, l) ==
    FoldedFirst(f, av, row, l) =
        [a \in AggIds(av[l]) |->
            FoldedNode(f, av, FoldedFirst(f, av, row, l - 1), l, 1, a, 0)]

\* The reference on the first layer, level by level.
LEMMA FoldedFirstIs ==
    ASSUME NEW f, NEW av, NEW row
    PROVE  /\ FoldedFirst(f, av, row, 0) = FoldedItems(av, row)
           /\ \A l \in Nat \ {0} : FirstFolds(f, av, row, l)
<1> DEFINE env == <<f, av>>
           base == FoldedItems(av, row)
<1>1. \A l \in Nat : FoldedFirst(f, av, row, l) = Firsts!Recursion(env, base, 0, l)[l]
    BY DEF FoldedFirst, Firsts!Recursion, FirstOf
<1>2. ASSUME NEW l \in Nat
      PROVE  Firsts!Follows(Firsts!Recursion(env, base, 0, l), env, base, 0, l)
    BY Firsts!RecursionSteps
<1>3. FoldedFirst(f, av, row, 0) = base
    BY <1>1, <1>2 DEF Firsts!Follows
<1>4. ASSUME NEW l \in Nat \ {0}
      PROVE  FirstFolds(f, av, row, l)
    <2>1. l - 1 \in 0 .. l /\ l \in 0 .. l /\ l # 0 /\ l - 1 \in Nat /\ 0 \in Nat /\ l \in Nat
        OBVIOUS
    <2>2. Firsts!Recursion(env, base, 0, l)[l]
            = FirstOf(env, Firsts!Recursion(env, base, 0, l)[l - 1], l)
        BY <1>2, <2>1 DEF Firsts!Follows
    <2> HIDE DEF env, base
    <2>3. Firsts!Recursion(env, base, 0, l)[l - 1] = Firsts!Recursion(env, base, 0, l - 1)[l - 1]
        BY <2>1, Firsts!RecursionPrefix
    <2>4. FoldedFirst(f, av, row, l) = FirstOf(env, FoldedFirst(f, av, row, l - 1), l)
        BY <1>1, <2>1, <2>2, <2>3
    <2> QED BY <2>4 DEF FirstOf, FirstFolds, env
<1> QED BY <1>3, <1>4

LayerFolds(f, av, row, l, k) ==
    Folded(f, av, row, l, k) =
        [a \in AggIds(av[l]) |->
            FoldedNode(f, av, FoldedFirst(f, av, row, l - 1), l, k, a,
                       Folded(f, av, row, l, k - 1)[a].retained_loss)]

\* The reference on the layers of a level, one by one.
LEMMA FoldedIs ==
    ASSUME NEW f, NEW av, NEW row, NEW l
    PROVE  /\ Folded(f, av, row, l, 1) = FoldedFirst(f, av, row, l)
           /\ \A k \in Nat : k > 1 => LayerFolds(f, av, row, l, k)
<1> DEFINE env == <<f, av, row, l>>
           base == FoldedFirst(f, av, row, l)
<1>1. \A k \in Nat : Folded(f, av, row, l, k) = Layers!Recursion(env, base, 1, k)[k]
    BY DEF Folded, Layers!Recursion, LayerOf, env, base
<1>2. ASSUME NEW k \in Nat, 1 <= k
      PROVE  Layers!Follows(Layers!Recursion(env, base, 1, k), env, base, 1, k)
    BY <1>2, Layers!RecursionSteps
<1>3. Folded(f, av, row, l, 1) = base
    <2> HIDE DEF env, base
    <2>1. 1 \in Nat /\ 1 <= 1
        OBVIOUS
    <2>2. Layers!Recursion(env, base, 1, 1)[1] = base
        BY <1>2, <2>1 DEF Layers!Follows
    <2> QED BY <1>1, <2>1, <2>2
<1>4. ASSUME NEW k \in Nat, k > 1
      PROVE  LayerFolds(f, av, row, l, k)
    <2>1. k - 1 \in 1 .. k /\ k \in 1 .. k /\ k # 1 /\ k - 1 \in Nat /\ 1 \in Nat /\ 1 <= k
        BY <1>4
    <2>2. Layers!Recursion(env, base, 1, k)[k]
            = LayerOf(env, Layers!Recursion(env, base, 1, k)[k - 1], k)
        BY <1>2, <2>1 DEF Layers!Follows
    <2> HIDE DEF env, base
    <2>3. Layers!Recursion(env, base, 1, k)[k - 1] = Layers!Recursion(env, base, 1, k - 1)[k - 1]
        BY <2>1, Layers!RecursionPrefix
    <2>4. Folded(f, av, row, l, k) = LayerOf(env, Folded(f, av, row, l, k - 1), k)
        BY <1>1, <2>1, <2>2, <2>3
    <2> QED BY <2>4 DEF LayerOf, LayerFolds, env
<1> QED BY <1>3, <1>4

-----------------------------------------------------------------------------
(* The invariant *)

\* A vector for every level and layer, each in a shape that a call can clear.
Stored(f, av, vecs) ==
    /\ DOMAIN vecs = 0 .. f.levels
    /\ \A l \in 0 .. f.levels : DOMAIN vecs[l] = 1 .. max_layer(f)
    /\ \A l \in 1 .. f.levels : \A k \in 1 .. MaxLayer(f, l) :
          IsShaped(av[l], MaxAgg(f, l), vecs[l][k])

\* The items hold the losses of the row.
HoldsRow(av, row, vec) ==
    IsVector(vec, Len(av[0])) /\ Brings(vec, Len(av[0]), av[0], FoldedItems(av, row))

\* The vector of level l and layer k holds what the row gives.
HoldsLayer(f, av, row, vecs, l, k) ==
    IsFilled(f, av[l], MaxAgg(f, l), Folded(f, av, row, l, k), vecs[l][k], l, k)

Counters ==
    /\ gul_idx \in 1 .. (Len(input.event_guls) + 1)
    /\ level \in 0 .. fm.levels
    /\ level = 0 => layer = 1
    /\ level > 0 => /\ layer \in 1 .. MaxLayer(fm, level)
                    /\ gul_idx <= Len(input.event_guls)
                    /\ gul_idx <= 2 \/ gulhasvalue(guls)

IInv ==
    /\ input \in Cases
    /\ avxs = Avxs(fm, input.items)
    /\ Counters
    /\ Stored(fm, avxs, agg_vecs)
    /\ level > 0 => HoldsRow(avxs, guls, agg_vecs[0][1])
    /\ \A l \in 1 .. fm.levels : \A k \in 1 .. MaxLayer(fm, l) :
          IsDone(l, k) => HoldsLayer(fm, avxs, input.event_guls[LastRow], agg_vecs, l, k)

\* A case has a tree, layers, items and losses.
LEMMA CaseFacts ==
    ASSUME NEW c \in Cases
    PROVE  /\ IsTree(c.fm) /\ c.fm.levels \in Nat \ {0} /\ c.fm.stepped \in BOOLEAN
           /\ max_layer(c.fm) \in Nat \ {0}
           /\ c.items \in Seq(DOMAIN c.fm.parent[1]) \ {<<>>}
           /\ c.event_guls \in Seq([DOMAIN c.items -> Nat])
<1>1. /\ IsTree(c.fm) /\ c.fm.stepped \in BOOLEAN
      /\ c.items \in Seq(DOMAIN c.fm.parent[1]) \ {<<>>}
      /\ c.event_guls \in Seq([DOMAIN c.items -> Nat])
    BY CasesAssumption DEF IsProgramme
<1>2. c.fm.levels \in Nat \ {0}
    BY <1>1 DEF IsTree
<1>3. c.fm.levels \in 1 .. c.fm.levels
    BY <1>2
<1>4. PICK av : av = Avxs(c.fm, c.items)
    OBVIOUS
<1>5. MaxLayer(c.fm, c.fm.levels) = max_layer(c.fm) /\ IsLevel(c.fm, av, c.fm.levels)
    BY <1>3, <1>4, LevelsAre
<1> QED BY <1>1, <1>2, <1>5 DEF IsLevel

\* The nodes of the items, and their records.
LEMMA ItemFacts ==
    ASSUME NEW c \in Cases, NEW av, av = Avxs(c.fm, c.items)
    PROVE  /\ AreNodes(av[0], Len(av[0])) /\ Len(av[0]) \in Nat
           /\ DOMAIN av[0] = 1 .. Len(av[0])
           /\ AggIds(av[0]) \subseteq Nat \ {0}
           /\ DOMAIN av[0] = DOMAIN c.items
<1> DEFINE base == [i \in DOMAIN c.items |-> [agg_id |-> c.items[i], item_idx |-> <<i>>]]
<1>1. c.fm.levels \in Nat \ {0}
    BY CaseFacts
<1>2. 0 \in 0 .. c.fm.levels
    BY <1>1
<1>3. IsReached(c.fm, av[0], 0)
    BY <1>2, AvxsIs
<1>4. IsList(av[0]) /\ AggIds(av[0]) \subseteq Nat \ {0}
    BY <1>3 DEF IsReached
<1>5. /\ AreNodes(av[0], Len(av[0])) /\ Len(av[0]) \in Nat
      /\ DOMAIN av[0] = 1 .. Len(av[0])
    BY <1>4, ItemsAreNodes
<1>6. PICK top : top = c.fm.levels
    OBVIOUS
<1>7. av = Climb!Recursion(c.fm, base, 0, top)
    BY <1>6 DEF Avxs, Climb!Recursion, LevelOf
<1> HIDE DEF base
<1>8. Climb!Follows(av, c.fm, base, 0, top)
    BY <1>1, <1>6, <1>7, Climb!RecursionSteps
<1>9. av[0] = base
    BY <1>8 DEF Climb!Follows
<1>10. DOMAIN av[0] = DOMAIN c.items
    BY <1>9 DEF base
<1> QED BY <1>4, <1>5, <1>10

\* The records of the items hold integers.
LEMMA ItemsInt ==
    ASSUME NEW av, IsNodes(av[0]), NEW row, row \in [DOMAIN av[0] -> Nat],
           NEW b \in AggIds(av[0])
    PROVE  \A i \in Taken : FoldedItems(av, row)[b][i] \in Int
<1>1. VecIdx(av[0], b) \in DOMAIN av[0]
    BY IndexOf
<1>2. row[VecIdx(av[0], b)] \in Int
    BY <1>1
<1>3. FoldedItems(av, row)[b] = [LossRec EXCEPT !.loss = row[VecIdx(av[0], b)]]
    BY DEF FoldedItems
<1> QED BY <1>2, <1>3, SMT DEF LossRec, Taken

\* The records that a call finds on the level below.
Finds(f, av, vecs, l, recs) ==
    /\ MaxLayer(f, l - 1) = 1
    /\ DOMAIN recs = AggIds(av[l - 1])
    /\ \A b \in DOMAIN recs : b # 0 /\ \A i \in Taken : recs[b][i] \in Int
    /\ \E psize \in Nat : /\ AreNodes(av[l - 1], psize)
                          /\ IsVector(vecs[l - 1][1], psize)
                          /\ Brings(vecs[l - 1][1], psize, av[l - 1], recs)

\* A call finds the records of the level below as the reference has them.
LEMMA Below ==
    ASSUME NEW c \in Cases, NEW f, f = c.fm, NEW av, av = Avxs(f, c.items),
           NEW l \in 1 .. f.levels, NEW row \in [DOMAIN c.items -> Nat], NEW vecs,
           l = 1 => HoldsRow(av, row, vecs[0][1]),
           l > 1 => HoldsLayer(f, av, row, vecs, l - 1, 1),
           NEW recs, recs = FoldedFirst(f, av, row, l - 1)
    PROVE  Finds(f, av, vecs, l, recs)
<1> DEFINE below == av[l - 1]
<1>1. f.levels \in Nat \ {0} /\ l \in Nat
    <2>1. c.fm.levels \in Nat \ {0}
        BY CaseFacts
    <2> QED BY <2>1
<1>2. CASE l = 1
    <2>0. l - 1 = 0
        BY <1>2
    <2>1. recs = FoldedItems(av, row)
        <3>1. recs = FoldedFirst(f, av, row, 0)
            BY <2>0
        <3> QED BY <3>1, FoldedFirstIs
    <2>2. MaxLayer(f, 0) = 1
        BY DEF MaxLayer
    <2>3. DOMAIN recs = AggIds(av[0])
        BY <2>1 DEF FoldedItems
    <2>4. /\ AreNodes(av[0], Len(av[0])) /\ Len(av[0]) \in Nat /\ AggIds(av[0]) \subseteq Nat \ {0}
          /\ row \in [DOMAIN av[0] -> Nat] /\ IsNodes(av[0])
        BY ItemFacts DEF AreNodes
    <2>5. \A b \in AggIds(av[0]) : \A i \in Taken : recs[b][i] \in Int
        BY <2>1, <2>4, ItemsInt
    <2>6. IsVector(vecs[0][1], Len(av[0])) /\ Brings(vecs[0][1], Len(av[0]), av[0], recs)
        BY <1>2, <2>1 DEF HoldsRow
    <2>7. \A b \in DOMAIN recs : b # 0
        BY <2>3, <2>4
    <2> QED BY <2>0, <2>2, <2>3, <2>4, <2>5, <2>6, <2>7 DEF Finds
<1>3. CASE l > 1
    <2> DEFINE size == MaxAgg(f, l - 1)
               vec == vecs[l - 1][1]
    <2>1. l - 1 \in 1 .. f.levels /\ l - 1 < f.levels /\ l - 1 \in Nat \ {0}
        BY <1>1, <1>3
    <2>2. IsLevel(f, av, l - 1) /\ MaxLayer(f, l - 1) = 1
        <3>1. l - 1 \in 1 .. c.fm.levels /\ l - 1 < c.fm.levels /\ av = Avxs(c.fm, c.items)
            BY <2>1
        <3>2. IsLevel(c.fm, av, l - 1) /\ MaxLayer(c.fm, l - 1) = 1
            BY <3>1, LevelsAre
        <3> QED BY <3>2
    <2>3. size \in Nat /\ AreNodes(below, size)
        BY <2>2 DEF IsLevel
    <2>4. recs = Folded(f, av, row, l - 1, 1)
        BY FoldedIs
    <2>5. IsFilled(f, below, size, recs, vec, l - 1, 1)
        BY <1>3, <2>4 DEF HoldsLayer
    <2>6. DOMAIN recs = AggIds(below)
        <3> PICK j : j = l - 1
            OBVIOUS
        <3>1. j \in Nat \ {0} /\ recs = FoldedFirst(f, av, row, j)
            BY <2>1
        <3>2. FoldedFirst(f, av, row, j) =
                [a \in AggIds(av[j]) |->
                    FoldedNode(f, av, FoldedFirst(f, av, row, j - 1), j, 1, a, 0)]
            <4>1. FirstFolds(f, av, row, j)
                BY <3>1, FoldedFirstIs
            <4> QED BY <4>1 DEF FirstFolds
        <3>3. DOMAIN recs = AggIds(av[j])
            BY <3>1, <3>2
        <3> QED BY <3>3
    <2> HIDE DEF below, size, vec
    <2>7. ASSUME NEW n \in DOMAIN below
          PROVE  /\ \A i \in Taken : /\ recs[below[n].agg_id][i] \in Int
                                     /\ vec[n][i] = recs[below[n].agg_id][i]
                 /\ vec[n].agg_id = below[n].agg_id
                 /\ below[n].agg_id # 0
        <3>1. n \in 1 .. size /\ below[n].agg_id # 0
            BY <2>3 DEF AreNodes
        <3>2. Alike(below[n].agg_id, ProfileOf(f, l - 1, below[n].agg_id, 1),
                    recs[below[n].agg_id], vec[n])
            BY <2>5, <3>1 DEF IsFilled
        <3>3. Taken \subseteq Amounts
            BY DEF Taken, Amounts
        <3> QED BY <3>1, <3>2, <3>3 DEF Alike, IsRecord, IsOf
    <2>8. \A n \in 1 .. size : n \notin DOMAIN below => vec[n].agg_id = 0
        BY <2>5, BlankFacts DEF IsFilled
    <2>9. Brings(vec, size, below, recs)
        BY <2>7, <2>8 DEF Brings
    <2>10. IsVector(vec, size)
        BY <2>5 DEF IsFilled
    <2>11. \A b \in AggIds(below) : b # 0 /\ \A i \in Taken : recs[b][i] \in Int
        BY <2>7 DEF AggIds
    <2>12. \E psize \in Nat : /\ AreNodes(below, psize) /\ IsVector(vec, psize)
                              /\ Brings(vec, psize, below, recs)
        BY <2>3, <2>9, <2>10
    <2> QED BY <2>2, <2>6, <2>11, <2>12, Zenon DEF Finds, below, vec
<1> QED BY <1>1, <1>2, <1>3

\* The reference on one layer, from the level below and the layer before.
IsBeforeOf(before, nodes, k, prev) ==
    \A a \in AggIds(nodes) : before[a] = IF k = 1 THEN 0 ELSE prev[a].retained_loss

\* The reference on one layer, from the level below and the layer before.
LEMMA FoldedAs ==
    ASSUME NEW f, NEW av, NEW row, NEW l \in Nat \ {0}, NEW k \in Nat \ {0},
           NEW recs, recs = FoldedFirst(f, av, row, l - 1),
           NEW prev, prev = Folded(f, av, row, l, k - 1),
           NEW before, IsBeforeOf(before, av[l], k, prev)
    PROVE  Folded(f, av, row, l, k)
                = [a \in AggIds(av[l]) |-> FoldedNode(f, av, recs, l, k, a, before[a])]
<1> PICK folded : folded = Folded(f, av, row, l, k)
    OBVIOUS
<1> PICK S : S = AggIds(av[l])
    OBVIOUS
<1>1. CASE k = 1
    <2>1. folded = FoldedFirst(f, av, row, l)
        BY <1>1, FoldedIs
    <2>0. FoldedFirst(f, av, row, l) =
            [a \in AggIds(av[l]) |-> FoldedNode(f, av, FoldedFirst(f, av, row, l - 1), l, 1, a, 0)]
        <3>1. FirstFolds(f, av, row, l)
            BY FoldedFirstIs
        <3> QED BY <3>1 DEF FirstFolds
    <2>5. folded = [a \in AggIds(av[l]) |->
                        FoldedNode(f, av, FoldedFirst(f, av, row, l - 1), l, 1, a, 0)]
        BY <2>0, <2>1, Zenon
    <2>6. folded = [a \in S |-> folded[a]]
        BY <2>5
    <2>7. ASSUME NEW a \in S
          PROVE  folded[a] = FoldedNode(f, av, FoldedFirst(f, av, row, l - 1), l, 1, a, 0)
        BY <2>5
    <2>2. \A a \in S : folded[a] = FoldedNode(f, av, recs, l, 1, a, 0)
        BY <2>7, Zenon
    <2>3. \A a \in S : before[a] = 0
        BY <1>1 DEF IsBeforeOf
    <2>4. \A a \in S : folded[a] = FoldedNode(f, av, recs, l, k, a, before[a])
        BY <1>1, <2>2, <2>3
    <2> QED BY <2>6, <2>4
<1>2. CASE k # 1
    <2>1. k \in Nat /\ k > 1
        BY <1>2
    <2>2. folded = [a \in S |-> FoldedNode(f, av, recs, l, k, a, prev[a].retained_loss)]
        <3>1. LayerFolds(f, av, row, l, k)
            BY <2>1, FoldedIs
        <3> QED BY <3>1 DEF LayerFolds
    <2>3. \A a \in S : before[a] = prev[a].retained_loss
        BY <1>2 DEF IsBeforeOf
    <2>4. \A a \in S : folded[a] = FoldedNode(f, av, recs, l, k, a, before[a])
        BY <2>2, <2>3
    <2>5. folded = [a \in S |-> folded[a]]
        BY <2>2
    <2> QED BY <2>4, <2>5
<1> QED BY <1>1, <1>2

\* The layers calculated so far hold what the row gives.
LEMMA DoneHolds ==
    ASSUME IInv, level > 0, NEW m \in 1 .. fm.levels, NEW j \in 1 .. MaxLayer(fm, m),
           m < level \/ (m = level /\ j < layer)
    PROVE  HoldsLayer(fm, avxs, guls, agg_vecs, m, j)
<1>1. IsDone(m, j)
    BY DEF IsDone
<1>2. LastRow = gul_idx
    BY DEF LastRow
<1> QED BY <1>1, <1>2 DEF IInv, guls

\* A call finds what it adds up, and what the layer before retained.
LEMMA CallFinds ==
    ASSUME IInv, level > 0
    PROVE  /\ Finds(fm, avxs, agg_vecs, level, FoldedFirst(fm, avxs, guls, level - 1))
           /\ layer > 1 => HoldsLayer(fm, avxs, guls, agg_vecs, level, layer - 1)
<1>1. /\ input \in Cases /\ avxs = Avxs(fm, input.items) /\ level \in 1 .. fm.levels
      /\ layer \in 1 .. MaxLayer(fm, level)
      /\ gul_idx \in 1 .. Len(input.event_guls)
    BY DEF IInv, Counters
<1>2. /\ fm.levels \in Nat \ {0}
      /\ input.event_guls \in Seq([DOMAIN input.items -> Nat])
    BY <1>1, CaseFacts DEF fm
<1>3. guls \in [DOMAIN input.items -> Nat]
    BY <1>1, <1>2 DEF guls
<1>4. IsLevel(fm, avxs, level)
    BY <1>1, LevelsAre DEF fm
<1>5. MaxLayer(fm, level) \in Nat \ {0}
    BY <1>4 DEF IsLevel
<1>6. level = 1 => HoldsRow(avxs, guls, agg_vecs[0][1])
    BY DEF IInv
<1>7. level > 1 => HoldsLayer(fm, avxs, guls, agg_vecs, level - 1, 1)
    <2>1. SUFFICES ASSUME level > 1 PROVE HoldsLayer(fm, avxs, guls, agg_vecs, level - 1, 1)
        OBVIOUS
    <2>2. level - 1 \in 1 .. fm.levels /\ level - 1 < fm.levels /\ level - 1 < level
        BY <1>1, <1>2, <2>1
    <2>3. MaxLayer(fm, level - 1) = 1
        BY <1>1, <2>2, LevelsAre DEF fm
    <2>4. 1 \in 1 .. MaxLayer(fm, level - 1)
        BY <2>3
    <2> QED BY <2>2, <2>4, DoneHolds
<1>8. layer > 1 => HoldsLayer(fm, avxs, guls, agg_vecs, level, layer - 1)
    <2>1. SUFFICES ASSUME layer > 1 PROVE HoldsLayer(fm, avxs, guls, agg_vecs, level, layer - 1)
        OBVIOUS
    <2>2. layer - 1 \in 1 .. MaxLayer(fm, level) /\ layer - 1 < layer
        BY <1>1, <1>5, <2>1
    <2> QED BY <1>1, <2>2, DoneHolds
<1> PICK recs : recs = FoldedFirst(fm, avxs, guls, level - 1)
    OBVIOUS
<1>9. fm = input.fm
    BY DEF fm
<1>10. Finds(fm, avxs, agg_vecs, level, recs)
    BY <1>1, <1>3, <1>6, <1>7, <1>9, Below
<1> QED BY <1>8, <1>10

\* A call fills the vector of its level and layer.
LEMMA CallFills ==
    ASSUME IInv, level > 0
    PROVE  /\ IsFilled(fm, avxs[level], MaxAgg(fm, level), Folded(fm, avxs, guls, level, layer),
                       Calculated(level, layer), level, layer)
           /\ IsShaped(avxs[level], MaxAgg(fm, level), Calculated(level, layer))
<1> PICK l : l = level
    OBVIOUS
<1> PICK k : k = layer
    OBVIOUS
<1> PICK recs : recs = FoldedFirst(fm, avxs, guls, l - 1)
    OBVIOUS
<1> PICK folded : folded = Folded(fm, avxs, guls, l, k)
    OBVIOUS
<1> PICK prev : prev = Folded(fm, avxs, guls, l, k - 1)
    OBVIOUS
<1> DEFINE nodes == avxs[l]
           size == MaxAgg(fm, l)
           given == [a \in AggIds(nodes) |-> IF k = 1 THEN 0 ELSE prev[a].retained_loss]
<1> PICK before : before = given
    OBVIOUS
<1>1. /\ input \in Cases /\ avxs = Avxs(fm, input.items) /\ l \in 1 .. fm.levels
      /\ k \in 1 .. MaxLayer(fm, l)
    BY DEF IInv, Counters
<1>2. fm.levels \in Nat \ {0} /\ fm.stepped \in BOOLEAN
    BY <1>1, CaseFacts DEF fm
<1>3. IsLevel(fm, avxs, l)
    BY <1>1, LevelsAre DEF fm
<1>4. size \in Nat /\ AreNodes(nodes, size) /\ MaxLayer(fm, l) \in Nat \ {0} /\ k \in Nat
    BY <1>1, <1>3 DEF IsLevel
<1>5. Finds(fm, avxs, agg_vecs, l, recs)
    BY CallFinds
<1>6. IsBeforeOf(before, nodes, k, prev)
    BY DEF IsBeforeOf
<1>7. IsBefore(nodes, size, before, fm, agg_vecs[l], l, k)
    <2>1. CASE k = 1
        BY <2>1, <1>6, Zenon DEF IsBefore, IsBeforeOf
    <2>2. CASE k # 1
        <3>1. layer > 1
            BY <1>1, <1>4, <2>2
        <3>2. HoldsLayer(fm, avxs, guls, agg_vecs, l, k - 1)
            BY <3>1, CallFinds
        <3>3. IsFilled(fm, nodes, size, prev, agg_vecs[l][k - 1], l, k - 1)
            BY <3>2 DEF HoldsLayer
        <3>4. \A a \in AggIds(nodes) : before[a] = prev[a].retained_loss
            BY <1>6, <2>2 DEF IsBeforeOf
        <3> QED BY <2>2, <3>3, <3>4, Zenon DEF IsBefore
    <2> QED BY <2>1, <2>2
<1>8. folded = [a \in AggIds(nodes) |-> FoldedNode(fm, avxs, recs, l, k, a, before[a])]
    <2>1. l \in Nat \ {0} /\ k \in Nat \ {0}
        BY <1>1, <1>2, <1>4
    <2> QED BY <1>6, <2>1, FoldedAs
<1>9. IsShaped(nodes, size, agg_vecs[l][k])
    BY <1>1 DEF IInv, Stored
<1>10. \A a \in AggIds(nodes) : ProfileOf(fm, l, a, k) \in Profiles
    BY <1>1, <1>3 DEF IsLevel
<1>11. /\ MaxLayer(fm, l - 1) = 1
       /\ DOMAIN recs = AggIds(avxs[l - 1])
       /\ \A b \in DOMAIN recs : b # 0 /\ \A i \in Taken : recs[b][i] \in Int
       /\ \E psize \in Nat : /\ AreNodes(avxs[l - 1], psize)
                             /\ IsVector(agg_vecs[l - 1][1], psize)
                             /\ Brings(agg_vecs[l - 1][1], psize, avxs[l - 1], recs)
    BY <1>5, Zenon DEF Finds
<1>12. PICK psize \in Nat : /\ AreNodes(avxs[l - 1], psize)
                            /\ IsVector(agg_vecs[l - 1][1], psize)
                            /\ Brings(agg_vecs[l - 1][1], psize, avxs[l - 1], recs)
    BY <1>11
<1>13. IsFilled(fm, nodes, size,
                [a \in AggIds(nodes) |-> FoldedNode(fm, avxs, recs, l, k, a, before[a])],
                Calculated(l, k), l, k)
    BY <1>1, <1>2, <1>3, <1>7, <1>9, <1>11, <1>12, Called
<1>14. IsFilled(fm, nodes, size, folded, Calculated(l, k), l, k)
    BY <1>8, <1>13
<1> HIDE DEF nodes, size
<1>15. IsShaped(nodes, size, Calculated(l, k))
    BY <1>4, <1>10, <1>14, FilledShaped
<1> QED BY <1>14, <1>15 DEF nodes, size

\* After the call, and whatever it does to the proportions and the net losses,
\* the layers calculated so far hold what the row gives.
LEMMA CallKeeps ==
    ASSUME IInv, level > 0,
           NEW vecs, KeepsAll([agg_vecs EXCEPT ![level][layer] = Calculated(level, layer)], vecs)
    PROVE  /\ Stored(fm, avxs, vecs)
           /\ vecs[0] = agg_vecs[0]
           /\ \A l \in 1 .. fm.levels : \A k \in 1 .. MaxLayer(fm, l) :
                 l < level \/ (l = level /\ k <= layer) => HoldsLayer(fm, avxs, guls, vecs, l, k)
<1> DEFINE new == Calculated(level, layer)
           mid == [agg_vecs EXCEPT ![level][layer] = new]
<1>1. /\ input \in Cases /\ avxs = Avxs(fm, input.items) /\ level \in 1 .. fm.levels
      /\ layer \in 1 .. MaxLayer(fm, level) /\ Stored(fm, avxs, agg_vecs)
    BY DEF IInv, Counters
<1>2. fm.levels \in Nat \ {0} /\ max_layer(fm) \in Nat \ {0}
    BY <1>1, CaseFacts DEF fm
<1>3. ASSUME NEW l \in 1 .. fm.levels
      PROVE  /\ MaxLayer(fm, l) \in Nat \ {0} /\ MaxLayer(fm, l) <= max_layer(fm)
             /\ MaxAgg(fm, l) \in Nat
    <2>1. /\ IsLevel(fm, avxs, l)
          /\ l < fm.levels => MaxLayer(fm, l) = 1
          /\ l = fm.levels => MaxLayer(fm, l) = max_layer(fm)
        BY <1>1, LevelsAre DEF fm
    <2>2. MaxLayer(fm, l) \in Nat \ {0} /\ MaxAgg(fm, l) \in Nat
        BY <2>1 DEF IsLevel
    <2>3. l < fm.levels \/ l = fm.levels
        BY <1>2
    <2> QED BY <1>2, <2>1, <2>2, <2>3
<1>4. /\ IsFilled(fm, avxs[level], MaxAgg(fm, level), Folded(fm, avxs, guls, level, layer),
                  new, level, layer)
      /\ IsShaped(avxs[level], MaxAgg(fm, level), new)
    BY CallFills
<1> HIDE DEF new
<1>5. /\ DOMAIN mid = 0 .. fm.levels
      /\ \A l \in 0 .. fm.levels : DOMAIN mid[l] = 1 .. max_layer(fm)
      /\ mid[0] = agg_vecs[0]
      /\ \A l \in 1 .. fm.levels : \A k \in 1 .. MaxLayer(fm, l) :
            mid[l][k] = IF l = level /\ k = layer THEN new ELSE agg_vecs[l][k]
    <2>1. /\ DOMAIN agg_vecs = 0 .. fm.levels
          /\ \A l \in 0 .. fm.levels : DOMAIN agg_vecs[l] = 1 .. max_layer(fm)
        BY <1>1 DEF Stored
    <2>2. \A l \in 1 .. fm.levels : \A k \in 1 .. MaxLayer(fm, l) : k \in 1 .. max_layer(fm)
        BY <1>2, <1>3
    <2>3. 0 # level /\ level \in 0 .. fm.levels
        BY <1>1
    <2>4. \A l \in 1 .. fm.levels : l \in 0 .. fm.levels
        OBVIOUS
    <2>5. DOMAIN mid = DOMAIN agg_vecs /\ \A l \in DOMAIN agg_vecs : l # level => mid[l] = agg_vecs[l]
        OBVIOUS
    <2>6. mid[level] = [agg_vecs[level] EXCEPT ![layer] = new]
        BY <2>1, <2>3
    <2> HIDE DEF mid
    <2>7. DOMAIN mid[level] = DOMAIN agg_vecs[level]
          /\ \A k \in DOMAIN agg_vecs[level] : mid[level][k] = IF k = layer THEN new ELSE agg_vecs[level][k]
        BY <2>6
    <2>8. \A l \in 0 .. fm.levels : DOMAIN mid[l] = 1 .. max_layer(fm)
        BY <2>1, <2>3, <2>5, <2>7
    <2>9. mid[0] = agg_vecs[0]
        BY <2>1, <2>3, <2>5, <1>2
    <2> QED BY <2>1, <2>2, <2>4, <2>5, <2>7, <2>8, <2>9
<1>6. LastRow = gul_idx
    BY DEF LastRow
<1>7. ASSUME NEW l \in 1 .. fm.levels, NEW k \in 1 .. MaxLayer(fm, l),
             l < level \/ (l = level /\ k <= layer)
      PROVE  IsFilled(fm, avxs[l], MaxAgg(fm, l), Folded(fm, avxs, guls, l, k), mid[l][k], l, k)
    <2>1. CASE l = level /\ k = layer
        <3>1. mid[l][k] = new
            BY <1>5, <2>1
        <3> HIDE DEF mid
        <3> QED BY <1>4, <2>1, <3>1
    <2>2. CASE ~(l = level /\ k = layer)
        <3>1. l < level \/ (l = level /\ k < layer)
            BY <1>1, <1>3, <1>7, <2>2
        <3>2. IsDone(l, k)
            BY <3>1 DEF IsDone
        <3>3. HoldsLayer(fm, avxs, guls, agg_vecs, l, k)
            BY <1>6, <3>2 DEF IInv, guls
        <3>4. mid[l][k] = agg_vecs[l][k]
            BY <1>5, <2>2
        <3> HIDE DEF mid
        <3> QED BY <3>3, <3>4 DEF HoldsLayer
    <2> QED BY <2>1, <2>2
<1>8. \A l \in 1 .. fm.levels : \A k \in 1 .. MaxLayer(fm, l) :
         IsShaped(avxs[l], MaxAgg(fm, l), mid[l][k])
    <2> SUFFICES ASSUME NEW l \in 1 .. fm.levels, NEW k \in 1 .. MaxLayer(fm, l)
                 PROVE  IsShaped(avxs[l], MaxAgg(fm, l), mid[l][k])
        OBVIOUS
    <2>1. IsShaped(avxs[l], MaxAgg(fm, l), agg_vecs[l][k])
        BY <1>1 DEF Stored
    <2>2. mid[l][k] = IF l = level /\ k = layer THEN new ELSE agg_vecs[l][k]
        BY <1>5
    <2> HIDE DEF mid
    <2> QED BY <1>4, <2>1, <2>2
<1> HIDE DEF mid
<1>9. KeepsAll(mid, vecs)
    BY DEF mid, new
<1>10. ASSUME NEW l \in 1 .. fm.levels, NEW k \in 1 .. MaxLayer(fm, l)
       PROVE  Keeps(mid[l][k], vecs[l][k])
    <2>1. l \in DOMAIN mid /\ k \in DOMAIN mid[l]
        BY <1>2, <1>3, <1>5
    <2> QED BY <1>9, <2>1 DEF KeepsAll
<1>11. Stored(fm, avxs, vecs)
    <2>1. /\ DOMAIN vecs = 0 .. fm.levels
          /\ \A l \in 0 .. fm.levels : DOMAIN vecs[l] = 1 .. max_layer(fm)
        BY <1>5, <1>9 DEF KeepsAll
    <2>2. ASSUME NEW l \in 1 .. fm.levels, NEW k \in 1 .. MaxLayer(fm, l)
          PROVE  IsShaped(avxs[l], MaxAgg(fm, l), vecs[l][k])
        BY <1>3, <1>8, <1>10, ShapeKept
    <2> QED BY <2>1, <2>2 DEF Stored
<1>12. vecs[0] = agg_vecs[0]
    BY <1>5, <1>9 DEF KeepsAll
<1>13. ASSUME NEW l \in 1 .. fm.levels, NEW k \in 1 .. MaxLayer(fm, l),
              l < level \/ (l = level /\ k <= layer)
       PROVE  HoldsLayer(fm, avxs, guls, vecs, l, k)
    <2> DEFINE folded == Folded(fm, avxs, guls, l, k)
    <2>1. IsFilled(fm, avxs[l], MaxAgg(fm, l), folded, mid[l][k], l, k)
        BY <1>7, <1>13
    <2> HIDE DEF folded
    <2>2. IsFilled(fm, avxs[l], MaxAgg(fm, l), folded, vecs[l][k], l, k)
        BY <1>3, <1>10, <2>1, FilledKept
    <2> QED BY <2>2 DEF HoldsLayer, folded
<1> QED BY <1>11, <1>12, <1>13

-----------------------------------------------------------------------------
(* The last row with a loss *)

LastFull(events, n) ==
    Max({0} \cup {g \in 1 .. n : g <= 2 \/ gulhasvalue(events[g])})

\* The last row with a loss among the first n.
LEMMA LastFullIs ==
    ASSUME NEW events
    PROVE  /\ LastFull(events, 0) = 0
           /\ \A n \in Nat \ {0} :
                 LastFull(events, n) = IF n <= 2 \/ gulhasvalue(events[n]) THEN n
                                       ELSE LastFull(events, n - 1)
<1> DEFINE S(n) == {0} \cup {g \in 1 .. n : g <= 2 \/ gulhasvalue(events[g])}
<1>1. ASSUME NEW n \in Nat PROVE IsFiniteSet(S(n)) /\ S(n) \subseteq Nat
    <2>1. S(n) \in SUBSET (0 .. n) /\ IsFiniteSet(0 .. n)
        BY FS_Interval
    <2> QED BY <2>1, FS_Subset
<1>2. LastFull(events, 0) = 0
    <2>1. S(0) = {0}
        OBVIOUS
    <2>2. 0 \in S(0) /\ \A y \in S(0) : y <= 0
        BY <2>1
    <2>3. Max(S(0)) = 0
        <3> HIDE DEF S
        <3> QED BY <1>1, <2>2, MaxIs
    <2> QED BY <2>3 DEF LastFull
<1>3. ASSUME NEW n \in Nat \ {0}, n <= 2 \/ gulhasvalue(events[n])
      PROVE  LastFull(events, n) = n
    <2>1. n \in S(n) /\ n \in Nat /\ \A y \in S(n) : y <= n
        BY <1>3
    <2>2. Max(S(n)) = n
        <3> HIDE DEF S
        <3> QED BY <1>1, <2>1, MaxIs
    <2> QED BY <2>2 DEF LastFull
<1>4. ASSUME NEW n \in Nat \ {0}, ~(n <= 2 \/ gulhasvalue(events[n]))
      PROVE  LastFull(events, n) = LastFull(events, n - 1)
    <2>1. \A g : g \in 1 .. n <=> g \in 1 .. (n - 1) \/ g = n
        OBVIOUS
    <2>2. S(n) = S(n - 1)
        BY <1>4, <2>1
    <2> QED BY <2>2 DEF LastFull
<1> QED BY <1>2, <1>3, <1>4

\* The row the vectors were filled from, in terms of LastFull.
LEMMA LastRowIs ==
    LastRow = IF level > 0 THEN gul_idx ELSE LastFull(input.event_guls, gul_idx - 1)
BY DEF LastRow, LastFull, Passed

\* The same after a step.
LEMMA LastRowNext ==
    LastRow' = IF level' > 0 THEN gul_idx' ELSE LastFull(input.event_guls', gul_idx' - 1)
BY DEF LastRow, LastFull, Passed, gulhasvalue

-----------------------------------------------------------------------------
(* The steps *)

\* NextSample puts the losses of its row into the items.
LEMMA ItemsHold ==
    ASSUME IInv
    PROVE  HoldsRow(avxs, guls, [k \in DOMAIN avxs[0] |-> ItemRec(k)])
<1> DEFINE vec == [k \in DOMAIN avxs[0] |-> ItemRec(k)]
           nodes == avxs[0]
<1>1. input \in Cases /\ avxs = Avxs(fm, input.items)
    BY DEF IInv
<1>2. /\ AreNodes(nodes, Len(nodes)) /\ Len(nodes) \in Nat
      /\ DOMAIN nodes = 1 .. Len(nodes) /\ IsNodes(nodes)
    BY <1>1, ItemFacts DEF fm, AreNodes
<1>3. IsVector(vec, Len(nodes))
    BY <1>2 DEF IsVector
<1>4. ASSUME NEW n \in DOMAIN nodes
      PROVE  /\ vec[n].agg_id = nodes[n].agg_id
             /\ \A i \in Taken : vec[n][i] = FoldedItems(avxs, guls)[nodes[n].agg_id][i]
    <2> DEFINE a == nodes[n].agg_id
    <2>1. a \in AggIds(nodes)
        BY DEF AggIds
    <2>2. VecIdx(nodes, a) = n
        BY <1>2, <2>1, IndexOf
    <2> PICK x : x = FoldedItems(avxs, guls)[a]
        OBVIOUS
    <2> PICK y : y = vec[n]
        OBVIOUS
    <2> PICK loss : loss = guls[n]
        OBVIOUS
    <2> PICK idx : idx = nodes[n].item_idx
        OBVIOUS
    <2> PICK tiv : tiv = IF fm.isGULStreamType_ THEN fm.tiv[fm.coverage[a]] ELSE 0
        OBVIOUS
    <2>3. x = [LossRec EXCEPT !.loss = loss]
        <3>1. x = [LossRec EXCEPT !.loss = guls[VecIdx(nodes, a)]]
            BY <2>1 DEF FoldedItems
        <3> QED BY <2>2, <3>1
    <2>4. y = [LossRec EXCEPT !.loss = loss, !.agg_id = a, !.item_idx = idx,
                              !.accumulated_tiv = tiv]
        <3>1. vec[n] = ItemRec(n)
            OBVIOUS
        <3> HIDE DEF vec
        <3> QED BY <3>1, Zenon DEF ItemRec
    <2> HIDE DEF vec, a
    <2>5. y.agg_id = a
        BY <2>4, SMT DEF LossRec
    <2>6. \A i \in Taken : y[i] = x[i]
        <3>1. /\ x.loss = loss /\ x.retained_loss = 0 /\ x.effective_deductible = 0
              /\ x.over_limit = 0 /\ x.under_limit = 0
            BY <2>3, SMT DEF LossRec
        <3>2. /\ y.loss = loss /\ y.retained_loss = 0 /\ y.effective_deductible = 0
              /\ y.over_limit = 0 /\ y.under_limit = 0
            BY <2>4, SMT DEF LossRec
        <3> QED BY <3>1, <3>2 DEF Taken
    <2> QED BY <2>5, <2>6 DEF a
<1> HIDE DEF vec
<1>5. Brings(vec, Len(nodes), nodes, FoldedItems(avxs, guls))
    BY <1>2, <1>4 DEF Brings
<1> QED BY <1>3, <1>5 DEF HoldsRow, vec

\* At first nothing has been calculated.
LEMMA InitInv == Init => IInv
<1> SUFFICES ASSUME Init PROVE IInv
    OBVIOUS
<1>1. /\ input \in Cases /\ avxs = Avxs(fm, input.items) /\ gul_idx = 1 /\ level = 0 /\ layer = 1
      /\ agg_vecs = [l \in 0 .. fm.levels |-> [k \in 1 .. max_layer(fm) |-> <<>>]]
    BY DEF Init, fm
<1>2. fm.levels \in Nat \ {0} /\ input.event_guls \in Seq([DOMAIN input.items -> Nat])
    BY <1>1, CaseFacts DEF fm
<1>3. Counters
    BY <1>1, <1>2 DEF Counters
<1>4. ASSUME NEW l \in 1 .. fm.levels, NEW k \in 1 .. MaxLayer(fm, l)
      PROVE  k \in 1 .. max_layer(fm)
    <2>1. /\ IsLevel(fm, avxs, l)
          /\ l < fm.levels => MaxLayer(fm, l) = 1
          /\ l = fm.levels => MaxLayer(fm, l) = max_layer(fm)
        BY <1>1, LevelsAre DEF fm
    <2>2. max_layer(fm) \in Nat \ {0}
        BY <1>1, CaseFacts DEF fm
    <2>3. l < fm.levels \/ l = fm.levels
        BY <1>2
    <2> QED BY <2>1, <2>2, <2>3
<1>5. Stored(fm, avxs, agg_vecs)
    <2>1. \A l \in 1 .. fm.levels : \A k \in 1 .. MaxLayer(fm, l) : agg_vecs[l][k] = <<>>
        BY <1>1, <1>2, <1>4
    <2>2. /\ DOMAIN agg_vecs = 0 .. fm.levels
          /\ \A l \in 0 .. fm.levels : DOMAIN agg_vecs[l] = 1 .. max_layer(fm)
        BY <1>1
    <2> QED BY <2>1, <2>2 DEF Stored, IsShaped
<1>6. LastRow = 0
    <2>1. LastFull(input.event_guls, 0) = 0
        BY LastFullIs
    <2> QED BY <1>1, <2>1, LastRowIs
<1>7. \A l, k : ~IsDone(l, k)
    BY <1>1, <1>6 DEF IsDone
<1> QED BY <1>1, <1>3, <1>5, <1>7 DEF IInv

\* The next row: from now on nothing is calculated for the one before.
LEMMA NextSampleInv == IInv /\ NextSample => IInv'
<1> SUFFICES ASSUME IInv, NextSample PROVE IInv'
    OBVIOUS
<1>1. /\ input' = input /\ avxs' = avxs /\ fm' = fm /\ level = 0 /\ layer = 1
      /\ gul_idx \in 1 .. (Len(input.event_guls) + 1) /\ gul_idx <= Len(input.event_guls)
      /\ input \in Cases /\ avxs = Avxs(fm, input.items)
      /\ Stored(fm, avxs, agg_vecs)
    BY DEF IInv, Counters, NextSample, fm
<1>2. /\ fm.levels \in Nat \ {0} /\ max_layer(fm) \in Nat \ {0}
      /\ input.event_guls \in Seq([DOMAIN input.items -> Nat])
    BY <1>1, CaseFacts DEF fm
<1>3. gul_idx \in Nat \ {0} /\ Len(input.event_guls) \in Nat
    BY <1>1, <1>2
<1>4. CASE gul_idx <= 2 \/ gulhasvalue(guls)
    <2> DEFINE vec == [k \in DOMAIN avxs[0] |-> ItemRec(k)]
    <2>1. /\ agg_vecs' = [agg_vecs EXCEPT ![0][1] = vec]
          /\ level' = 1 /\ layer' = 1 /\ gul_idx' = gul_idx
        BY <1>4 DEF NextSample
    <2>2. HoldsRow(avxs, guls, vec)
        BY ItemsHold
    <2> HIDE DEF vec
    <2>3. guls' = guls
        BY <1>1, <2>1 DEF guls
    <2>4. /\ agg_vecs'[0][1] = vec
          /\ DOMAIN agg_vecs' = 0 .. fm.levels
          /\ \A l \in 0 .. fm.levels : DOMAIN agg_vecs'[l] = 1 .. max_layer(fm)
          /\ \A l \in 1 .. fm.levels : agg_vecs'[l] = agg_vecs[l]
        <3>1. /\ DOMAIN agg_vecs = 0 .. fm.levels
              /\ \A l \in 0 .. fm.levels : DOMAIN agg_vecs[l] = 1 .. max_layer(fm)
            BY <1>1 DEF Stored
        <3>2. 0 \in 0 .. fm.levels /\ 1 \in 1 .. max_layer(fm)
            BY <1>2
        <3>3. /\ DOMAIN agg_vecs' = DOMAIN agg_vecs
              /\ agg_vecs'[0] = [agg_vecs[0] EXCEPT ![1] = vec]
              /\ \A l \in DOMAIN agg_vecs : l # 0 => agg_vecs'[l] = agg_vecs[l]
            BY <2>1, <3>1, <3>2
        <3>4. agg_vecs'[0][1] = vec /\ DOMAIN agg_vecs'[0] = 1 .. max_layer(fm)
            BY <3>1, <3>2, <3>3
        <3>5. \A l \in 1 .. fm.levels : l \in DOMAIN agg_vecs /\ l # 0
            BY <3>1
        <3> QED BY <3>1, <3>3, <3>4, <3>5
    <2>5. Stored(fm, avxs, agg_vecs')
        BY <1>1, <2>4 DEF Stored
    <2>6. MaxLayer(fm, 1) \in Nat \ {0} /\ 1 \in 1 .. fm.levels
        <3>1. 1 \in 1 .. fm.levels
            BY <1>2
        <3>2. IsLevel(fm, avxs, 1)
            BY <1>1, <3>1, LevelsAre DEF fm
        <3> QED BY <3>1, <3>2 DEF IsLevel
    <2>7. Counters'
        BY <1>1, <1>2, <1>4, <2>1, <2>3, <2>6 DEF Counters
    <2>8. \A l \in 1 .. fm.levels : \A k \in 1 .. MaxLayer(fm, l) : ~IsDone(l, k)'
        BY <2>1 DEF IsDone
    <2> QED BY <1>1, <2>2, <2>3, <2>4, <2>5, <2>7, <2>8 DEF IInv
<1>5. CASE ~(gul_idx <= 2 \/ gulhasvalue(guls))
    <2>1. gul_idx' = gul_idx + 1 /\ level' = level /\ layer' = layer /\ agg_vecs' = agg_vecs
        BY <1>5 DEF NextSample
    <2>2. Counters'
        BY <1>1, <1>2, <1>3, <2>1 DEF Counters
    <2>3. LastRow' = LastRow
        <3>1. LastRow' = LastFull(input.event_guls, gul_idx)
            <4>1. gul_idx' - 1 = gul_idx /\ level' = 0
                BY <1>1, <1>3, <2>1
            <4> QED BY <1>1, <4>1, LastRowNext
        <3>2. LastFull(input.event_guls, gul_idx) = LastFull(input.event_guls, gul_idx - 1)
            BY <1>3, <1>5, LastFullIs DEF guls
        <3>3. LastRow = LastFull(input.event_guls, gul_idx - 1)
            BY <1>1, LastRowIs
        <3> QED BY <3>1, <3>2, <3>3
    <2>4. \A l, k : IsDone(l, k)' <=> IsDone(l, k)
        BY <1>1, <2>1, <2>3 DEF IsDone
    <2> QED BY <1>1, <2>1, <2>2, <2>3, <2>4 DEF IInv
<1> QED BY <1>4, <1>5

\* The layers of the levels: one, but for the last.
LEMMA LayerLevel ==
    ASSUME IInv, NEW l \in 1 .. fm.levels
    PROVE  /\ MaxLayer(fm, l) \in Nat \ {0}
           /\ l < fm.levels => MaxLayer(fm, l) = 1
           /\ l = fm.levels => MaxLayer(fm, l) = max_layer(fm)
<1>1. input \in Cases /\ avxs = Avxs(fm, input.items)
    BY DEF IInv
<1> QED BY <1>1, LevelsAre DEF fm, IsLevel

\* A call below the last level.
LEMMA CalcLevelInv == IInv /\ CalcLevel => IInv'
<1> SUFFICES ASSUME IInv, CalcLevel PROVE IInv'
    OBVIOUS
<1> DEFINE mid == [agg_vecs EXCEPT ![level][layer] = Calculated(level, layer)]
<1>1. /\ input' = input /\ avxs' = avxs /\ fm' = fm /\ gul_idx' = gul_idx /\ guls' = guls
      /\ agg_vecs' = Proportioned(mid) /\ level \in 1 .. (fm.levels - 1) /\ NextLayer
    BY DEF CalcLevel, fm, guls
<1>2. /\ input \in Cases /\ fm.levels \in Nat \ {0} /\ max_layer(fm) \in Nat \ {0}
      /\ level \in 1 .. fm.levels /\ level < fm.levels /\ level > 0 /\ level \in Nat \ {0}
      /\ level + 1 \in 1 .. fm.levels /\ level + 1 \in 0 .. fm.levels
      /\ avxs = Avxs(fm, input.items)
    <2>1. input \in Cases /\ avxs = Avxs(fm, input.items)
        BY DEF IInv
    <2>2. fm.levels \in Nat \ {0} /\ max_layer(fm) \in Nat \ {0}
          /\ input.event_guls \in Seq([DOMAIN input.items -> Nat])
        BY <2>1, CaseFacts DEF fm
    <2> HIDE DEF mid
    <2> QED BY <1>1, <2>1, <2>2
<1>3. MaxLayer(fm, level) = 1 /\ layer = 1
    BY <1>2, LayerLevel DEF IInv, Counters
<1>4. level' = level + 1 /\ layer' = 1
    BY <1>1, <1>3 DEF NextLayer
<1> HIDE DEF mid
<1>5. KeepsAll(mid, Proportioned(mid))
    <2>1. /\ DOMAIN agg_vecs = 0 .. fm.levels
          /\ \A l \in 0 .. fm.levels : DOMAIN agg_vecs[l] = 1 .. max_layer(fm)
        BY DEF IInv, Stored
    <2>2. /\ \A l \in 1 .. level : l \in DOMAIN mid /\ 1 \in DOMAIN mid[l]
          /\ layer \in DOMAIN mid[level]
        BY <1>2, <1>3, <2>1 DEF mid
    <2> QED BY <1>2, <2>2, ProportionedKeeps
<1>6. /\ Stored(fm, avxs, agg_vecs')
      /\ agg_vecs'[0] = agg_vecs[0]
      /\ \A l \in 1 .. fm.levels : \A k \in 1 .. MaxLayer(fm, l) :
            l < level \/ (l = level /\ k <= layer) => HoldsLayer(fm, avxs, guls, agg_vecs', l, k)
    BY <1>1, <1>2, <1>5, CallKeeps DEF mid
<1>7. Counters'
    <2>1. MaxLayer(fm, level + 1) \in Nat \ {0}
        BY <1>2, LayerLevel
    <2>2. /\ gul_idx \in 1 .. (Len(input.event_guls) + 1)
          /\ gul_idx <= Len(input.event_guls) /\ (gul_idx <= 2 \/ gulhasvalue(guls))
        BY <1>2 DEF IInv, Counters
    <2> QED BY <1>1, <1>2, <1>4, <2>1, <2>2 DEF Counters
<1>8. HoldsRow(avxs, guls, agg_vecs'[0][1])
    BY <1>2, <1>6 DEF IInv
<1>9. LastRow' = gul_idx
    BY <1>1, <1>2, <1>4 DEF LastRow
<1>10. ASSUME NEW l \in 1 .. fm.levels, NEW k \in 1 .. MaxLayer(fm, l), IsDone(l, k)'
       PROVE  l < level \/ (l = level /\ k <= layer)
    <2>1. l < level + 1 \/ (l = level + 1 /\ k < 1)
        BY <1>2, <1>4, <1>10 DEF IsDone
    <2>2. MaxLayer(fm, l) \in Nat \ {0}
        BY LayerLevel
    <2>3. l < level \/ l = level
        BY <1>2, <2>1, <2>2
    <2>4. l = level => k <= layer
        BY <1>3
    <2> QED BY <2>3, <2>4
<1>11. \A l \in 1 .. fm.levels : \A k \in 1 .. MaxLayer(fm, l) :
          IsDone(l, k)' => HoldsLayer(fm, avxs, guls, agg_vecs', l, k)
    BY <1>6, <1>10
<1>12. (input.event_guls[LastRow])' = guls
    BY <1>1, <1>9 DEF guls
<1> QED BY <1>1, <1>2, <1>6, <1>7, <1>8, <1>11, <1>12 DEF IInv

\* A call on the last level, with its allocation.
LEMMA CalcLastInv == IInv /\ CalcLast => IInv'
<1> SUFFICES ASSUME IInv, CalcLast PROVE IInv'
    OBVIOUS
<1> DEFINE mid == [agg_vecs EXCEPT ![level][layer] = Calculated(level, layer)]
           vecs == Netted(Proportioned(mid))
<1>1. /\ input' = input /\ avxs' = avxs /\ fm' = fm /\ level = fm.levels
      /\ \/ /\ layer < max_layer(fm) /\ layer' = layer + 1 /\ agg_vecs' = vecs
            /\ level' = level /\ gul_idx' = gul_idx
         \/ /\ ~(layer < max_layer(fm)) /\ level' = 0 /\ layer' = 1 /\ gul_idx' = gul_idx + 1
            /\ agg_vecs' = [vecs EXCEPT ![0][1] = <<>>]
    BY DEF CalcLast, fm
<1>2. /\ input \in Cases /\ fm.levels \in Nat \ {0} /\ max_layer(fm) \in Nat \ {0}
      /\ level \in 1 .. fm.levels /\ level > 0 /\ level # 0 /\ level \in Nat \ {0}
      /\ avxs = Avxs(fm, input.items)
      /\ input.event_guls \in Seq([DOMAIN input.items -> Nat])
    <2>1. input \in Cases /\ avxs = Avxs(fm, input.items)
        BY DEF IInv
    <2>2. fm.levels \in Nat \ {0} /\ max_layer(fm) \in Nat \ {0}
          /\ input.event_guls \in Seq([DOMAIN input.items -> Nat])
        BY <2>1, CaseFacts DEF fm
    <2> HIDE DEF mid
    <2> QED BY <1>1, <2>1, <2>2
<1>3. MaxLayer(fm, level) = max_layer(fm)
    BY <1>1, <1>2, LayerLevel
<1>4. /\ layer \in 1 .. max_layer(fm) /\ gul_idx \in 1 .. Len(input.event_guls)
      /\ gul_idx <= 2 \/ gulhasvalue(guls)
    BY <1>2, <1>3 DEF IInv, Counters
<1> HIDE DEF mid
<1>5. KeepsAll(mid, vecs)
    <2>1. /\ DOMAIN agg_vecs = 0 .. fm.levels
          /\ \A l \in 0 .. fm.levels : DOMAIN agg_vecs[l] = 1 .. max_layer(fm)
        BY DEF IInv, Stored
    <2>2. /\ \A l \in 1 .. level : l \in DOMAIN mid /\ 1 \in DOMAIN mid[l]
          /\ layer \in DOMAIN mid[level] /\ level \in DOMAIN mid
        BY <1>2, <1>4, <2>1 DEF mid
    <2>3. KeepsAll(mid, Proportioned(mid))
        BY <1>2, <2>2, ProportionedKeeps
    <2>4. level \in DOMAIN Proportioned(mid) /\ layer \in DOMAIN Proportioned(mid)[level]
        BY <2>2, <2>3 DEF KeepsAll
    <2>5. KeepsAll(Proportioned(mid), vecs)
        BY <1>2, <2>4, NettedKeeps
    <2> QED BY <2>3, <2>5, KeepsAllTrans
<1> HIDE DEF vecs
<1>6. /\ Stored(fm, avxs, vecs)
      /\ vecs[0] = agg_vecs[0]
      /\ \A l \in 1 .. fm.levels : \A k \in 1 .. MaxLayer(fm, l) :
            l < level \/ (l = level /\ k <= layer) => HoldsLayer(fm, avxs, guls, vecs, l, k)
    BY <1>2, <1>5, CallKeeps DEF mid
<1>7. CASE /\ layer < max_layer(fm) /\ layer' = layer + 1 /\ agg_vecs' = vecs
           /\ level' = level /\ gul_idx' = gul_idx
    <2>1. guls' = guls
        BY <1>1, <1>7 DEF guls
    <2>2. Counters'
        <3>1. layer + 1 \in 1 .. max_layer(fm) /\ gul_idx \in 1 .. (Len(input.event_guls) + 1)
              /\ gul_idx <= Len(input.event_guls)
            BY <1>2, <1>4, <1>7
        <3>2. level \in 0 .. fm.levels
            BY <1>2
        <3> QED BY <1>1, <1>2, <1>3, <1>4, <1>7, <2>1, <3>1, <3>2 DEF Counters
    <2>3. HoldsRow(avxs, guls, agg_vecs'[0][1])
        BY <1>2, <1>6, <1>7 DEF IInv
    <2>4. LastRow' = gul_idx
        BY <1>2, <1>7 DEF LastRow
    <2>5. ASSUME NEW l \in 1 .. fm.levels, NEW k \in 1 .. MaxLayer(fm, l), IsDone(l, k)'
          PROVE  l < level \/ (l = level /\ k <= layer)
        <3>1. l < level \/ (l = level /\ k < layer + 1)
            BY <1>2, <1>7, <2>5 DEF IsDone
        <3>2. MaxLayer(fm, l) \in Nat \ {0}
            BY LayerLevel
        <3> QED BY <1>4, <3>1, <3>2
    <2>6. \A l \in 1 .. fm.levels : \A k \in 1 .. MaxLayer(fm, l) :
             IsDone(l, k)' => HoldsLayer(fm, avxs, guls, agg_vecs', l, k)
        BY <1>6, <1>7, <2>5
    <2>7. (input.event_guls[LastRow])' = guls
        BY <1>1, <2>4 DEF guls
    <2>8. Stored(fm, avxs, agg_vecs')
        BY <1>6, <1>7
    <2> QED BY <1>1, <1>2, <2>1, <2>2, <2>3, <2>6, <2>7, <2>8 DEF IInv
<1>8. CASE /\ ~(layer < max_layer(fm)) /\ level' = 0 /\ layer' = 1 /\ gul_idx' = gul_idx + 1
           /\ agg_vecs' = [vecs EXCEPT ![0][1] = <<>>]
    <2>1. layer = max_layer(fm)
        BY <1>2, <1>4, <1>8
    <2>2. Counters'
        <3>1. gul_idx + 1 \in 1 .. (Len(input.event_guls) + 1) /\ 0 \in 0 .. fm.levels
            BY <1>2, <1>4
        <3> QED BY <1>1, <1>8, <3>1 DEF Counters
    <2>3. /\ DOMAIN agg_vecs' = 0 .. fm.levels
          /\ \A l \in 0 .. fm.levels : DOMAIN agg_vecs'[l] = 1 .. max_layer(fm)
          /\ \A l \in 1 .. fm.levels : agg_vecs'[l] = vecs[l]
        <3>1. /\ DOMAIN vecs = 0 .. fm.levels
              /\ \A l \in 0 .. fm.levels : DOMAIN vecs[l] = 1 .. max_layer(fm)
            BY <1>6 DEF Stored
        <3>2. 0 \in 0 .. fm.levels
            BY <1>2
        <3>3. /\ DOMAIN agg_vecs' = DOMAIN vecs
              /\ agg_vecs'[0] = [vecs[0] EXCEPT ![1] = <<>>]
              /\ \A l \in DOMAIN vecs : l # 0 => agg_vecs'[l] = vecs[l]
            BY <1>8, <3>1, <3>2
        <3>4. DOMAIN agg_vecs'[0] = 1 .. max_layer(fm)
            BY <3>1, <3>2, <3>3
        <3>5. \A l \in 1 .. fm.levels : l \in DOMAIN vecs /\ l # 0
            BY <3>1
        <3> QED BY <3>1, <3>3, <3>4, <3>5
    <2>4. Stored(fm, avxs, agg_vecs')
        BY <1>6, <2>3 DEF Stored
    <2>5. LastRow' = gul_idx
        <3>1. gul_idx \in Nat \ {0}
            BY <1>4
        <3>2. gul_idx' - 1 = gul_idx /\ gul_idx \in Nat \ {0} /\ level' = 0
            BY <1>8, <3>1
        <3>3. LastFull(input.event_guls, gul_idx) = gul_idx
            BY <1>4, <3>2, LastFullIs DEF guls
        <3> QED BY <1>1, <3>2, <3>3, LastRowNext
    <2>6. ASSUME NEW l \in 1 .. fm.levels, NEW k \in 1 .. MaxLayer(fm, l)
          PROVE  l < level \/ (l = level /\ k <= layer)
        <3>1. l < level \/ l = level
            BY <1>1, <1>2, SMT
        <3>2. l = level => k <= layer
            BY <1>2, <1>3, <2>1
        <3> QED BY <3>1, <3>2
    <2>7. ASSUME NEW l \in 1 .. fm.levels, NEW k \in 1 .. MaxLayer(fm, l)
          PROVE  HoldsLayer(fm, avxs, guls, agg_vecs', l, k)
        <3>1. HoldsLayer(fm, avxs, guls, vecs, l, k)
            BY <1>6, <2>6
        <3>2. agg_vecs'[l] = vecs[l]
            BY <2>3
        <3> QED BY <3>1, <3>2, Zenon DEF HoldsLayer
    <2>8. (input.event_guls[LastRow])' = guls
        BY <1>1, <2>5 DEF guls
    <2>9. ~(level' > 0)
        BY <1>8
    <2>10. \A l \in 1 .. fm'.levels : \A k \in 1 .. MaxLayer(fm', l) :
                HoldsLayer(fm', avxs', (input.event_guls[LastRow])', agg_vecs', l, k)
        BY <1>1, <2>7, <2>8
    <2>11. Stored(fm', avxs', agg_vecs') /\ input' \in Cases /\ avxs' = Avxs(fm', input'.items)
        BY <1>1, <1>2, <2>4
    <2> QED BY <2>2, <2>9, <2>10, <2>11 DEF IInv
<1> QED BY <1>1, <1>7, <1>8

\* Nothing else touches the vectors.
LEMMA StutterInv == IInv /\ UNCHANGED vars => IInv'
<1> SUFFICES ASSUME IInv, UNCHANGED vars PROVE IInv'
    OBVIOUS
<1>1. /\ input' = input /\ avxs' = avxs /\ gul_idx' = gul_idx /\ level' = level
      /\ layer' = layer /\ agg_vecs' = agg_vecs /\ fm' = fm
    BY DEF vars, fm
<1>2. guls' = guls
    BY <1>1 DEF guls
<1>3. LastRow' = LastRow
    BY <1>1 DEF LastRow, Passed
<1>4. \A l, k : IsDone(l, k)' <=> IsDone(l, k)
    BY <1>1, <1>3 DEF IsDone
<1>5. Counters'
    <2>1. Counters
        BY DEF IInv
    <2> QED BY <1>1, <1>2, <2>1 DEF Counters
<1> QED BY <1>1, <1>2, <1>3, <1>4, <1>5 DEF IInv

\* What the invariant says of a vector, as the property states it.
LEMMA IInvVectors == IInv => VectorsHoldTheSample
<1> SUFFICES ASSUME IInv, NEW l \in 1 .. fm.levels, NEW k \in 1 .. MaxLayer(fm, l), IsDone(l, k)
             PROVE  LET vec == agg_vecs[l][k]
                        folded == Folded(fm, avxs, input.event_guls[LastRow], l, k)
                    IN  /\ {vec[n].agg_id : n \in DOMAIN vec} \ {0} = Nodes(l)
                        /\ \A n \in DOMAIN vec : vec[n].agg_id # 0 =>
                              Figures(vec[n]) = Figures(folded[vec[n].agg_id])
    BY DEF VectorsHoldTheSample
<1> DEFINE vec == agg_vecs[l][k]
           folded == Folded(fm, avxs, input.event_guls[LastRow], l, k)
           nodes == avxs[l]
           size == MaxAgg(fm, l)
<1>1. IsFilled(fm, nodes, size, folded, vec, l, k)
    BY DEF IInv, HoldsLayer
<1>2. size \in Nat /\ AreNodes(nodes, size)
    <2>1. input \in Cases /\ avxs = Avxs(fm, input.items)
        BY DEF IInv
    <2>2. IsLevel(fm, avxs, l)
        BY <2>1, LevelsAre DEF fm
    <2> QED BY <2>2 DEF IsLevel
<1> HIDE DEF vec, folded, nodes, size
<1>3. DOMAIN vec = 1 .. size
    BY <1>1, <1>2, VectorLen DEF IsFilled
<1>4. \A n \in DOMAIN nodes : n \in 1 .. size /\ nodes[n].agg_id # 0
    BY <1>2 DEF AreNodes
<1>5. ASSUME NEW n \in DOMAIN nodes
      PROVE  /\ vec[n].agg_id = nodes[n].agg_id
             /\ Figures(vec[n]) = Figures(folded[nodes[n].agg_id])
    <2>1. Alike(nodes[n].agg_id, ProfileOf(fm, l, nodes[n].agg_id, k),
                folded[nodes[n].agg_id], vec[n])
        BY <1>1, <1>4 DEF IsFilled
    <2>2. {"loss", "retained_loss", "effective_deductible", "over_limit", "under_limit"} \subseteq Amounts
        BY DEF Amounts
    <2>3. vec[n].agg_id = nodes[n].agg_id
        BY <2>1, AlikeFacts
    <2>4. \A i \in Amounts : vec[n][i] = folded[nodes[n].agg_id][i]
        BY <2>1, Zenon DEF Alike
    <2>5. Figures(vec[n]) = Figures(folded[nodes[n].agg_id])
        BY <2>2, <2>4 DEF Figures
    <2> QED BY <2>3, <2>5
<1>6. \A n \in 1 .. size : n \notin DOMAIN nodes => vec[n].agg_id = 0
    BY <1>1, BlankFacts DEF IsFilled
<1>7. {vec[n].agg_id : n \in DOMAIN vec} \ {0} = AggIds(nodes)
    BY <1>3, <1>4, <1>5, <1>6 DEF AggIds
<1>8. \A n \in DOMAIN vec : vec[n].agg_id # 0 => Figures(vec[n]) = Figures(folded[vec[n].agg_id])
    BY <1>3, <1>5, <1>6
<1> QED BY <1>7, <1>8 DEF vec, folded, nodes, Nodes

\* The vectors that the layers, the levels and the samples of an event share
\* hold what the row the loop is at gives, whatever the programme: dofmcalc_r
\* clears, adds up and calculates each of them from the level below alone.
THEOREM VectorsHold == Spec => []VectorsHoldTheSample
<1>1. Init => IInv
    BY InitInv
<1>2. IInv /\ [Next]_vars => IInv'
    BY NextSampleInv, CalcLevelInv, CalcLastInv, StutterInv DEF Next
<1>3. IInv => VectorsHoldTheSample
    BY IInvVectors
<1> QED BY <1>1, <1>2, <1>3, PTL DEF Spec
-----------------------------------------------------------------------------
(* The account of the retained loss *)

\* y comes from x and still knows what the layer before retained.
ComesFrom(x, y) ==
    IsRecord(y) /\ y.previous_layer_retained_loss = x.previous_layer_retained_loss
\* On the first layer y divides what x had into loss and retained loss; on the
\* others it takes its loss from what the layer before retained.
Accounts(x, y, lay) ==
    /\ ComesFrom(x, y)
    /\ IF lay > 1 THEN y.retained_loss = x.previous_layer_retained_loss - y.loss
                  ELSE y.loss + y.retained_loss = x.loss + x.retained_loss

\* The fields of a record.
LEMMA RecordFields ==
    ASSUME NEW x, IsRecord(x)
    PROVE  /\ x.loss \in Int /\ x.retained_loss \in Int
           /\ x.previous_layer_retained_loss \in Int
BY SMT DEF IsRecord, Amounts

\* A record is like itself.
LEMMA LikeItself ==
    ASSUME NEW x, IsRecord(x)
    PROVE  Alike(x.agg_id, x.policytc_id, x, x)
BY Zenon DEF Alike, IsOf

\* Retained keeps the account.
LEMMA RetainedAccounts ==
    ASSUME NEW x, IsRecord(x), NEW y, ComesFrom(x, y), NEW lay
    PROVE  Accounts(x, Retained(x, y, lay), lay)
BY SMT, RecordFields DEF Accounts, ComesFrom, Retained, IsRecord, Amounts, Fields

\* What comes before Retained leaves the account alone.
LEMMA RecordComes ==
    ASSUME NEW x, IsRecord(x), NEW y, ComesFrom(x, y)
    PROVE  /\ \A d \in Int : ComesFrom(x, [y EXCEPT !.loss = d])
           /\ \A d \in Int : ComesFrom(x, Deducted(y, d))
           /\ \A p \in PolicyTerms : ComesFrom(x, InLayer(y, p))
           /\ \A p \in PolicyTerms, d \in Int : ComesFrom(x, Placed(y, p, d))
           /\ \A most, lim \in Int : ComesFrom(x, Limited(x, y, most, lim))
<1>1. Alike(y.agg_id, y.policytc_id, y, y) /\ Alike(x.agg_id, x.policytc_id, x, x)
    BY LikeItself DEF ComesFrom
<1>2. IsRecord(y) /\ y.previous_layer_retained_loss = x.previous_layer_retained_loss
    BY DEF ComesFrom
<1>3. ASSUME NEW d \in Int PROVE ComesFrom(x, [y EXCEPT !.loss = d])
    BY <1>2, SMT DEF ComesFrom, IsRecord, Amounts, Fields
<1>4. ASSUME NEW d \in Int PROVE ComesFrom(x, Deducted(y, d))
    <2>1. IsRecord(Deducted(y, d))
        BY <1>1, DeductedAlike DEF Alike
    <2>2. Deducted(y, d).previous_layer_retained_loss = y.previous_layer_retained_loss
        BY <1>2, SMT DEF Deducted, IsRecord, Fields, Amounts
    <2> QED BY <1>2, <2>1, <2>2 DEF ComesFrom
<1>5. ASSUME NEW p \in PolicyTerms PROVE ComesFrom(x, InLayer(y, p))
    <2>1. IsRecord(InLayer(y, p))
        BY <1>1, InLayerAlike DEF Alike
    <2>2. InLayer(y, p).previous_layer_retained_loss = y.previous_layer_retained_loss
        BY <1>2, SMT DEF InLayer, IsRecord, Fields, Amounts
    <2> QED BY <1>2, <2>1, <2>2 DEF ComesFrom
<1>6. ASSUME NEW p \in PolicyTerms, NEW d \in Int PROVE ComesFrom(x, Placed(y, p, d))
    <2>1. IsRecord(Placed(y, p, d))
        BY <1>1, PlacedAlike DEF Alike
    <2>2. Placed(y, p, d).previous_layer_retained_loss = y.previous_layer_retained_loss
        BY <1>2, SMT DEF Placed, IsRecord, Fields, Amounts
    <2> QED BY <1>2, <2>1, <2>2 DEF ComesFrom
<1>7. ASSUME NEW most \in Int, NEW lim \in Int PROVE ComesFrom(x, Limited(x, y, most, lim))
    BY <1>2, RecordFields, SMT DEF Limited, Least, ComesFrom, IsRecord, Amounts, Fields
<1> QED BY <1>3, <1>4, <1>5, <1>6, <1>7

\* Every rule that ends in Retained keeps the account.
LEMMA RuleAccounts ==
    ASSUME NEW x, IsRecord(x), NEW p \in PolicyTerms, NEW lay
    PROVE  /\ Accounts(x, Rule2(x, p, lay), lay)
           /\ Accounts(x, Rule3(x, p, lay), lay)
           /\ Accounts(x, Rule14(x, p, lay), lay)
           /\ Accounts(x, Rule20(x, p, lay), lay)
           /\ Accounts(x, Rule34(x, p, lay), lay)
<1>1. ComesFrom(x, x) /\ x.loss \in Int
    BY RecordFields DEF ComesFrom
<1>2. /\ p.d1 \in Int /\ p.a1 \in Int /\ p.l1 \in Int /\ p.sh1 \in Int
    BY TermsInt
<1>3. \A d \in Int : ComesFrom(x, Deducted(x, d)) /\ IsRecord(Deducted(x, d))
    <2>1. \A d \in Int : ComesFrom(x, Deducted(x, d))
        BY <1>1, RecordComes
    <2> QED BY <2>1 DEF ComesFrom
<1>4. Accounts(x, Rule2(x, p, lay), lay)
    <2>1. ComesFrom(x, InLayer(Deducted(x, p.d1), p))
        BY <1>2, <1>3, RecordComes
    <2> QED BY <2>1, RetainedAccounts DEF Rule2
<1>5. Accounts(x, Rule3(x, p, lay), lay)
    <2> DEFINE d == IF x.loss < p.d1 THEN x.loss ELSE 0
               y == Deducted(x, d)
    <2>1. d \in Int
        BY <1>1
    <2>2. ComesFrom(x, Deducted(x, d))
        BY <1>3, <2>1
    <2>3. Rule3(x, p, lay) = Retained(x, Limited(x, y, p.l1, p.l1), lay)
        BY DEF Rule3
    <2> HIDE DEF d, y
    <2>4. ComesFrom(x, Limited(x, y, p.l1, p.l1))
        BY <1>2, <2>2, RecordComes DEF y
    <2> QED BY <2>3, <2>4, RetainedAccounts
<1>6. Accounts(x, Rule14(x, p, lay), lay)
    BY <1>1, <1>2, RecordComes, RetainedAccounts DEF Rule14
<1>7. Accounts(x, Rule20(x, p, lay), lay)
    <2> DEFINE d == IF x.loss > p.d1 THEN 0 ELSE x.loss
    <2>1. d \in Int
        BY <1>1
    <2>2. Rule20(x, p, lay) = Retained(x, [x EXCEPT !.loss = d], lay)
        BY DEF Rule20
    <2> HIDE DEF d
    <2> QED BY <1>1, <2>1, <2>2, RecordComes, RetainedAccounts
<1>8. Accounts(x, Rule34(x, p, lay), lay)
    <2> PICK y : y = Deducted(x, p.d1)
        OBVIOUS
    <2>1. ComesFrom(x, y) /\ IsRecord(y)
        BY <1>2, <1>3
    <2>2. Clamped(y.loss - p.a1) \in Int
        BY <1>2, <2>1, RecordFields DEF Clamped
    <2> PICK d : d = Part(Clamped(y.loss - p.a1), p.sh1)
        OBVIOUS
    <2>3. d \in Int
        BY <1>2, <2>2, PartType
    <2>4. Rule34(x, p, lay) = Retained(x, [y EXCEPT !.loss = d], lay)
        BY DEF Rule34
    <2> QED BY <2>1, <2>3, <2>4, RecordComes, RetainedAccounts
<1> QED BY <1>4, <1>5, <1>6, <1>7, <1>8

\* So do the rules that place a part of what they cede.
LEMMA PlacedAccounts ==
    ASSUME NEW x, IsRecord(x), NEW p \in PolicyTerms, NEW lay
    PROVE  /\ Accounts(x, Rule22(x, p, lay), lay)
           /\ Accounts(x, Rule23(x, p, lay), lay)
           /\ Accounts(x, Rule24(x, p, lay), lay)
           /\ Accounts(x, Rule25(x, p, lay), lay)
<1>1. ComesFrom(x, x) /\ x.loss \in Int
    BY RecordFields DEF ComesFrom
<1>2. /\ p.a1 \in Int /\ p.l1 \in Int /\ p.sh1 \in Int
    BY TermsInt
<1>3. ASSUME NEW d \in Int
      PROVE  Accounts(x, Retained(x, Placed(x, p, d), lay), lay)
    BY <1>1, RecordComes, RetainedAccounts
<1>4. Part(x.loss, p.sh1) \in Int
    BY <1>1, <1>2, PartType
<1>5. /\ Clamped(Least(Part(x.loss, p.sh1), p.l1)) \in Int
      /\ Clamped(Least(x.loss, p.l1)) \in Int
      /\ Least(Clamped(Part(x.loss, p.sh1) - p.a1), p.l1) \in Int
    BY <1>1, <1>2, <1>4 DEF Clamped, Least
<1> QED BY <1>3, <1>4, <1>5, Zenon DEF Rule22, Rule23, Rule24, Rule25

\* Rule 12 keeps the account of the first layer.
LEMMA Rule12Accounts ==
    ASSUME NEW x, IsRecord(x), NEW p \in PolicyTerms
    PROVE  Accounts(x, Rule12(x, p), 1)
<1>1. ComesFrom(x, x) /\ x.loss \in Int /\ x.retained_loss \in Int
    BY RecordFields DEF ComesFrom
<1>2. p.d1 \in Int
    BY TermsInt
<1> PICK y : y = Retained(x, Deducted(x, p.d1), 1)
    OBVIOUS
<1>3. Accounts(x, y, 1)
    BY <1>1, <1>2, RecordComes, RetainedAccounts
<1>4. Rule12(x, p) = IF x.loss > 0 THEN Widened(x, y) ELSE x
    BY DEF Rule12
<1>5. Accounts(x, x, 1)
    BY <1>1 DEF Accounts
<1>6. Accounts(x, Widened(x, y), 1)
    BY <1>1, <1>3, RecordFields, SMT DEF Accounts, ComesFrom, Widened, IsRecord, Amounts, Fields
<1> QED BY <1>4, <1>5, <1>6

-----------------------------------------------------------------------------
(* The rules that a programme may use on a level *)

\* The rules that keep the account: all of them on the first layer, and on the
\* others those that are allowed on the last level.
Keeping(stepped, low) ==
    (IF stepped THEN {2, 14, 34} ELSE {2, 3, 14, 20, 22, 23, 24, 25, 34})
        \cup (IF low THEN {12, 100} ELSE {})

\* A record that is left as it is keeps the account of the first layer.
LEMMA SameAccounts ==
    ASSUME NEW x, IsRecord(x)
    PROVE  Accounts(x, x, 1)
BY RecordFields DEF Accounts, ComesFrom

\* One rule.
LEMMA CalcRuleAccounts ==
    ASSUME NEW x, IsRecord(x), NEW p \in PolicyTerms, NEW lay, NEW low \in BOOLEAN,
           low => lay = 1, p.calcrule \in Keeping(FALSE, low)
    PROVE  Accounts(x, applycalcrule(p, x, lay), lay)
<1>1. p.calcrule \in {2, 3, 14, 20, 22, 23, 24, 25, 34} \/ (low /\ p.calcrule \in {12, 100})
    BY DEF Keeping
<1>2. CASE p.calcrule \in {2, 3, 14, 20, 34}
    BY <1>2, RuleAccounts DEF applycalcrule
<1>3. CASE p.calcrule \in {22, 23, 24, 25}
    BY <1>3, PlacedAccounts DEF applycalcrule
<1>4. CASE low /\ p.calcrule = 12
    BY <1>4, Rule12Accounts DEF applycalcrule
<1>5. CASE low /\ p.calcrule = 100
    BY <1>5, SameAccounts DEF applycalcrule
<1> QED BY <1>1, <1>2, <1>3, <1>4, <1>5

\* One step of a stepped policy.
LEMMA SteppedRuleAccounts ==
    ASSUME NEW x, IsRecord(x), NEW p \in PolicyTerms, NEW lay, NEW low \in BOOLEAN,
           low => lay = 1, p.calcrule \in Keeping(TRUE, low), NEW last
    PROVE  Accounts(x, applycalcrule_stepped(p, x, lay, last), lay)
<1>1. p.calcrule \in {2, 14, 34} \/ (low /\ p.calcrule \in {12, 100})
    BY DEF Keeping
<1>2. CASE p.calcrule \in {2, 14, 34}
    BY <1>2, RuleAccounts DEF applycalcrule_stepped
<1>3. CASE low /\ p.calcrule = 12
    <2> PICK y : y = Rule12(x, p)
        OBVIOUS
    <2>1. Accounts(x, y, 1) /\ x.under_limit \in Int
        BY Rule12Accounts, SMT DEF IsRecord, Amounts
    <2>2. Accounts(x, [y EXCEPT !.under_limit = x.under_limit], 1)
        BY <2>1, SMT DEF Accounts, ComesFrom, IsRecord, Amounts, Fields
    <2> QED BY <1>3, <2>2 DEF applycalcrule_stepped
<1>4. CASE low /\ p.calcrule = 100
    BY <1>4, SameAccounts DEF applycalcrule_stepped
<1> QED BY <1>1, <1>2, <1>3, <1>4

\* Two rules that keep the account keep it one after the other.
LEMMA AccountsTwice ==
    ASSUME NEW x, IsRecord(x), NEW y, NEW z, NEW lay, Accounts(y, z, lay),
           Accounts(x, y, lay) \/ y = x
    PROVE  Accounts(x, z, lay)
BY RecordFields, SMT DEF Accounts, ComesFrom

\* All the steps of a policy.
LEMMA StepsAccount ==
    ASSUME NEW x, IsRecord(x), NEW steps \in Seq(PolicyTerms) \ {<<>>}, NEW lay,
           NEW low \in BOOLEAN, low => lay = 1,
           \A s \in Range(steps) : s.calcrule \in Keeping(TRUE, low)
    PROVE  Accounts(x, StepByStep(steps, x, lay), lay)
<1> DEFINE env == <<steps, lay>>
           n == Len(steps)
<1>1. n \in Nat \ {0} /\ DOMAIN steps = 1 .. n
    OBVIOUS
<1>2. PICK f : f = Steps!Recursion(env, x, 0, n)
    OBVIOUS
<1>3. StepByStep(steps, x, lay) = f[n]
    BY <1>2 DEF StepByStep, Steps!Recursion, StepOf
<1>4. Steps!Follows(f, env, x, 0, n)
    <2>1. 0 \in Nat /\ n \in Nat /\ 0 <= n
        BY <1>1
    <2> QED BY <1>2, <2>1, Steps!RecursionSteps
<1>5. f[0] = x
    BY <1>4 DEF Steps!Follows
<1>6. ASSUME NEW i \in 0 .. n, i < n
      PROVE  /\ f[i + 1] = applycalcrule_stepped(steps[i + 1], f[i], lay, i + 1 = n)
             /\ steps[i + 1] \in PolicyTerms
             /\ steps[i + 1].calcrule \in Keeping(TRUE, low)
    <2>1. i + 1 \in 0 .. n /\ i + 1 # 0 /\ (i + 1) - 1 = i /\ i + 1 \in 1 .. n
        BY <1>1, <1>6
    <2>2. f[i + 1] = StepOf(env, f[i], i + 1)
        BY <1>4, <2>1 DEF Steps!Follows
    <2>3. steps[i + 1] \in Range(steps)
        BY <1>1, <2>1 DEF Range
    <2>4. steps[i + 1] \in PolicyTerms
        BY <1>1, <2>1
    <2>5. f[i + 1] = applycalcrule_stepped(steps[i + 1], f[i], lay, i + 1 = n)
        BY <2>2, Zenon DEF StepOf
    <2> QED BY <2>3, <2>4, <2>5, Zenon
<1> DEFINE S == {i \in 0 .. n : i = 0 \/ Accounts(x, f[i], lay)}
<1>7. 0 \in S
    BY <1>1
<1>8. ASSUME NEW i \in 0 .. n, i \in S, i < n
      PROVE  i + 1 \in S
    <2>1. (Accounts(x, f[i], lay) \/ f[i] = x) /\ i + 1 \in 0 .. n
        BY <1>1, <1>5, <1>8
    <2>2. IsRecord(f[i])
        BY <2>1 DEF Accounts, ComesFrom
    <2>3. Accounts(f[i], applycalcrule_stepped(steps[i + 1], f[i], lay, i + 1 = n), lay)
        BY <1>6, <1>8, <2>2, SteppedRuleAccounts, Zenon
    <2>4. Accounts(f[i], f[i + 1], lay)
        BY <1>6, <1>8, <2>3, Zenon
    <2>5. Accounts(x, f[i + 1], lay)
        BY <2>1, <2>4, AccountsTwice
    <2> QED BY <2>1, <2>5
<1> HIDE DEF S, n, env
<1>9. \A i \in 0 .. n : i \in S
    <2>1. 0 \in Nat /\ n \in Nat
        BY <1>1
    <2> QED BY <1>7, <1>8, <2>1, Steps!Induction
<1>10. n \in 0 .. n /\ n # 0
    BY <1>1
<1> QED BY <1>3, <1>9, <1>10 DEF S

\* The terms of a node keep the account, unless it has no loss at all.
LEMMA RuledAccounts ==
    ASSUME NEW x, IsRecord(x), NEW stepped \in BOOLEAN, NEW lay, NEW low \in BOOLEAN,
           low => lay = 1, x.agg_id # 0, x.policytc_id \in Profiles,
           \A s \in Range(x.policytc_id) : s.calcrule \in Keeping(stepped, low),
           lay > 1 => x.loss > 0 \/ x.retained_loss > 0, lay \in Nat \ {0}
    PROVE  Accounts(x, Ruled(stepped, x, lay), lay)
<1>1. CASE x.policytc_id = Noop
    <2>1. Noop[1] \in Range(Noop) /\ Noop[1].calcrule = 100
        BY DEF Noop, Range
    <2>2. low
        BY <1>1, <2>1 DEF Keeping
    <2>3. Ruled(stepped, x, lay) = x
        BY <1>1 DEF Ruled
    <2> QED BY <2>2, <2>3, SameAccounts
<1>2. CASE x.policytc_id \in Seq(PolicyTerms) \ {<<>>} /\ x.policytc_id # Noop
    <2> PICK t : t = x.policytc_id
        OBVIOUS
    <2>1. t[1] \in PolicyTerms /\ t[1] \in Range(t) /\ t \in Seq(PolicyTerms) \ {<<>>}
        BY <1>2 DEF Range
    <2>2. CASE x.loss <= 0 /\ x.retained_loss <= 0
        <3>1. lay = 1 /\ Ruled(stepped, x, lay) = x
            BY <2>2, RecordFields DEF Ruled
        <3> QED BY <3>1, SameAccounts
    <2>3. CASE ~(x.loss <= 0 /\ x.retained_loss <= 0)
        <3>1. Ruled(stepped, x, lay) = IF stepped THEN StepByStep(t, x, lay)
                                       ELSE applycalcrule(t[1], x, lay)
            BY <1>2, <2>3, Zenon DEF Ruled, NoProfile
        <3>2. CASE stepped
            <4>1. \A s \in Range(t) : s.calcrule \in Keeping(TRUE, low)
                BY <3>2
            <4> QED BY <2>1, <3>1, <3>2, <4>1, StepsAccount, Zenon
        <3>3. CASE ~stepped
            <4>1. t[1].calcrule \in Keeping(FALSE, low)
                BY <2>1, <3>3
            <4> QED BY <2>1, <3>1, <3>3, <4>1, CalcRuleAccounts, Zenon
        <3> QED BY <3>2, <3>3
    <2> QED BY <2>2, <2>3
<1> QED BY <1>1, <1>2 DEF Profiles

-----------------------------------------------------------------------------
(* Sums of ground up losses *)

\* The sum of two amounts is the sum of their sums.
LEMMA SumPlus ==
    ASSUME NEW S, IsFiniteSet(S), NEW p, NEW q, NEW r,
           \A x \in S : p[x] \in Int /\ q[x] \in Int /\ r[x] = p[x] + q[x]
    PROVE  SumOf(r, S) = SumOf(p, S) + SumOf(q, S)
<1> DEFINE C == {T \in SUBSET S : SumOf(r, T) = SumOf(p, T) + SumOf(q, T)}
<1>1. ASSUME NEW T \in SUBSET S, \A x \in T : T \ {x} \in C
      PROVE  T \in C
    <2>1. CASE T = {}
        BY <2>1, SumEmpty
    <2>2. CASE T # {}
        <3> PICK x \in T : TRUE
            BY <2>2
        <3> PICK U : U = T \ {x}
            OBVIOUS
        <3>1. IsFiniteSet(U) /\ x \notin U /\ U \cup {x} = T /\ U \subseteq S
            BY FS_Subset
        <3>2. /\ SumOf(p, T) = SumOf(p, U) + p[x]
              /\ SumOf(q, T) = SumOf(q, U) + q[x]
              /\ SumOf(r, T) = SumOf(r, U) + r[x]
            <4>1. \A y \in U \cup {x} : p[y] \in Int /\ q[y] \in Int /\ r[y] \in Int
                BY <3>1
            <4>2. /\ SumOf(p, U \cup {x}) = SumOf(p, U) + p[x]
                  /\ SumOf(q, U \cup {x}) = SumOf(q, U) + q[x]
                  /\ SumOf(r, U \cup {x}) = SumOf(r, U) + r[x]
                <5>1. SumOf(p, U \cup {x}) = SumOf(p, U) + p[x]
                    BY <3>1, <4>1, SumInsert, Zenon
                <5>2. SumOf(q, U \cup {x}) = SumOf(q, U) + q[x]
                    BY <3>1, <4>1, SumInsert, Zenon
                <5>3. SumOf(r, U \cup {x}) = SumOf(r, U) + r[x]
                    BY <3>1, <4>1, SumInsert, Zenon
                <5> QED BY <5>1, <5>2, <5>3, Zenon
            <4> QED BY <3>1, <4>2, Zenon
        <3>3. SumOf(p, U) \in Int /\ SumOf(q, U) \in Int
            <4>1. \A y \in U : p[y] \in Int /\ q[y] \in Int
                BY <3>1
            <4> QED BY <3>1, <4>1, SumType
        <3>4. SumOf(r, U) = SumOf(p, U) + SumOf(q, U)
            BY <1>1
        <3> QED BY <3>2, <3>3, <3>4
    <2> QED BY <2>1, <2>2
<1>2. \A T \in SUBSET S : T \in C
    <2> HIDE DEF C
    <2>1. \A T \in SUBSET S : (\A x \in T : T \ {x} \in C) => T \in C
        BY <1>1
    <2>2. Sums!IsFiniteSet(S)
        BY DEF IsFiniteSet, Sums!IsFiniteSet
    <2> QED BY <2>1, <2>2, Sums!SetInduction, Zenon
<1> QED BY <1>2

\* The ground up losses of some items.
Ground(row, idx) == Sums!OverSeq(row, 0, idx)
\* A sequence of items with a loss in the row.
IsIdx(row, idx) ==
    \E m \in Nat : IsVector(idx, m) /\ \A i \in 1 .. m : row[idx[i]] \in Int

\* The ground up losses add up along the items.
Runs(acc, row, idx, m) ==
    /\ acc[0] = 0
    /\ \A i \in 1 .. m : acc[i] = acc[i - 1] + row[idx[i]]

\* acc adds them up.
AddsUp(acc, row, idx, m) == Runs(acc, row, idx, m) /\ Ground(row, idx) = acc[m]

\* The ground up losses of a sequence of items add up to their ground up loss.
LEMMA GroundRuns ==
    ASSUME NEW row, NEW m \in Nat, NEW idx, DOMAIN idx = 1 .. m
    PROVE  \E acc : AddsUp(acc, row, idx, m)
<1>1. PICK acc : Sums!Along(acc, row, 0, idx, m) /\ Sums!OverSeq(row, 0, idx) = acc[m]
    BY Sums!FoldsAlong
<1>2. Runs(acc, row, idx, m)
    BY <1>1 DEF Runs, Sums!Along, PlusOf
<1> QED BY <1>1, <1>2 DEF AddsUp, Ground

\* A sum of ground up losses is an integer.
LEMMA GroundType ==
    ASSUME NEW row, NEW idx, IsIdx(row, idx)
    PROVE  Ground(row, idx) \in Int
<1>1. PICK m \in Nat : IsVector(idx, m) /\ \A i \in 1 .. m : row[idx[i]] \in Int
    BY DEF IsIdx
<1>2. DOMAIN idx = 1 .. m
    BY <1>1, VectorLen
<1>3. PICK acc : AddsUp(acc, row, idx, m)
    BY <1>2, GroundRuns
<1> DEFINE S == {i \in 0 .. m : acc[i] \in Int}
<1>4. 0 \in S
    BY <1>3 DEF AddsUp, Runs
<1>5. ASSUME NEW i \in 0 .. m, i \in S, i < m PROVE i + 1 \in S
    <2>1. i + 1 \in 1 .. m /\ (i + 1) - 1 = i
        BY <1>5
    <2>2. acc[i + 1] = acc[i] + row[idx[i + 1]]
        BY <1>3, <2>1 DEF AddsUp, Runs
    <2> QED BY <1>1, <1>5, <2>1, <2>2
<1> HIDE DEF S
<1>6. \A i \in 0 .. m : i \in S
    BY <1>4, <1>5, Sums!Induction
<1> QED BY <1>3, <1>6 DEF S, AddsUp

\* r is s with t behind it.
IsConcat(r, s, m, t, n) ==
    /\ IsVector(r, m + n) /\ DOMAIN r = 1 .. (m + n)
    /\ \A k \in 1 .. m : r[k] = s[k]
    /\ \A k \in 1 .. n : r[m + k] = t[k]

\* Two vectors, one behind the other.
LEMMA ConcatIs ==
    ASSUME NEW m \in Nat, NEW s, IsVector(s, m), NEW n \in Nat, NEW t, IsVector(t, n)
    PROVE  IsConcat(s \o t, s, m, t, n)
<1> DEFINE T == {s[k] : k \in 1 .. m} \cup {t[k] : k \in 1 .. n}
<1>1. s \in [1 .. m -> T] /\ t \in [1 .. n -> T]
    BY DEF IsVector
<1> HIDE DEF T
<1>2. s \in Seq(T) /\ t \in Seq(T) /\ Len(s) = m /\ Len(t) = n
    BY <1>1, VectorLen
<1>3. /\ s \o t \in Seq(T) /\ Len(s \o t) = m + n
      /\ \A k \in 1 .. m : (s \o t)[k] = s[k]
      /\ \A k \in 1 .. n : (s \o t)[m + k] = t[k]
    BY <1>2
<1> PICK r : r = s \o t
    OBVIOUS
<1>4. r \in [1 .. (m + n) -> T]
    BY <1>3, LenProperties
<1>5. r = [k \in 1 .. (m + n) |-> r[k]] /\ DOMAIN r = 1 .. (m + n)
    BY <1>4
<1> QED BY <1>3, <1>5 DEF IsVector, IsConcat

\* m items with a loss in the row.
HasItems(row, idx, m) == IsVector(idx, m) /\ \A i \in 1 .. m : row[idx[i]] \in Int

\* The items of two sequences have their losses together.
LEMMA GroundJoins ==
    ASSUME NEW row, NEW m \in Nat, NEW s, HasItems(row, s, m),
           NEW n \in Nat, NEW t, HasItems(row, t, n), NEW u, IsConcat(u, s, m, t, n)
    PROVE  IsIdx(row, u) /\ Ground(row, u) = Ground(row, s) + Ground(row, t)
<1>0. /\ IsVector(s, m) /\ \A i \in 1 .. m : row[s[i]] \in Int
      /\ IsVector(t, n) /\ \A i \in 1 .. n : row[t[i]] \in Int
    BY DEF HasItems
<1> PICK p : p = m + n
    OBVIOUS
<1>1. p \in Nat
    OBVIOUS
<1>2. IsIdx(row, s)
    BY <1>0 DEF IsIdx
<1>3. /\ IsVector(u, p) /\ DOMAIN u = 1 .. p
      /\ \A k \in 1 .. m : u[k] = s[k]
      /\ \A k \in 1 .. n : u[m + k] = t[k]
    BY DEF IsConcat
<1>4. DOMAIN s = 1 .. m /\ DOMAIN t = 1 .. n
    BY <1>0, VectorLen
<1>5. PICK a : AddsUp(a, row, s, m)
    BY <1>4, GroundRuns
<1>6. PICK b : AddsUp(b, row, t, n)
    BY <1>4, GroundRuns
<1>7. PICK c : AddsUp(c, row, u, p)
    BY <1>1, <1>3, GroundRuns
<1> DEFINE S == {i \in 0 .. m : c[i] = a[i]}
           T == {i \in 0 .. n : c[m + i] = a[m] + b[i] /\ b[i] \in Int}
<1>8. 0 \in S
    BY <1>5, <1>7 DEF AddsUp, Runs
<1>9. ASSUME NEW i \in 0 .. m, i \in S, i < m PROVE i + 1 \in S
    <2>1. i + 1 \in 1 .. m /\ (i + 1) - 1 = i /\ i + 1 \in 1 .. p
        BY <1>9
    <2>2. a[i + 1] = a[i] + row[s[i + 1]]
        BY <1>5, <2>1 DEF AddsUp, Runs
    <2>3. c[i + 1] = c[i] + row[u[i + 1]]
        BY <1>7, <2>1 DEF AddsUp, Runs
    <2> QED BY <1>0, <1>3, <1>9, <2>1, <2>2, <2>3
<1>10. \A i \in 0 .. m : i \in S
    <2> HIDE DEF S
    <2>1. 0 \in Nat
        OBVIOUS
    <2> QED BY <1>8, <1>9, <2>1, Sums!Induction
<1>11. a[m] \in Int /\ c[m] = a[m]
    <2>1. m \in S
        BY <1>10
    <2> QED BY <1>2, <1>5, <2>1, GroundType DEF AddsUp
<1>12. 0 \in T
    BY <1>6, <1>11 DEF AddsUp, Runs
<1>13. ASSUME NEW i \in 0 .. n, i \in T, i < n PROVE i + 1 \in T
    <2>1. i + 1 \in 1 .. n /\ (i + 1) - 1 = i
        BY <1>13
    <2>2. b[i + 1] = b[i] + row[t[i + 1]]
        BY <1>6, <2>1 DEF AddsUp, Runs
    <2>3. m + (i + 1) \in 1 .. p /\ (m + (i + 1)) - 1 = m + i
        BY <2>1
    <2>4. c[m + (i + 1)] = c[m + i] + row[u[m + (i + 1)]]
        BY <1>7, <2>3 DEF AddsUp, Runs
    <2>5. row[u[m + (i + 1)]] = row[t[i + 1]] /\ row[t[i + 1]] \in Int
        BY <1>0, <1>3, <2>1
    <2>6. c[m + i] = a[m] + b[i] /\ b[i] \in Int
        BY <1>13
    <2> QED BY <1>11, <2>1, <2>2, <2>4, <2>5, <2>6
<1>14. \A i \in 0 .. n : i \in T
    <2> HIDE DEF T
    <2>1. 0 \in Nat
        OBVIOUS
    <2> QED BY <1>12, <1>13, <2>1, Sums!Induction
<1>15. Ground(row, u) = Ground(row, s) + Ground(row, t)
    BY <1>5, <1>6, <1>7, <1>14 DEF AddsUp
<1>16. IsIdx(row, u)
    <2>1. ASSUME NEW k \in 1 .. p PROVE row[u[k]] \in Int
        <3>1. CASE k <= m
            BY <1>0, <1>3, <3>1
        <3>2. CASE k > m
            <4> PICK j : j = k - m
                OBVIOUS
            <4>1. j \in 1 .. n /\ m + j = k
                BY <3>2
            <4>2. u[m + j] = t[j] /\ row[t[j]] \in Int
                BY <1>0, <1>3, <4>1
            <4> QED BY <4>1, <4>2
        <3> QED BY <3>1, <3>2
    <2> QED BY <1>1, <1>3, <2>1 DEF IsIdx
<1> QED BY <1>15, <1>16

\* The items of two nodes have their losses together.
LEMMA GroundConcat ==
    ASSUME NEW row, NEW s, IsIdx(row, s), NEW t, IsIdx(row, t)
    PROVE  IsIdx(row, s \o t) /\ Ground(row, s \o t) = Ground(row, s) + Ground(row, t)
<1>1. PICK m \in Nat : HasItems(row, s, m)
    BY DEF IsIdx, HasItems
<1>2. PICK n \in Nat : HasItems(row, t, n)
    BY DEF IsIdx, HasItems
<1>3. IsVector(s, m) /\ IsVector(t, n)
    BY <1>1, <1>2 DEF HasItems
<1>4. IsConcat(s \o t, s, m, t, n)
    BY <1>3, ConcatIs
<1> PICK u : u = s \o t
    OBVIOUS
<1>5. IsConcat(u, s, m, t, n)
    BY <1>4, Zenon
<1>6. IsIdx(row, u) /\ Ground(row, u) = Ground(row, s) + Ground(row, t)
    BY <1>1, <1>2, <1>5, GroundJoins
<1> QED BY <1>6, Zenon

\* A single item.
LEMMA GroundOne ==
    ASSUME NEW row, NEW i, row[i] \in Int
    PROVE  IsIdx(row, <<i>>) /\ Ground(row, <<i>>) = row[i]
<1> PICK s : s = <<i>>
    OBVIOUS
<1>1. DOMAIN s = 1 .. 1 /\ s[1] = i /\ IsVector(s, 1)
    <2>1. s \in [1 .. 1 -> {i}] /\ s[1] = i
        OBVIOUS
    <2> QED BY <2>1 DEF IsVector
<1>2. PICK acc : AddsUp(acc, row, s, 1)
    <2>1. 1 \in Nat
        OBVIOUS
    <2> QED BY <1>1, <2>1, GroundRuns, Zenon
<1>3. acc[1] = row[i]
    BY <1>1, <1>2 DEF AddsUp, Runs
<1>4. IsIdx(row, s)
    BY <1>1 DEF IsIdx
<1> QED BY <1>2, <1>3, <1>4 DEF AddsUp

-----------------------------------------------------------------------------
(* The nodes of a level have the items of their children *)

\* The ground up losses of the nodes.
GroundOf(row, nodes) ==
    [b \in AggIds(nodes) |-> Ground(row, nodes[VecIdx(nodes, b)].item_idx)]
HaveItems(row, nodes) == \A k \in DOMAIN nodes : IsIdx(row, nodes[k].item_idx)
\* The nodes of acc have the items of those of the first n nodes that are their
\* children.
HaveTheirs(row, g, acc, f, nodes, l, n) ==
    /\ HaveItems(row, acc)
    /\ \A k \in DOMAIN acc :
          Ground(row, acc[k].item_idx) = SumOf(g, KidsUpTo(f, nodes, l, acc[k].agg_id, n))

\* One node more.
LEMMA GroupHasItems ==
    ASSUME NEW row, NEW f, NEW l, NEW nodes, IsNodes(nodes), DOMAIN nodes \subseteq Nat,
           HaveItems(row, nodes), NEW g, g = GroundOf(row, nodes),
           NEW i \in Nat, i + 1 \in DOMAIN nodes,
           NEW acc, IsList(acc), HaveTheirs(row, g, acc, f, nodes, l, i),
           \A j \in DOMAIN nodes : j <= i => f.parent[l][nodes[j].agg_id] \in AggIds(acc)
    PROVE  HaveTheirs(row, g, GroupOf(f.parent[l], acc, nodes[i + 1]), f, nodes, l, i + 1)
<1> DEFINE n == nodes[i + 1]
           b == n.agg_id
           a == f.parent[l][b]
           after == GroupOf(f.parent[l], acc, n)
           Before(x) == KidsUpTo(f, nodes, l, x, i)
           Now(x) == KidsUpTo(f, nodes, l, x, i + 1)
<1>1. IsIdx(row, n.item_idx)
    BY DEF HaveItems
<1>2. b \in AggIds(nodes) /\ VecIdx(nodes, b) = i + 1
    <2>1. b \in AggIds(nodes)
        BY DEF AggIds
    <2>2. \A j \in DOMAIN nodes : nodes[j].agg_id = b => j = VecIdx(nodes, b)
        BY <2>1, IndexOf
    <2> QED BY <2>1, <2>2
<1>3. g[b] = Ground(row, n.item_idx)
    BY <1>2 DEF GroundOf
<1>4. \A y \in AggIds(nodes) : g[y] \in Int
    <2> SUFFICES ASSUME NEW y \in AggIds(nodes) PROVE g[y] \in Int
        OBVIOUS
    <2>1. VecIdx(nodes, y) \in DOMAIN nodes
        BY IndexOf
    <2>2. IsIdx(row, nodes[VecIdx(nodes, y)].item_idx)
        BY <2>1 DEF HaveItems
    <2>3. g[y] = Ground(row, nodes[VecIdx(nodes, y)].item_idx)
        BY DEF GroundOf
    <2> QED BY <2>2, <2>3, GroundType
<1>5. OneMore(Now(a), Before(a), b, AggIds(nodes))
    BY KidsMore
<1>6. SumOf(g, Now(a)) = SumOf(g, Before(a)) + g[b]
    <2> PICK old : old = Before(a)
        OBVIOUS
    <2>1. /\ IsFiniteSet(old) /\ old \subseteq AggIds(nodes)
          /\ Now(a) = old \cup {b} /\ b \notin old
        BY <1>5 DEF OneMore
    <2>2. \A y \in old \cup {b} : g[y] \in Int
        BY <1>2, <1>4, <2>1
    <2>3. SumOf(g, old \cup {b}) = SumOf(g, old) + g[b]
        BY <2>1, <2>2, SumInsert
    <2> QED BY <2>1, <2>3
<1>7. \A x : x # a => Now(x) = Before(x)
    BY KidsSame
<1> HIDE DEF Now, Before
<1>8. CASE \E k \in DOMAIN acc : acc[k].agg_id = a
    <2>1. after = [k \in DOMAIN acc |->
                     IF acc[k].agg_id = a THEN [acc[k] EXCEPT !.item_idx = @ \o n.item_idx]
                     ELSE acc[k]]
        BY <1>8 DEF GroupOf
    <2> HIDE DEF after
    <2>2. ASSUME NEW k \in DOMAIN acc
          PROVE  IsIdx(row, after[k].item_idx)
                 /\ Ground(row, after[k].item_idx) = SumOf(g, Now(after[k].agg_id))
        <3>1. /\ IsIdx(row, acc[k].item_idx) /\ DOMAIN acc[k] = {"agg_id", "item_idx"}
              /\ Ground(row, acc[k].item_idx) = SumOf(g, Before(acc[k].agg_id))
            BY DEF HaveTheirs, HaveItems, IsList, Before
        <3>2. CASE acc[k].agg_id = a
            <4>1. after[k].agg_id = a /\ after[k].item_idx = acc[k].item_idx \o n.item_idx
                BY <2>1, <3>1, <3>2
            <4> QED BY <1>1, <1>3, <1>6, <3>1, <3>2, <4>1, GroundConcat
        <3>3. CASE acc[k].agg_id # a
            BY <1>7, <2>1, <3>1, <3>3
        <3> QED BY <3>2, <3>3
    <2>3. DOMAIN after = DOMAIN acc
        BY <2>1
    <2> QED BY <2>2, <2>3 DEF HaveTheirs, HaveItems, after, Now
<1>9. CASE ~ \E k \in DOMAIN acc : acc[k].agg_id = a
    <2> DEFINE e == [agg_id |-> a, item_idx |-> n.item_idx]
    <2>1. after = Append(acc, e)
        BY <1>9 DEF GroupOf
    <2>2. e.agg_id = a /\ e.item_idx = n.item_idx
        OBVIOUS
    <2> HIDE DEF e, after
    <2>3. PICK m \in Nat : IsVector(acc, m)
        BY DEF IsList
    <2>4. DOMAIN acc = 1 .. m
        BY <2>3, VectorLen
    <2>5. /\ DOMAIN after = 1 .. (m + 1)
          /\ \A k \in 1 .. m : after[k] = acc[k]
          /\ after[m + 1] = e
        BY <2>1, <2>3, AppendIs
    <2>6. Before(a) = {}
        <3>1. a \notin AggIds(acc)
            BY <1>9 DEF AggIds
        <3> QED BY <3>1 DEF KidsUpTo, Before
    <2>7. Ground(row, n.item_idx) = SumOf(g, Now(a))
        <3>1. Ground(row, n.item_idx) \in Int
            BY <1>1, GroundType
        <3> QED BY <1>3, <1>6, <2>6, <3>1, SumEmpty
    <2>8. ASSUME NEW k \in DOMAIN after
          PROVE  IsIdx(row, after[k].item_idx)
                 /\ Ground(row, after[k].item_idx) = SumOf(g, Now(after[k].agg_id))
        <3>1. CASE k = m + 1
            BY <1>1, <2>2, <2>5, <2>7, <3>1
        <3>2. CASE k # m + 1
            <4>1. k \in DOMAIN acc /\ after[k] = acc[k]
                BY <2>4, <2>5, <3>2
            <4>2. /\ IsIdx(row, acc[k].item_idx) /\ acc[k].agg_id # a
                  /\ Ground(row, acc[k].item_idx) = SumOf(g, Before(acc[k].agg_id))
                BY <1>9, <4>1 DEF HaveTheirs, HaveItems, Before
            <4> QED BY <1>7, <4>1, <4>2
        <3> QED BY <3>1, <3>2
    <2> QED BY <2>8 DEF HaveTheirs, HaveItems, after, Now
<1> QED BY <1>8, <1>9

\* Grouping the nodes under their parents brings their items together.
LEMMA GroupedHasItems ==
    ASSUME NEW row, NEW f, NEW l, NEW nodes, IsList(nodes), HaveItems(row, nodes),
           NEW g, g = GroundOf(row, nodes), NEW m \in Nat, DOMAIN nodes = 1 .. m,
           NEW above, above = Grouped(nodes, f.parent[l])
    PROVE  HaveTheirs(row, g, above, f, nodes, l, m)
<1> PICK parent : parent = f.parent[l]
    BY Zenon
<1>3. Grouped(nodes, parent) = Groups!OverSeq(parent, <<>>, nodes)
    BY Zenon DEF Grouped, Groups!OverSeq, GroupOf, FoldLeft, Groups!FoldLeft,
                 MapThenFoldSet, Groups!MapThenFoldSet, Max, Groups!Max
<1>4. PICK acc : Groups!Along(acc, parent, <<>>, nodes, m)
                 /\ Groups!OverSeq(parent, <<>>, nodes) = acc[m]
    BY Groups!FoldsAlong
<1> DEFINE Met(i) == \A j \in DOMAIN nodes : j <= i => f.parent[l][nodes[j].agg_id] \in AggIds(acc[i])
           S == {i \in 0 .. m : IsList(acc[i]) /\ Met(i) /\ HaveTheirs(row, g, acc[i], f, nodes, l, i)}
<1>5. 0 \in S
    <2>1. acc[0] = <<>>
        BY <1>4 DEF Groups!Along
    <2>2. IsVector(<<>>, 0) /\ DOMAIN <<>> = {}
        BY DEF IsVector
    <2>3. IsList(<<>>)
        BY <2>2 DEF IsList, IsNodes
    <2>4. Met(0)
        OBVIOUS
    <2>5. HaveTheirs(row, g, <<>>, f, nodes, l, 0)
        BY <2>2 DEF HaveTheirs, HaveItems
    <2> QED BY <2>1, <2>3, <2>4, <2>5
<1>6. ASSUME NEW i \in 0 .. m, i \in S, i < m PROVE i + 1 \in S
    <2>1. i + 1 \in 1 .. m /\ (i + 1) - 1 = i /\ i + 1 \in 0 .. m /\ i \in Nat
        BY <1>6
    <2>2. acc[i + 1] = GroupOf(parent, acc[i], nodes[i + 1])
        BY <1>4, <2>1 DEF Groups!Along
    <2>3. IsList(acc[i]) /\ Met(i) /\ HaveTheirs(row, g, acc[i], f, nodes, l, i)
        BY <1>6
    <2>4. /\ IsList(acc[i + 1])
          /\ AggIds(acc[i + 1]) = AggIds(acc[i]) \cup {parent[nodes[i + 1].agg_id]}
        BY <2>2, <2>3, GroupStep
    <2>5. Met(i + 1)
        <3>1. \A j \in DOMAIN nodes : j <= i + 1 => j <= i \/ j = i + 1
            OBVIOUS
        <3> QED BY <2>3, <2>4, <3>1
    <2>6. HaveTheirs(row, g, acc[i + 1], f, nodes, l, i + 1)
        <3>1. IsNodes(nodes) /\ DOMAIN nodes \subseteq Nat /\ i + 1 \in DOMAIN nodes
            BY <2>1 DEF IsList
        <3>2. HaveTheirs(row, g, GroupOf(f.parent[l], acc[i], nodes[i + 1]), f, nodes, l, i + 1)
            BY <2>1, <2>3, <3>1, GroupHasItems
        <3> QED BY <2>2, <3>2
    <2> QED BY <2>1, <2>4, <2>5, <2>6
<1> HIDE DEF S
<1>7. \A i \in 0 .. m : i \in S
    <2>1. 0 \in Nat
        OBVIOUS
    <2> QED BY <1>5, <1>6, <2>1, Groups!Induction
<1> QED BY <1>3, <1>4, <1>7 DEF S

-----------------------------------------------------------------------------
(* The account of a node, from those of its children *)

\* The records account for the losses g of their nodes.
Balanced(recs, g, nodes) ==
    /\ DOMAIN recs = AggIds(nodes)
    /\ \A b \in AggIds(nodes) :
          /\ \A i \in Taken : recs[b][i] \in Int
          /\ recs[b].loss + recs[b].retained_loss = g[b]

\* A record of the node a that accounts for the loss of the node.
IsAccount(x, a, t, before, ground) ==
    /\ IsRecord(x) /\ IsOf(a, t, x)
    /\ x.previous_layer_retained_loss = before
    /\ x.loss + x.retained_loss = ground

\* The records of the children together account for what their nodes lost.
LEMMA GatheredBalances ==
    ASSUME NEW f, NEW recs, NEW g, NEW nodes, Balanced(recs, g, nodes),
           NEW kids, IsFiniteSet(kids), kids \subseteq AggIds(nodes),
           NEW l, NEW k, NEW a, AccumulatedTiv(f, l, a) \in Int, NEW before \in Int
    PROVE  IsAccount([Gathered(f, recs, kids, l, k, a) EXCEPT !.previous_layer_retained_loss = before],
                     a, ProfileOf(f, l, a, k), before, SumOf(g, kids))
<1> PICK h : h = Gathered(f, recs, kids, l, k, a)
    OBVIOUS
<1>1. /\ DOMAIN h = Fields /\ h.agg_id = a /\ h.policytc_id = ProfileOf(f, l, a, k)
      /\ \A i \in Taken : h[i] = Added(recs, kids, i)
      /\ h.accumulated_tiv = AccumulatedTiv(f, l, a)
      /\ h.previous_layer_retained_loss = 0 /\ h.step_loss = 0
    BY GatheredIs
<1> DEFINE of(i) == [b \in DOMAIN recs |-> recs[b][i]]
<1>2. \A b \in kids : \A i \in Taken : of(i)[b] = recs[b][i] /\ recs[b][i] \in Int
    BY DEF Balanced
<1>3. \A i \in Taken : Added(recs, kids, i) = SumOf(of(i), kids)
    BY DEF Added
<1> HIDE DEF of
<1>4. \A i \in Taken : Added(recs, kids, i) \in Int
    <2> TAKE i \in Taken
    <2>1. \A b \in kids : of(i)[b] \in Int
        BY <1>2
    <2> QED BY <1>3, <2>1, SumType
<1>5. Added(recs, kids, "loss") + Added(recs, kids, "retained_loss") = SumOf(g, kids)
    <2> PICK p : p = of("loss")
        OBVIOUS
    <2> PICK q : q = of("retained_loss")
        OBVIOUS
    <2>1. "loss" \in Taken /\ "retained_loss" \in Taken
        BY DEF Taken
    <2>2. \A b \in kids : p[b] \in Int /\ q[b] \in Int /\ g[b] = p[b] + q[b]
        BY <1>2, <2>1 DEF Balanced
    <2>3. SumOf(g, kids) = SumOf(p, kids) + SumOf(q, kids)
        BY <2>2, SumPlus
    <2> QED BY <1>3, <2>1, <2>3
<1> PICK x : x = [h EXCEPT !.previous_layer_retained_loss = before]
    OBVIOUS
<1>6. /\ DOMAIN x = Fields
      /\ \A i \in Fields : x[i] = IF i = "previous_layer_retained_loss" THEN before ELSE h[i]
    BY <1>1
<1>7. /\ x.agg_id = a /\ x.policytc_id = ProfileOf(f, l, a, k)
      /\ x.previous_layer_retained_loss = before /\ x.loss = h.loss
      /\ x.retained_loss = h.retained_loss
    BY <1>1, <1>6, SMT DEF Fields, Amounts
<1>8. \A i \in Amounts : x[i] \in Int
    <2> TAKE i \in Amounts
    <2>1. i \in Fields /\ 0 \in Int
        BY DEF Fields
    <2>2. i \in Taken \/ i \in {"previous_layer_retained_loss", "accumulated_tiv", "step_loss"}
        BY DEF Amounts, Taken
    <2>3. CASE i \in Taken
        <3>1. h[i] \in Int
            BY <1>1, <1>4, <2>3
        <3> QED BY <1>6, <2>1, <3>1
    <2>4. CASE i \in {"previous_layer_retained_loss", "accumulated_tiv", "step_loss"}
        BY <1>1, <1>6, <2>1, <2>4
    <2> QED BY <2>2, <2>3, <2>4
<1>9. x.loss + x.retained_loss = SumOf(g, kids)
    BY <1>1, <1>5, <1>7 DEF Taken
<1>10. IsAccount(x, a, ProfileOf(f, l, a, k), before, SumOf(g, kids))
    BY <1>6, <1>7, <1>8, <1>9 DEF IsAccount, IsRecord, IsOf
<1> QED BY <1>10, Zenon

\* All terms of the node a on layer k keep the account.
KeepsFor(f, l, low, a, k) ==
    \A s \in Range(ProfileOf(f, l, a, k)) : s.calcrule \in Keeping(f.stepped, low)
\* The record y of a node accounts for its loss on the first layer, and for
\* what the layer before left on the others.
Balances(y, k, before, ground) ==
    /\ IsRecord(y)
    /\ IF k > 1 THEN y.retained_loss = before - y.loss
                ELSE y.loss + y.retained_loss = ground

\* A node of a layer whose terms keep the account.
KeepsAt(f, av, l, low, a, k) ==
    /\ a # 0 /\ IsFiniteSet(Kids(f, av, l, a))
    /\ AccumulatedTiv(f, l, a) \in Int /\ ProfileOf(f, l, a, k) \in Profiles
    /\ low \in BOOLEAN /\ (low => k = 1) /\ f.stepped \in BOOLEAN
    /\ KeepsFor(f, l, low, a, k)

\* The terms of a node keep the account of what its children lost.
LEMMA NodeBalances ==
    ASSUME NEW f, NEW av, NEW l, NEW recs, NEW g, Balanced(recs, g, av[l - 1]),
           NEW a, NEW k \in Nat \ {0}, NEW low, KeepsAt(f, av, l, low, a, k),
           NEW before \in Int, k > 1 => SumOf(g, Kids(f, av, l, a)) > 0
    PROVE  Balances(FoldedNode(f, av, recs, l, k, a, before), k, before,
                    SumOf(g, Kids(f, av, l, a)))
<1> PICK kids : kids = Kids(f, av, l, a)
    OBVIOUS
<1> PICK x : x = [Gathered(f, recs, kids, l, k, a) EXCEPT !.previous_layer_retained_loss = before]
    OBVIOUS
<1>0. /\ a # 0 /\ IsFiniteSet(Kids(f, av, l, a))
      /\ AccumulatedTiv(f, l, a) \in Int /\ ProfileOf(f, l, a, k) \in Profiles
      /\ low \in BOOLEAN /\ (low => k = 1) /\ f.stepped \in BOOLEAN
      /\ KeepsFor(f, l, low, a, k)
    BY DEF KeepsAt
<1>1. kids \subseteq AggIds(av[l - 1])
    BY DEF Kids
<1>2. IsAccount(x, a, ProfileOf(f, l, a, k), before, SumOf(g, kids))
    <2> PICK nodes : nodes = av[l - 1]
        OBVIOUS
    <2>1. IsFiniteSet(kids) /\ kids \subseteq AggIds(nodes) /\ Balanced(recs, g, nodes)
        BY <1>0, <1>1
    <2>2. IsAccount([Gathered(f, recs, kids, l, k, a) EXCEPT !.previous_layer_retained_loss = before],
                    a, ProfileOf(f, l, a, k), before, SumOf(g, kids))
        BY <1>0, <2>1, GatheredBalances, Zenon
    <2> QED BY <2>2, Zenon
<1>3. /\ IsRecord(x) /\ x.agg_id # 0 /\ x.policytc_id \in Profiles
      /\ x.previous_layer_retained_loss = before /\ x.loss + x.retained_loss = SumOf(g, kids)
      /\ \A s \in Range(x.policytc_id) : s.calcrule \in Keeping(f.stepped, low)
    BY <1>0, <1>2 DEF IsAccount, IsOf, KeepsFor
<1>4. k > 1 => x.loss > 0 \/ x.retained_loss > 0
    <2> PICK p : p = x.loss
        OBVIOUS
    <2> PICK q : q = x.retained_loss
        OBVIOUS
    <2> PICK ground : ground = SumOf(g, kids)
        OBVIOUS
    <2>1. p \in Int /\ q \in Int /\ p + q = ground /\ (k > 1 => ground > 0)
        BY <1>3, RecordFields, Zenon
    <2>2. k > 1 => p > 0 \/ q > 0
        BY <2>1
    <2> QED BY <2>2, Zenon
<1>5. Accounts(x, Ruled(f.stepped, x, k), k)
    BY <1>0, <1>3, <1>4, RuledAccounts
<1>6. FoldedNode(f, av, recs, l, k, a, before) = Ruled(f.stepped, x, k)
    BY DEF FoldedNode
<1> QED BY <1>3, <1>5, <1>6 DEF Accounts, ComesFrom, Balances

-----------------------------------------------------------------------------
(* The account of the first layer, level by level *)

\* A level has the items of the level below.
BringsItems(row, f, av, l) ==
    /\ HaveItems(row, av[l])
    /\ \A n \in DOMAIN av[l] :
          Ground(row, av[l][n].item_idx)
            = SumOf(GroundOf(row, av[l - 1]), Kids(f, av, l, av[l][n].agg_id))

\* The children of a node are finitely many.
LEMMA KidsFinite ==
    ASSUME NEW f, NEW av, NEW l, IsList(av[l - 1]), NEW a
    PROVE  IsFiniteSet(Kids(f, av, l, a))
<1> PICK nodes : nodes = av[l - 1]
    OBVIOUS
<1>1. PICK m \in Nat : IsVector(nodes, m)
    BY DEF IsList
<1>2. DOMAIN nodes = 1 .. m /\ IsFiniteSet(1 .. m)
    BY <1>1, VectorLen, FS_Interval
<1> DEFINE g == [j \in 1 .. m |-> nodes[j].agg_id]
<1>3. \A b \in Kids(f, av, l, a) : \E j \in 1 .. m : b = g[j]
    BY <1>2 DEF Kids, AggIds
<1> HIDE DEF g
<1> QED BY <1>2, <1>3, ImageFinite

\* The levels of an event: its items, and each level from the one below.
LEMMA AvxsSteps ==
    ASSUME NEW c \in Cases, NEW av, av = Avxs(c.fm, c.items)
    PROVE  /\ DOMAIN av[0] = DOMAIN c.items
           /\ \A i \in DOMAIN c.items : av[0][i].agg_id = c.items[i] /\ av[0][i].item_idx = <<i>>
           /\ \A l \in 1 .. c.fm.levels : av[l] = Grouped(av[l - 1], c.fm.parent[l])
<1> DEFINE base == [i \in DOMAIN c.items |-> [agg_id |-> c.items[i], item_idx |-> <<i>>]]
<1>1. c.fm.levels \in Nat \ {0}
    BY CaseFacts
<1> PICK top : top = c.fm.levels
    OBVIOUS
<1>2. av = Climb!Recursion(c.fm, base, 0, top)
    BY DEF Avxs, Climb!Recursion, LevelOf
<1> HIDE DEF base
<1>3. Climb!Follows(av, c.fm, base, 0, top)
    BY <1>1, <1>2, Climb!RecursionSteps
<1>4. av[0] = base /\ \A l \in 0 .. top : l # 0 => av[l] = Grouped(av[l - 1], c.fm.parent[l])
    BY <1>3 DEF Climb!Follows, LevelOf
<1>5. \A l \in 1 .. top : l \in 0 .. top /\ l # 0
    BY <1>1
<1>6. \A l \in 1 .. c.fm.levels : av[l] = Grouped(av[l - 1], c.fm.parent[l])
    BY <1>4, <1>5
<1> QED BY <1>4, <1>6 DEF base

\* Every level has the items of the level below.
LEMMA LevelItems ==
    ASSUME NEW c \in Cases, NEW av, av = Avxs(c.fm, c.items), NEW l \in 1 .. c.fm.levels,
           NEW row, HaveItems(row, av[l - 1])
    PROVE  BringsItems(row, c.fm, av, l)
<1> PICK f : f = c.fm
    OBVIOUS
<1>1. f.levels \in Nat \ {0}
    BY CaseFacts
<1>2. l - 1 \in 0 .. f.levels
    BY <1>1
<1> PICK below : below = av[l - 1]
    OBVIOUS
<1> PICK above : above = av[l]
    OBVIOUS
<1>3. IsList(below)
    <2>1. IsReached(c.fm, av[l - 1], l - 1)
        BY <1>2, AvxsIs
    <2> QED BY <2>1 DEF IsReached
<1>4. above = Grouped(below, f.parent[l])
    BY AvxsSteps
<1>5. PICK m \in Nat : IsVector(below, m)
    BY <1>3 DEF IsList
<1>6. DOMAIN below = 1 .. m
    BY <1>5, VectorLen
<1> PICK g : g = GroundOf(row, below)
    OBVIOUS
<1>7. HaveTheirs(row, g, above, f, below, l, m)
    BY <1>3, <1>4, <1>6, GroupedHasItems
<1>8. \A a : KidsUpTo(f, below, l, a, m) = Kids(f, av, l, a)
    BY <1>6, AllKids
<1> QED BY <1>7, <1>8 DEF HaveTheirs, BringsItems

\* On the lower levels, whose terms all keep the account, every record accounts
\* for the ground up losses of its items.
LEMMA FirstBalanced ==
    ASSUME NEW c \in Cases, NEW av, av = Avxs(c.fm, c.items),
           NEW row \in [DOMAIN c.items -> Nat], NEW top \in Nat, top <= c.fm.levels,
           NEW low \in BOOLEAN,
           \A l \in 1 .. top : \A a \in AggIds(av[l]) : KeepsFor(c.fm, l, low, a, 1)
    PROVE  /\ HaveItems(row, av[top])
           /\ Balanced(FoldedFirst(c.fm, av, row, top), GroundOf(row, av[top]), av[top])
<1> PICK f : f = c.fm
    OBVIOUS
<1> DEFINE recs(j) == FoldedFirst(f, av, row, j)
           S == {j \in 0 .. top : /\ HaveItems(row, av[j])
                                  /\ Balanced(recs(j), GroundOf(row, av[j]), av[j])}
<1>1. f.levels \in Nat \ {0} /\ f.stepped \in BOOLEAN
    BY CaseFacts
<1>2. 0 \in S
    <2> PICK nodes : nodes = av[0]
        OBVIOUS
    <2>1. /\ IsNodes(nodes) /\ DOMAIN nodes = DOMAIN c.items
          /\ \A i \in DOMAIN nodes : nodes[i].item_idx = <<i>>
        <3>1. IsNodes(av[0])
            BY ItemFacts DEF AreNodes
        <3>2. /\ DOMAIN av[0] = DOMAIN c.items
              /\ \A i \in DOMAIN c.items : av[0][i].item_idx = <<i>>
            BY AvxsSteps
        <3> QED BY <3>1, <3>2
    <2>2. \A i \in DOMAIN nodes : row[i] \in Int
        BY <2>1
    <2>3. \A i \in DOMAIN nodes : IsIdx(row, nodes[i].item_idx) /\ Ground(row, nodes[i].item_idx) = row[i]
        <3> TAKE i \in DOMAIN nodes
        <3>1. IsIdx(row, <<i>>) /\ Ground(row, <<i>>) = row[i]
            BY <2>2, GroundOne
        <3> QED BY <2>1, <3>1
    <2>4. recs(0) = FoldedItems(av, row)
        BY FoldedFirstIs
    <2>5. DOMAIN recs(0) = AggIds(nodes)
        BY <2>4 DEF FoldedItems
    <2>6. ASSUME NEW b \in AggIds(nodes)
          PROVE  /\ \A i \in Taken : recs(0)[b][i] \in Int
                 /\ recs(0)[b].loss + recs(0)[b].retained_loss = GroundOf(row, nodes)[b]
        <3> PICK i : i = VecIdx(nodes, b)
            OBVIOUS
        <3>1. i \in DOMAIN nodes
            BY <2>1, IndexOf
        <3>2. \A j \in Taken : recs(0)[b][j] \in Int
            <4>1. IsNodes(av[0]) /\ row \in [DOMAIN av[0] -> Nat] /\ b \in AggIds(av[0])
                BY <2>1
            <4> QED BY <2>4, <4>1, ItemsInt
        <3>3. GroundOf(row, nodes)[b] = row[i]
            BY <2>3, <3>1 DEF GroundOf
        <3>4. recs(0)[b] = [LossRec EXCEPT !.loss = row[i]]
            BY <2>4 DEF FoldedItems
        <3>5. recs(0)[b].loss = row[i] /\ recs(0)[b].retained_loss = 0
            BY <3>4, SMT DEF LossRec
        <3> QED BY <2>2, <3>1, <3>2, <3>3, <3>5
    <2>7. HaveItems(row, nodes)
        BY <2>3 DEF HaveItems
    <2> HIDE DEF recs
    <2>8. Balanced(recs(0), GroundOf(row, nodes), nodes)
        BY <2>5, <2>6 DEF Balanced
    <2> QED BY <2>7, <2>8
<1>3. ASSUME NEW i \in 0 .. top, i \in S, i < top PROVE i + 1 \in S
    <2> PICK l : l = i + 1
        OBVIOUS
    <2>1. l \in 1 .. top /\ l \in 1 .. f.levels /\ l - 1 = i /\ l \in 0 .. top /\ l \in Nat \ {0}
        BY <1>1, <1>3
    <2>2. HaveItems(row, av[l - 1]) /\ Balanced(recs(l - 1), GroundOf(row, av[l - 1]), av[l - 1])
        BY <1>3, <2>1
    <2>3. BringsItems(row, f, av, l)
        BY <2>1, <2>2, LevelItems
    <2>4. IsLevel(f, av, l)
        BY <2>1, LevelsAre
    <2>5. IsList(av[l - 1]) /\ IsNodes(av[l])
        <3>1. l - 1 \in 0 .. c.fm.levels /\ l \in 0 .. c.fm.levels
            BY <1>1, <2>1
        <3>2. IsReached(c.fm, av[l - 1], l - 1) /\ IsReached(c.fm, av[l], l)
            BY <3>1, AvxsIs
        <3> QED BY <3>2 DEF IsReached, IsList
    <2>6. ASSUME NEW a \in AggIds(av[l])
          PROVE  Balances(recs(l)[a], 1, 0, GroundOf(row, av[l])[a])
        <3> PICK g : g = GroundOf(row, av[l - 1])
            OBVIOUS
        <3>1. GroundOf(row, av[l])[a] = SumOf(g, Kids(f, av, l, a))
            <4> PICK n : n = VecIdx(av[l], a)
                OBVIOUS
            <4>1. n \in DOMAIN av[l] /\ av[l][n].agg_id = a
                BY <2>5, IndexOf
            <4> QED BY <2>3, <4>1 DEF BringsItems, GroundOf
        <3>2. IsFiniteSet(Kids(f, av, l, a))
            BY <2>5, KidsFinite
        <3>3. /\ AccumulatedTiv(f, l, a) \in Int /\ ProfileOf(f, l, a, 1) \in Profiles /\ a # 0
            <4>1. 1 \in 1 .. MaxLayer(f, l)
                BY <2>4 DEF IsLevel
            <4>2. a # 0
                BY <2>4 DEF IsLevel, AreNodes, AggIds
            <4> QED BY <2>4, <4>1, <4>2 DEF IsLevel
        <3>4. KeepsFor(f, l, low, a, 1)
            BY <2>1
        <3>5. recs(l)[a] = FoldedNode(f, av, recs(l - 1), l, 1, a, 0)
            <4>1. FirstFolds(f, av, row, l)
                BY <2>1, FoldedFirstIs
            <4> QED BY <4>1 DEF FirstFolds
        <3> HIDE DEF recs
        <3> PICK before : before = recs(l - 1)
            OBVIOUS
        <3>6. Balances(FoldedNode(f, av, before, l, 1, a, 0), 1, 0, SumOf(g, Kids(f, av, l, a)))
            <4>1. 1 \in Nat \ {0} /\ 0 \in Int /\ ~(1 > 1)
                OBVIOUS
            <4>2. Balanced(before, g, av[l - 1])
                BY <2>2
            <4> PICK k : k = 1
                OBVIOUS
            <4>3. /\ k \in Nat \ {0} /\ (low => k = 1) /\ KeepsFor(f, l, low, a, k)
                  /\ ProfileOf(f, l, a, k) \in Profiles
                  /\ k > 1 => SumOf(g, Kids(f, av, l, a)) > 0
                BY <3>3, <3>4
            <4>4. KeepsAt(f, av, l, low, a, k)
                BY <1>1, <3>2, <3>3, <4>3 DEF KeepsAt
            <4>5. Balances(FoldedNode(f, av, before, l, k, a, 0), k, 0, SumOf(g, Kids(f, av, l, a)))
                BY <4>1, <4>2, <4>3, <4>4, NodeBalances
            <4> QED BY <4>5
        <3> QED BY <3>1, <3>5, <3>6
    <2>7. DOMAIN recs(l) = AggIds(av[l])
        <3>1. FirstFolds(f, av, row, l)
            BY <2>1, FoldedFirstIs
        <3> QED BY <3>1 DEF FirstFolds
    <2> HIDE DEF recs
    <2>8. ASSUME NEW a \in AggIds(av[l])
          PROVE  /\ \A j \in Taken : recs(l)[a][j] \in Int
                 /\ recs(l)[a].loss + recs(l)[a].retained_loss = GroundOf(row, av[l])[a]
        <3>1. Taken \subseteq Amounts
            BY DEF Taken, Amounts
        <3> QED BY <2>6, <3>1 DEF Balances, IsRecord
    <2>9. Balanced(recs(l), GroundOf(row, av[l]), av[l])
        BY <2>7, <2>8 DEF Balanced
    <2>10. HaveItems(row, av[l])
        BY <2>3 DEF BringsItems
    <2>11. l \in S
        BY <2>1, <2>9, <2>10
    <2> QED BY <2>11
<1>4. \A j \in 0 .. top : j \in S
    <2> HIDE DEF S
    <2>1. 0 \in Nat
        OBVIOUS
    <2> QED BY <1>2, <1>3, <2>1, Sums!Induction
<1> QED BY <1>4

-----------------------------------------------------------------------------
(* The account of the layers of a policy *)

\* What a policy retains on each layer, and what it loses.
Retains(p, r, top, ground) ==
    /\ \A j \in 1 .. top : p[j] \in Int /\ r[j] \in Int
    /\ p[1] + r[1] = ground
    /\ \A j \in 1 .. top : j > 1 => r[j] = r[j - 1] - p[j]

\* After each layer the policy retains what the layers so far have left.
LEMMA RestSums ==
    ASSUME NEW top \in Nat, NEW p, NEW r, NEW ground \in Int, Retains(p, r, top, ground)
    PROVE  \A j \in 1 .. top : r[j] = ground - SumOf(p, 1 .. j)
<1> DEFINE S == {j \in 0 .. top : j > 0 => r[j] = ground - SumOf(p, 1 .. j)}
<1>1. 0 \in S
    OBVIOUS
<1>2. ASSUME NEW i \in 0 .. top, i \in S, i < top PROVE i + 1 \in S
    <2> PICK j : j = i + 1
        OBVIOUS
    <2>1. j \in 1 .. top /\ j - 1 = i /\ i \in Nat
        BY <1>2
    <2> PICK before : before = 1 .. i
        OBVIOUS
    <2>2. 1 .. j = before \cup {j} /\ j \notin before /\ before \subseteq 1 .. top
        BY <2>1
    <2>3. IsFiniteSet(before)
        BY <2>1, FS_Interval
    <2>4. \A x \in before \cup {j} : p[x] \in Int
        BY <2>1, <2>2 DEF Retains
    <2>5. SumOf(p, before \cup {j}) = SumOf(p, before) + p[j]
        BY <2>2, <2>3, <2>4, SumInsert
    <2>6. SumOf(p, 1 .. j) = SumOf(p, before) + p[j] /\ SumOf(p, before) \in Int /\ p[j] \in Int
        <3>1. SumOf(p, before) \in Int
            BY <2>3, <2>4, SumType
        <3> QED BY <2>2, <2>4, <2>5, <3>1
    <2>7. r[j] = ground - SumOf(p, 1 .. j)
        <3>1. CASE i = 0
            <4>1. before = {} /\ j = 1
                BY <2>1, <3>1
            <4>2. SumOf(p, before) = 0
                BY <4>1, SumEmpty
            <4>3. p[j] + r[j] = ground /\ r[j] \in Int
                BY <2>1, <4>1 DEF Retains
            <4> QED BY <2>6, <4>2, <4>3
        <3>2. CASE i > 0
            <4>1. r[i] = ground - SumOf(p, before)
                BY <1>2, <3>2
            <4>2. r[j] = r[i] - p[j]
                BY <2>1, <3>2 DEF Retains
            <4> QED BY <2>6, <4>1, <4>2
        <3> QED BY <2>1, <3>1, <3>2
    <2>8. j \in 0 .. top
        BY <2>1
    <2>9. j \in S
        BY <2>7, <2>8
    <2> QED BY <2>9
<1>3. \A j \in 0 .. top : j \in S
    <2> HIDE DEF S
    <2>1. 0 \in Nat
        OBVIOUS
    <2> QED BY <1>1, <1>2, <2>1, Sums!Induction
<1>4. ASSUME NEW j \in 1 .. top PROVE r[j] = ground - SumOf(p, 1 .. j)
    <2>1. j \in 0 .. top /\ j > 0
        OBVIOUS
    <2> QED BY <1>3, <2>1
<1> QED BY <1>4

\* The terms of all nodes of the lower levels keep the account.
LowerKeep(f, av, top, low) ==
    \A l \in 1 .. top : \A a \in AggIds(av[l]) : KeepsFor(f, l, low, a, 1)
\* What the layers before have left for the layer k of the node a.
IsLeft(before, f, av, row, l, k, a) ==
    before = IF k = 1 THEN 0 ELSE Folded(f, av, row, l, k - 1)[a].retained_loss

\* The reference for one node of a layer.
LEMMA FoldedAt ==
    ASSUME NEW f, NEW av, NEW row, NEW l \in Nat \ {0}, NEW k \in Nat \ {0},
           NEW a \in AggIds(av[l]), NEW before, IsLeft(before, f, av, row, l, k, a)
    PROVE  Folded(f, av, row, l, k)[a]
                = FoldedNode(f, av, FoldedFirst(f, av, row, l - 1), l, k, a, before)
<1>1. CASE k = 1
    <2>1. Folded(f, av, row, l, k) = FoldedFirst(f, av, row, l) /\ before = 0
        BY <1>1, FoldedIs DEF IsLeft
    <2>2. FoldedFirst(f, av, row, l)[a]
            = FoldedNode(f, av, FoldedFirst(f, av, row, l - 1), l, 1, a, 0)
        <3>1. FirstFolds(f, av, row, l)
            BY FoldedFirstIs
        <3> QED BY <3>1 DEF FirstFolds
    <2> QED BY <1>1, <2>1, <2>2
<1>2. CASE k # 1
    <2>1. k \in Nat /\ k > 1 /\ before = Folded(f, av, row, l, k - 1)[a].retained_loss
        BY <1>2 DEF IsLeft
    <2>2. Folded(f, av, row, l, k) =
            [x \in AggIds(av[l]) |->
                FoldedNode(f, av, FoldedFirst(f, av, row, l - 1), l, k, x,
                           Folded(f, av, row, l, k - 1)[x].retained_loss)]
        <3>1. LayerFolds(f, av, row, l, k)
            BY <2>1, FoldedIs
        <3> QED BY <3>1 DEF LayerFolds
    <2>3. Folded(f, av, row, l, k)[a] =
            FoldedNode(f, av, FoldedFirst(f, av, row, l - 1), l, k, a,
                       Folded(f, av, row, l, k - 1)[a].retained_loss)
        BY <2>2, Zenon
    <2> QED BY <2>1, <2>3
<1> QED BY <1>1, <1>2

\* Where a policy stands: what its accumulated items are worth, and the account
\* of the level below.
IsPolicy(c, av, L, row, n, a) ==
    /\ av = Avxs(c.fm, c.items) /\ L = c.fm.levels
    /\ row \in [DOMAIN c.items -> Nat]
    /\ n \in DOMAIN av[L] /\ a = av[L][n].agg_id
StandsOn(f, av, L, row, n, a) ==
    /\ L \in Nat \ {0} /\ f.stepped \in BOOLEAN
    /\ a \in AggIds(av[L]) /\ a # 0 /\ IsFiniteSet(Kids(f, av, L, a))
    /\ Balanced(FoldedFirst(f, av, row, L - 1), GroundOf(row, av[L - 1]), av[L - 1])
    /\ Ground(row, av[L][n].item_idx) = SumOf(GroundOf(row, av[L - 1]), Kids(f, av, L, a))
TermsAt(f, L, a, k) ==
    AccumulatedTiv(f, L, a) \in Int /\ ProfileOf(f, L, a, k) \in Profiles

\* A policy stands on the account of the level below, if the rules there keep it.
LEMMA PolicyStands ==
    ASSUME NEW c \in Cases, NEW av, NEW L, NEW row, NEW n, NEW a, IsPolicy(c, av, L, row, n, a),
           NEW low \in BOOLEAN, LowerKeep(c.fm, av, L - 1, low)
    PROVE  StandsOn(c.fm, av, L, row, n, a)
<1>0. /\ av = Avxs(c.fm, c.items) /\ L = c.fm.levels /\ row \in [DOMAIN c.items -> Nat]
      /\ n \in DOMAIN av[L] /\ a = av[L][n].agg_id
    BY DEF IsPolicy
<1> PICK f : f = c.fm
    OBVIOUS
<1>1. L \in Nat \ {0} /\ f.stepped \in BOOLEAN
    BY <1>0, CaseFacts
<1> PICK below : below = L - 1
    OBVIOUS
<1>2. below \in Nat /\ below <= c.fm.levels /\ L \in 1 .. c.fm.levels /\ below \in 0 .. c.fm.levels
    BY <1>0, <1>1
<1> PICK g : g = GroundOf(row, av[below])
    OBVIOUS
<1>3. HaveItems(row, av[below]) /\ Balanced(FoldedFirst(f, av, row, below), g, av[below])
    BY <1>0, <1>2, FirstBalanced DEF LowerKeep
<1>4. BringsItems(row, f, av, L)
    BY <1>0, <1>2, <1>3, LevelItems, Zenon
<1>5. Ground(row, av[L][n].item_idx) = SumOf(g, Kids(f, av, L, a))
    BY <1>0, <1>4 DEF BringsItems
<1>6. IsLevel(f, av, L)
    BY <1>0, <1>2, LevelsAre
<1>7. a \in AggIds(av[L]) /\ a # 0
    <2>1. av[L][n].agg_id # 0
        BY <1>0, <1>6, Zenon DEF IsLevel, AreNodes
    <2> QED BY <1>0, <2>1, Zenon DEF AggIds
<1>8. IsFiniteSet(Kids(f, av, L, a))
    <2>1. IsReached(c.fm, av[below], below)
        BY <1>0, <1>2, AvxsIs
    <2> QED BY <2>1, KidsFinite DEF IsReached
<1> QED BY <1>1, <1>3, <1>5, <1>7, <1>8 DEF StandsOn

\* The terms of a layer of a policy.
LEMMA TermsKnown ==
    ASSUME NEW c \in Cases, NEW av, NEW L, NEW row, NEW n, NEW a, IsPolicy(c, av, L, row, n, a),
           NEW k \in 1 .. max_layer(c.fm)
    PROVE  TermsAt(c.fm, L, a, k)
<1> PICK f : f = c.fm
    OBVIOUS
<1>1. /\ av = Avxs(c.fm, c.items) /\ L = c.fm.levels
      /\ n \in DOMAIN av[L] /\ a = av[L][n].agg_id
    BY DEF IsPolicy
<1>2. L \in Nat \ {0}
    BY <1>1, CaseFacts
<1>3. L \in 1 .. c.fm.levels
    BY <1>1, <1>2
<1>4. IsLevel(f, av, L) /\ MaxLayer(f, L) = max_layer(f)
    BY <1>1, <1>3, LevelsAre, Zenon
<1>5. a \in AggIds(av[L])
    BY <1>1, Zenon DEF AggIds
<1> QED
    BY <1>4, <1>5 DEF TermsAt, IsLevel

\* The terms of a policy on a layer keep the account, if those below do.
LEMMA PolicyBalances ==
    ASSUME NEW f, NEW av, NEW L, NEW row, NEW n, NEW a, StandsOn(f, av, L, row, n, a),
           NEW k \in Nat \ {0}, TermsAt(f, L, a, k),
           NEW none \in BOOLEAN, ~none, KeepsFor(f, L, none, a, k),
           NEW ground, ground = Ground(row, av[L][n].item_idx), k > 1 => ground > 0,
           NEW before \in Int, IsLeft(before, f, av, row, L, k, a)
    PROVE  Balances(Folded(f, av, row, L, k)[a], k, before, ground)
<1> PICK recs : recs = FoldedFirst(f, av, row, L - 1)
    OBVIOUS
<1> PICK g : g = GroundOf(row, av[L - 1])
    OBVIOUS
<1>1. ground = SumOf(g, Kids(f, av, L, a)) /\ Balanced(recs, g, av[L - 1])
    BY Zenon DEF StandsOn
<1>2. Folded(f, av, row, L, k)[a] = FoldedNode(f, av, recs, L, k, a, before)
    <2>1. L \in Nat \ {0} /\ a \in AggIds(av[L])
        BY Zenon DEF StandsOn
    <2>2. Folded(f, av, row, L, k)[a]
            = FoldedNode(f, av, FoldedFirst(f, av, row, L - 1), L, k, a, before)
        BY <2>1, FoldedAt
    <2> QED BY <2>2
<1>3. KeepsAt(f, av, L, none, a, k)
    <2>1. /\ f.stepped \in BOOLEAN
          /\ a # 0 /\ IsFiniteSet(Kids(f, av, L, a))
        BY Zenon DEF StandsOn
    <2>2. AccumulatedTiv(f, L, a) \in Int /\ ProfileOf(f, L, a, k) \in Profiles
        BY Zenon DEF TermsAt
    <2> QED BY <2>1, <2>2, Zenon DEF KeepsAt
<1>4. Balances(FoldedNode(f, av, recs, L, k, a, before), k, before,
               SumOf(g, Kids(f, av, L, a)))
    BY <1>1, <1>3, NodeBalances, Zenon
<1> QED BY <1>1, <1>2, <1>4, Zenon

\* What every layer keeps, all of them together keep.
LEMMA LayersRetain ==
    ASSUME NEW top \in Nat \ {0}, NEW y, NEW ground,
           \A k \in 1 .. top : \A before \in Int :
                before = (IF k = 1 THEN 0 ELSE y[k - 1].retained_loss)
                    => Balances(y[k], k, before, ground),
           NEW p, \A k \in 1 .. top : p[k] = y[k].loss,
           NEW r, \A k \in 1 .. top : r[k] = y[k].retained_loss
    PROVE  Retains(p, r, top, ground)
<1> DEFINE Holds(k) == /\ p[k] \in Int /\ r[k] \in Int
                       /\ k = 1 => p[k] + r[k] = ground
                       /\ k > 1 => r[k] = r[k - 1] - p[k]
           S == {j \in 0 .. top : j > 0 => Holds(j)}
<1>1. 0 \in S
    OBVIOUS
<1>2. ASSUME NEW i \in 0 .. top, i \in S, i < top PROVE i + 1 \in S
    <2> PICK k : k = i + 1
        OBVIOUS
    <2>1. k \in 1 .. top /\ k - 1 = i /\ k \in Nat \ {0} /\ (k # 1 => i \in 1 .. top)
        BY <1>2
    <2> PICK before : before = IF k = 1 THEN 0 ELSE y[k - 1].retained_loss
        OBVIOUS
    <2>2. before \in Int /\ (k # 1 => before = r[k - 1])
        BY <1>2, <2>1
    <2>3. Balances(y[k], k, before, ground)
        BY <2>1, <2>2
    <2>4. p[k] = y[k].loss /\ r[k] = y[k].retained_loss
        BY <2>1
    <2>5. p[k] \in Int /\ r[k] \in Int
        BY <2>3, <2>4, RecordFields DEF Balances
    <2>6. IF k > 1 THEN r[k] = before - p[k] ELSE p[k] + r[k] = ground
        BY <2>3, <2>4 DEF Balances
    <2>7. Holds(k)
        BY <2>1, <2>2, <2>5, <2>6
    <2> HIDE DEF Holds
    <2>8. k \in S
        BY <2>1, <2>7
    <2> QED BY <2>8
<1>3. \A j \in 0 .. top : j \in S
    <2> HIDE DEF S
    <2>1. 0 \in Nat /\ top \in Nat
        OBVIOUS
    <2> QED BY <1>1, <1>2, <2>1, Sums!Induction
<1>4. ASSUME NEW j \in 1 .. top PROVE Holds(j)
    <2>1. j \in 0 .. top /\ j > 0
        OBVIOUS
    <2> HIDE DEF Holds
    <2> QED BY <1>3, <2>1
<1>5. 1 \in 1 .. top
    OBVIOUS
<1> QED BY <1>4, <1>5 DEF Retains

-----------------------------------------------------------------------------
(* The account of a policy *)

\* The ground up loss of a sequence of items, as the property has it.
LEMMA GroundUpIs ==
    ASSUME NEW idx
    PROVE  GroundUp(idx) = Ground(input.event_guls[LastRow], idx)
BY DEF GroundUp, Ground, Sums!OverSeq, PlusOf, FoldLeft, Sums!FoldLeft,
       MapThenFoldSet, Sums!MapThenFoldSet, Max, Sums!Max

\* The rules of the property are those that keep the account.
LEMMA KeepsAccountIs ==
    ASSUME NEW l, l \in 1 .. fm.levels, fm.levels \in Nat, NEW a, NEW k,
           KeepsAccount(l, a, k), NEW low \in BOOLEAN, low <=> l < fm.levels
    PROVE  KeepsFor(fm, l, low, a, k)
BY DEF KeepsAccount, KeepsFor, Keeping, Retaining

\* A calculated layer of a policy has the losses of the reference.
LEMMA LayerHolds ==
    ASSUME IInv, NEW l \in 1 .. fm.levels, NEW k \in 1 .. MaxLayer(fm, l), IsDone(l, k),
           NEW n \in DOMAIN avxs[l], NEW row, row = input.event_guls[LastRow],
           NEW y, y = Folded(fm, avxs, row, l, k)[avxs[l][n].agg_id]
    PROVE  /\ agg_vecs[l][k][n].loss = y.loss
           /\ agg_vecs[l][k][n].retained_loss = y.retained_loss
<1> PICK size : size = MaxAgg(fm, l)
    OBVIOUS
<1> PICK nodes : nodes = avxs[l]
    OBVIOUS
<1> PICK vec : vec = agg_vecs[l][k]
    OBVIOUS
<1> PICK folded : folded = Folded(fm, avxs, row, l, k)
    OBVIOUS
<1>1. IsFilled(fm, nodes, size, folded, vec, l, k)
    BY DEF IInv, HoldsLayer
<1>2. size \in Nat /\ AreNodes(nodes, size)
    <2>1. input \in Cases /\ avxs = Avxs(fm, input.items)
        BY DEF IInv
    <2>2. IsLevel(fm, avxs, l)
        BY <2>1, LevelsAre DEF fm
    <2> QED BY <2>2 DEF IsLevel
<1>3. n \in 1 .. size
    BY <1>2 DEF AreNodes
<1>4. Alike(nodes[n].agg_id, ProfileOf(fm, l, nodes[n].agg_id, k), y, vec[n])
    BY <1>1, <1>3 DEF IsFilled
<1> QED BY <1>4, SMT DEF Alike, Amounts

\* What has been calculated was calculated from a row.
LEMMA DoneRow ==
    ASSUME IInv, NEW l, NEW k, IsDone(l, k)
    PROVE  LastRow \in 1 .. Len(input.event_guls)
<1>1. /\ gul_idx \in 1 .. (Len(input.event_guls) + 1) /\ input \in Cases
      /\ level > 0 => gul_idx <= Len(input.event_guls)
      /\ level \in 0 .. fm.levels
    BY DEF IInv, Counters
<1>2. Len(input.event_guls) \in Nat /\ fm.levels \in Nat
    <2>1. /\ input.event_guls \in Seq([DOMAIN input.items -> Nat])
          /\ fm.levels \in Nat
        BY <1>1, CaseFacts DEF fm
    <2> QED BY <2>1
<1>3. CASE level > 0
    <2>1. LastRow = gul_idx
        BY <1>3 DEF LastRow
    <2> QED BY <1>1, <1>2, <1>3, <2>1
<1>4. CASE level = 0
    <2> DEFINE S == {0} \cup {g \in Passed : g <= 2 \/ gulhasvalue(input.event_guls[g])}
    <2>1. S \in SUBSET (0 .. (gul_idx - 1)) /\ 0 \in S
        BY <1>1, <1>2 DEF Passed
    <2>2. IsFiniteSet(0 .. (gul_idx - 1))
        BY <1>1, <1>2, FS_Interval
    <2>3. IsFiniteSet(S) /\ S \subseteq Nat /\ S # {}
        <3> HIDE DEF S
        <3>1. IsFiniteSet(S)
            BY <2>1, <2>2, FS_Subset, Zenon
        <3> QED BY <1>1, <1>2, <2>1, <3>1
    <2>4. LastRow = Max(S)
        BY <1>4 DEF LastRow
    <2> HIDE DEF S
    <2>5. LastRow \in S
        BY <2>3, <2>4, MaxOfFinite
    <2>6. LastRow > 0
        BY <1>4 DEF IsDone
    <2> QED BY <1>1, <1>2, <2>1, <2>5, <2>6
<1> QED BY <1>1, <1>2, <1>3, <1>4

\* The rules of all levels below the policies keep the account.
BelowKeep ==
    \A l \in 1 .. (fm.levels - 1) : \A b \in Nodes(l) : KeepsAccount(l, b, 1)

\* A policy of the programme stands on the account of the levels below it, whose
\* rules keep it.
LEMMA AccountStands ==
    ASSUME IInv, LastRow \in 1 .. Len(input.event_guls),
           NEW n \in DOMAIN avxs[fm.levels], NEW a, a = avxs[fm.levels][n].agg_id,
           NEW row, row = input.event_guls[LastRow], BelowKeep
    PROVE  IsPolicy(input, avxs, fm.levels, row, n, a) /\ StandsOn(fm, avxs, fm.levels, row, n, a)
<1> PICK L : L = fm.levels
    OBVIOUS
<1>1. input \in Cases /\ avxs = Avxs(fm, input.items) /\ fm = input.fm
    BY DEF IInv, fm
<1>2. L \in Nat \ {0} /\ input.event_guls \in Seq([DOMAIN input.items -> Nat])
    BY <1>1, CaseFacts
<1>3. row \in [DOMAIN input.items -> Nat]
    BY <1>2
<1> PICK low \in BOOLEAN : low = TRUE
    OBVIOUS
<1>4. LowerKeep(fm, avxs, L - 1, low)
    <2> SUFFICES ASSUME NEW l \in 1 .. (L - 1), NEW b \in AggIds(avxs[l])
                 PROVE  KeepsFor(fm, l, low, b, 1)
        BY DEF LowerKeep
    <2>1. l \in 1 .. fm.levels /\ l < fm.levels
        BY <1>2
    <2>2. KeepsAccount(l, b, 1)
        BY DEF BelowKeep, Nodes
    <2> QED BY <1>2, <2>1, <2>2, KeepsAccountIs
<1>5. IsPolicy(input, avxs, fm.levels, row, n, a)
    BY <1>1, <1>3, Zenon DEF IsPolicy
<1> QED BY <1>1, <1>4, <1>5, PolicyStands, Zenon

\* A layer of such a policy balances, if its rule keeps the account.
LEMMA LayerBalances ==
    ASSUME IInv, NEW row, NEW n, NEW a, IsPolicy(input, avxs, fm.levels, row, n, a),
           StandsOn(fm, avxs, fm.levels, row, n, a),
           NEW ground, ground = Ground(row, avxs[fm.levels][n].item_idx), ground > 0,
           NEW j \in 1 .. max_layer(fm), KeepsAccount(fm.levels, a, j),
           NEW before \in Int, IsLeft(before, fm, avxs, row, fm.levels, j, a)
    PROVE  Balances(Folded(fm, avxs, row, fm.levels, j)[a], j, before, ground)
<1> PICK none \in BOOLEAN : none = FALSE
    OBVIOUS
<1>1. input \in Cases /\ fm = input.fm
    BY DEF IInv, fm
<1>2. fm.levels \in Nat \ {0} /\ max_layer(fm) \in Nat
    BY <1>1, CaseFacts
<1>3. KeepsFor(fm, fm.levels, none, a, j)
    <2>1. fm.levels \in 1 .. fm.levels /\ ~(fm.levels < fm.levels)
        BY <1>2
    <2> QED BY <1>2, <2>1, KeepsAccountIs
<1>4. TermsAt(fm, fm.levels, a, j)
    BY <1>1, TermsKnown, Zenon
<1>5. j \in Nat \ {0} /\ (j > 1 => ground > 0)
    BY <1>2
<1> QED BY <1>3, <1>4, <1>5, PolicyBalances, Zenon

\* The levels and layers of the programme that is calculated.
LEMMA ProgrammeSize ==
    ASSUME IInv
    PROVE  fm.levels \in Nat \ {0} /\ max_layer(fm) \in Nat \ {0}
<1>1. input \in Cases /\ fm = input.fm
    BY DEF IInv, fm
<1> QED BY <1>1, CaseFacts

\* The rules of a policy keep the account in its first k layers.
PolicyKeeps(a, k) == \A j \in 1 .. k : KeepsAccount(fm.levels, a, j)

\* Once a layer of the policies is done, so are the layers before it.
LEMMA LayersDone ==
    ASSUME IInv, NEW k \in 1 .. max_layer(fm), IsDone(fm.levels, k), NEW j \in 1 .. k
    PROVE  IsDone(fm.levels, j) /\ j \in 1 .. MaxLayer(fm, fm.levels)
<1>1. input \in Cases /\ avxs = Avxs(fm, input.items) /\ fm = input.fm
    BY DEF IInv, fm
<1>2. fm.levels \in Nat \ {0} /\ max_layer(fm) \in Nat \ {0}
    BY <1>1, CaseFacts
<1>3. fm.levels \in 1 .. fm.levels
    BY <1>2
<1>4. MaxLayer(fm, fm.levels) = max_layer(fm)
    BY <1>1, <1>3, LevelsAre
<1>5. j \in Nat /\ k \in Nat /\ j <= k /\ j \in 1 .. max_layer(fm)
    BY <1>2
<1>6. level # 0 => layer \in Nat
    <2>1. level # 0 => level \in 1 .. fm.levels /\ layer \in 1 .. MaxLayer(fm, level)
        BY <1>2 DEF IInv, Counters
    <2>2. level # 0 => MaxLayer(fm, level) \in Nat
        BY <1>1, <2>1, LevelsAre DEF IsLevel
    <2> QED BY <2>1, <2>2
<1> QED BY <1>4, <1>5, <1>6 DEF IsDone

\* Such a policy retains what its layers so far have left of its items' losses.
LEMMA PolicyRetains ==
    ASSUME IInv, NEW row, row = input.event_guls[LastRow], NEW n \in DOMAIN avxs[fm.levels],
           NEW a, a = avxs[fm.levels][n].agg_id,
           IsPolicy(input, avxs, fm.levels, row, n, a), StandsOn(fm, avxs, fm.levels, row, n, a),
           NEW k \in 1 .. max_layer(fm), IsDone(fm.levels, k), PolicyKeeps(a, k),
           NEW ground, ground = Ground(row, avxs[fm.levels][n].item_idx), ground > 0
    PROVE  agg_vecs[fm.levels][k][n].retained_loss
                = ground - SumOf([j \in 1 .. k |-> agg_vecs[fm.levels][j][n].loss], 1 .. k)
<1> PICK L : L = fm.levels
    OBVIOUS
<1>1. L \in Nat \ {0} /\ max_layer(fm) \in Nat \ {0}
    BY ProgrammeSize, Zenon
<1>2. k \in Nat \ {0}
    BY <1>1
<1>3. L \in 1 .. fm.levels
    BY <1>1
<1> DEFINE y == [j \in 1 .. k |-> Folded(fm, avxs, row, L, j)[a]]
           p == [j \in 1 .. k |-> agg_vecs[L][j][n].loss]
           r == [j \in 1 .. k |-> agg_vecs[L][j][n].retained_loss]
<1>4. ASSUME NEW j \in 1 .. k
      PROVE  p[j] = y[j].loss /\ r[j] = y[j].retained_loss
    <2>1. j \in 1 .. MaxLayer(fm, L) /\ IsDone(L, j)
        BY LayersDone, Zenon
    <2>2. y[j] = Folded(fm, avxs, row, L, j)[avxs[L][n].agg_id]
        BY Zenon
    <2>3. p[j] = agg_vecs[L][j][n].loss /\ r[j] = agg_vecs[L][j][n].retained_loss
        BY Zenon
    <2> HIDE DEF y, p, r
    <2>4. L \in 1 .. fm.levels /\ n \in DOMAIN avxs[L]
        BY <1>3
    <2> PICK done : done = y[j]
        OBVIOUS
    <2>5. done = Folded(fm, avxs, row, L, j)[avxs[L][n].agg_id]
        BY <2>2, Zenon
    <2>6. /\ agg_vecs[L][j][n].loss = done.loss
          /\ agg_vecs[L][j][n].retained_loss = done.retained_loss
        BY <2>1, <2>4, <2>5, LayerHolds
    <2> QED BY <2>3, <2>6, Zenon
<1>5. ASSUME NEW j \in 1 .. k, NEW before \in Int,
             before = IF j = 1 THEN 0 ELSE y[j - 1].retained_loss
      PROVE  Balances(y[j], j, before, ground)
    <2>1. IsLeft(before, fm, avxs, row, L, j, a)
        <3>1. j # 1 => j - 1 \in 1 .. k
            BY <1>2
        <3>2. j # 1 => y[j - 1] = Folded(fm, avxs, row, L, j - 1)[a]
            BY <3>1, Zenon
        <3> HIDE DEF y
        <3> QED BY <1>5, <3>2, Zenon DEF IsLeft
    <2>2. y[j] = Folded(fm, avxs, row, L, j)[a]
        BY Zenon
    <2>3. KeepsAccount(L, a, j)
        BY Zenon DEF PolicyKeeps
    <2>4. j \in 1 .. max_layer(fm)
        BY <1>1, <1>2
    <2> HIDE DEF y
    <2>5. Balances(Folded(fm, avxs, row, L, j)[a], j, before, ground)
        BY <2>1, <2>3, <2>4, LayerBalances, Zenon
    <2> QED BY <2>2, <2>5, Zenon
<1> HIDE DEF y, p, r
<1>6. Retains(p, r, k, ground)
    BY <1>2, <1>4, <1>5, LayersRetain
<1>7. ground \in Int
    <2>1. 1 \in 1 .. k
        BY <1>2
    <2> QED BY <1>6, <2>1 DEF Retains
<1>8. r[k] = ground - SumOf(p, 1 .. k)
    <2>1. k \in 1 .. k /\ k \in Nat
        BY <1>2
    <2> QED BY <1>6, <1>7, <2>1, RestSums
<1>9. r[k] = agg_vecs[L][k][n].retained_loss
    <2>1. k \in 1 .. k
        BY <1>2
    <2> QED BY <2>1 DEF r
<1> QED BY <1>8, <1>9, Zenon DEF p

\* What the invariant says of the account of a policy, as the property states it.
LEMMA IInvRetained == IInv => RetainedIsRest
<1> SUFFICES ASSUME IInv, NEW k \in 1 .. max_layer(fm), NEW n \in DOMAIN avxs[fm.levels],
                    NEW a, a = avxs[fm.levels][n].agg_id,
                    NEW ground, ground = GroundUp(avxs[fm.levels][n].item_idx),
                    NEW taken, taken = SumOf([j \in 1 .. k |-> agg_vecs[fm.levels][j][n].loss], 1 .. k),
                    IsDone(fm.levels, k), ground > 0,
                    \A l \in 1 .. (fm.levels - 1) : \A b \in Nodes(l) : KeepsAccount(l, b, 1),
                    \A j \in 1 .. k : KeepsAccount(fm.levels, a, j)
             PROVE  agg_vecs[fm.levels][k][n].retained_loss = ground - taken
    BY DEF RetainedIsRest
<1> PICK row : row = input.event_guls[LastRow]
    OBVIOUS
<1>1. /\ IsPolicy(input, avxs, fm.levels, row, n, a)
      /\ StandsOn(fm, avxs, fm.levels, row, n, a)
    <2>1. LastRow \in 1 .. Len(input.event_guls)
        BY DoneRow, Zenon
    <2>2. BelowKeep
        BY Zenon DEF BelowKeep
    <2> QED BY <2>1, <2>2, AccountStands, Zenon
<1>2. ground = Ground(row, avxs[fm.levels][n].item_idx)
    BY GroundUpIs, Zenon
<1>3. PolicyKeeps(a, k)
    BY Zenon DEF PolicyKeeps
<1> QED BY <1>1, <1>2, <1>3, PolicyRetains, Zenon

\* What a policy says it retains after a layer is what its layers so far have
\* left of the ground up losses of its items, whenever all the rules on the way
\* from the items to the policy keep the account in m_r of applycalcrule.
THEOREM RetainedIsTheRest == Spec => []RetainedIsRest
<1>1. Init => IInv
    BY InitInv
<1>2. IInv /\ [Next]_vars => IInv'
    BY NextSampleInv, CalcLevelInv, CalcLastInv, StutterInv DEF Next
<1>3. IInv => RetainedIsRest
    BY IInvRetained
<1> QED BY <1>1, <1>2, <1>3, PTL DEF Spec
=============================================================================
