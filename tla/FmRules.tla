------------------------------- MODULE FmRules -------------------------------
(***************************************************************************)
(* The calculation rules of the financial module: what applycalcrule and   *)
(* applycalcrule_stepped do to the loss record x of one node.              *)
(*                                                                         *)
(* A loss record carries the loss and what the rules remember of the       *)
(* levels below it: the deductibles that were effective, by how much prior *)
(* limits were exceeded and not reached, what was retained, and the loss   *)
(* accumulated over the steps of a stepped policy.  A profile p gives the  *)
(* terms: d1, d2, d3 the deductibles, a1 the attachment, l1, l2 the        *)
(* limits, sh1, sh2, sh3 the shares, ts, te the trigger, ps the payout and *)
(* sc1, sc2 the scales.                                                    *)
(*                                                                         *)
(* Amounts are integers.  A proportion is an integer number of PARTS-ths,  *)
(* and a monetary unit is PARTS amounts, so that a proportion and an       *)
(* amount that the code subtracts from each other (rules 5 and 15) keep    *)
(* their relative size.  Part rounds down where the code keeps a float.    *)
(***************************************************************************)
EXTENDS Integers, Sequences

CONSTANT PARTS          \* the number of parts a proportion of 1 stands for

ASSUME PartsAssumption == PARTS \in Nat \ {0}

\* 9999999999, the maximum deductible a rule assumes when there is none
NoMaximum == 1000000000

Part(amount, share) == (amount * share) \div PARTS

Least(a, b) == IF a < b THEN a ELSE b

Clamped(loss) == IF loss < 0 THEN 0 ELSE loss

\* if (ded3 == 0) ded3 = 9999999999
Top(p) == IF p.d3 = 0 THEN NoMaximum ELSE p.d3

------------------------------------------------------------------------------
(* What the rules share *)

\* A deductible that is added to the effective deductible.
Deducted(x, amount) ==
    LET loss == Clamped(x.loss - amount)
    IN  [x EXCEPT !.loss = loss,
                  !.effective_deductible = @ + x.loss - loss]

\* A deductible that is not.
Reduced(x, amount) == [x EXCEPT !.loss = Clamped(@ - amount)]

\* What a deductible takes from a loss moves it away from the prior limits.
Widened(x, y) == [y EXCEPT !.under_limit = @ + x.loss - y.loss]

\* The limit of this level, most, applied to y, which the rule made from x.
Limited(x, y, most, lim) ==
    LET paid == Least(y.loss, most)
        room == lim - paid
        left == y.under_limit + x.loss - paid
    IN  [y EXCEPT !.loss = paid,
                  !.over_limit = IF y.loss > most THEN y.loss - most ELSE @,
                  !.under_limit = IF @ > 0 /\ room > left THEN left ELSE room]

\* mutant: every layer keeps the rest of the input
RetainedAnew(x, y, layer) == [y EXCEPT !.retained_loss = x.retained_loss + x.loss - y.loss]

\* net_loss: on the first layer what the rule keeps from the loss, on the
\* others what this layer takes from what the previous layer retained.
Retained(x, y, layer) ==
    [y EXCEPT !.retained_loss =
        IF layer > 1 THEN x.previous_layer_retained_loss - y.loss
                     ELSE x.retained_loss + x.loss - y.loss]

\* Attachment, limit and share.
InLayer(y, p) ==
    [y EXCEPT !.loss = Part(Clamped(IF @ > p.a1 + p.l1 THEN p.l1 ELSE @ - p.a1),
                            p.sh1)]

\* What is placed of what is ceded.
Placed(y, p, loss) == [y EXCEPT !.loss = Part(Part(loss, p.sh2), p.sh3)]

------------------------------------------------------------------------------
(* Minimum and maximum deductibles, and the prior limits they reapply *)

HasPriorLimits(x) == x.over_limit + x.under_limit > 0

\* mutant: the effective deductible still counts what was given back
MaximisedAgain(x, d3) ==
    LET delta == x.effective_deductible - d3
        back == IF HasPriorLimits(x) THEN Least(delta, x.under_limit) ELSE delta
    IN  [x EXCEPT !.loss = @ + back,
                  !.under_limit = IF HasPriorLimits(x) THEN @ - back ELSE @]

\* The effective deductible comes down to d3: the loss rises by the
\* difference, as far as the prior limits leave room.
Maximised(x, d3) ==
    LET delta == x.effective_deductible - d3
    IN  IF HasPriorLimits(x) /\ delta > x.under_limit
        THEN [x EXCEPT !.loss = @ + x.under_limit,
                       !.over_limit = @ + delta - x.under_limit,
                       !.under_limit = 0,
                       !.effective_deductible = d3]
        ELSE [x EXCEPT !.loss = @ + delta,
                       !.under_limit = IF HasPriorLimits(x) THEN @ - delta ELSE @,
                       !.effective_deductible = d3]

\* The loss when the effective deductible goes up by fall: what exceeded the
\* prior limits absorbs it first.
Lowered(x, fall) ==
    IF HasPriorLimits(x) /\ x.over_limit > 0
    THEN IF fall > x.over_limit THEN x.loss + x.over_limit - fall ELSE x.loss
    ELSE x.loss - fall

Minimised(x, d2) ==
    LET fall == d2 - x.effective_deductible
        loss == Clamped(Lowered(x, fall))
        over == HasPriorLimits(x) /\ x.over_limit > 0
    IN  [x EXCEPT !.loss = loss,
                  !.over_limit = IF over THEN Clamped(@ - fall) ELSE @,
                  !.under_limit = IF HasPriorLimits(x) /\ ~over
                                  THEN @ + x.loss - loss ELSE @,
                  !.effective_deductible = @ + x.loss - loss]

\* Rule 8 leaves over_limit alone, sets the effective deductible to the
\* minimum when the prior limits were exceeded, does not move it when they
\* were not reached, and clamps only where they were not exceeded.
MinimisedOnce(x, d2) ==
    LET lowered == Lowered(x, d2 - x.effective_deductible)
    IN  IF HasPriorLimits(x)
        THEN IF x.over_limit > 0
             THEN [x EXCEPT !.loss = lowered, !.effective_deductible = d2]
             ELSE [x EXCEPT !.loss = Clamped(lowered)]
        ELSE [x EXCEPT !.loss = Clamped(lowered),
                       !.effective_deductible = @ + x.loss - Clamped(lowered)]

IsMaximised(x, extra, d3) == x.effective_deductible + extra > d3
IsMinimised(x, extra, d2) == x.effective_deductible + extra < d2

\* The three cases; between is the record when neither bound is passed.
Banded(x, extra, d2, d3, between) ==
    IF IsMaximised(x, extra, d3) THEN Maximised(x, d3)
    ELSE IF IsMinimised(x, extra, d2) THEN Minimised(x, d2)
    ELSE between

\* The tail of rules 35 and 36, whose limit is a share of the loss.
LimitedShare(x, y, share) ==
    LET most == Part(x.loss, share)
    IN  [y EXCEPT !.loss = Least(@, most),
                  !.over_limit = IF y.loss > most THEN y.loss - most ELSE @,
                  !.under_limit = 0]

------------------------------------------------------------------------------
(* The rules, one case of applycalcrule each *)

Rule1(x, p) == Limited(x, Deducted(x, p.d1), p.l1, p.l1)

Rule2(x, p, layer) == Retained(x, InLayer(Deducted(x, p.d1), p), layer)

Rule3(x, p, layer) ==
    LET y == Deducted(x, IF x.loss < p.d1 THEN x.loss ELSE 0)
    IN  Retained(x, Limited(x, y, p.l1, p.l1), layer)

Rule4(x, p) == Limited(x, Deducted(x, Part(x.accumulated_tiv, p.d1)), p.l1, p.l1)

Rule5(x, p) ==
    Limited(x, Deducted(x, Part(x.loss, p.d1)), Part(x.loss, p.l1), p.l1)

Rule6(x, p) == Widened(x, Deducted(x, Part(x.accumulated_tiv, p.d1)))

Rule7(x, p) ==
    LET y == Banded(x, p.d1, p.d2, p.d3, Deducted(x, p.d1))
    IN  Limited(x, [y EXCEPT !.over_limit = 0], p.l1, p.l1)

Rule8(x, p) ==
    Limited(x, IF IsMinimised(x, p.d1, p.d2) THEN MinimisedOnce(x, p.d2)
               ELSE Reduced(x, p.d1),
            p.l1, p.l1)

Rule9(x, p) == Limited(x, Deducted(x, Part(p.l1, p.d1)), p.l1, p.l1)

Rule10(x, p) == IF IsMaximised(x, p.d1, p.d3) THEN Maximised(x, p.d3)
                ELSE Reduced(x, p.d1)

Rule11(x, p) == IF IsMinimised(x, p.d1, p.d2) THEN Minimised(x, p.d2)
                ELSE Reduced(x, p.d1)

Rule12(x, p) ==
    IF x.loss > 0
    THEN Widened(x, Retained(x, Deducted(x, p.d1), 1))
    ELSE x

Rule13(x, p) == Banded(x, p.d1, p.d2, p.d3, Reduced(x, p.d1))

Rule14(x, p, layer) == Retained(x, Limited(x, x, p.l1, p.l1), layer)

\* Here d1 is an amount, and everything taken from the loss counts as over
\* the limit.
Rule15(x, p) ==
    LET paid == Least(Clamped(x.loss - p.d1), Part(x.loss, p.l1))
        y == [x EXCEPT !.loss = paid,
                       !.over_limit = IF x.loss > paid THEN x.loss - paid ELSE @]
    IN  Limited(x, y, paid, p.l1)

Rule16(x, p) == Widened(x, Deducted(x, Part(x.loss, p.d1)))

Rule17(x, p) == InLayer(Deducted(x, Part(x.loss, p.d1)), p)

Rule18(x, p) == InLayer(Deducted(x, Part(x.accumulated_tiv, p.d1)), p)

Rule19(x, p) ==
    LET ded == Part(x.loss, p.d1)
    IN  Banded(x, ded, p.d2, Top(p), Deducted(x, ded))

Rule20(x, p, layer) ==
    Retained(x, [x EXCEPT !.loss = IF @ > p.d1 THEN 0 ELSE @], layer)

Rule21(x, p) ==
    LET ded == Least(Part(x.accumulated_tiv, p.d1), x.loss)
    IN  Banded(x, ded, p.d2, p.d3, Deducted(x, ded))

Rule22(x, p, layer) ==
    Retained(x, Placed(x, p, Clamped(Least(Part(x.loss, p.sh1), p.l1))), layer)

Rule23(x, p, layer) ==
    Retained(x, Placed(x, p, Clamped(Least(x.loss, p.l1))), layer)

Rule24(x, p, layer) ==
    LET ceded == Clamped(Part(x.loss, p.sh1) - p.a1)
    IN  Retained(x, Placed(x, p, Least(ceded, p.l1)), layer)

Rule25(x, p, layer) == Retained(x, Placed(x, p, Part(x.loss, p.sh1)), layer)

\* The limit is applied only when the maximum deductible is not.
Rule26(x, p) ==
    LET ded == Part(x.loss, p.d1)
        y   == Banded(x, ded, p.d2, Top(p), Deducted(x, ded))
    IN  IF IsMaximised(x, ded, Top(p)) THEN y ELSE Limited(x, y, p.l1, p.l1)

Rule33(x, p) == Limited(x, Deducted(x, Part(x.loss, p.d1)), p.l1, p.l1)

Rule34(x, p, layer) ==
    LET y == Deducted(x, p.d1)
    IN  Retained(x, [y EXCEPT !.loss = Part(Clamped(@ - p.a1), p.sh1)], layer)

Rule35(x, p) ==
    LET ded == Part(x.loss, p.d1)
        y   == Banded(x, ded, p.d2, Top(p), Deducted(x, ded))
    IN  IF IsMaximised(x, ded, Top(p)) THEN y ELSE LimitedShare(x, y, p.l1)

Rule36(x, p) ==
    LET y == Banded(x, p.d1, p.d2, Top(p), Deducted(x, p.d1))
    IN  IF IsMaximised(x, p.d1, Top(p)) THEN y ELSE LimitedShare(x, y, p.l1)

applycalcrule(p, x, layer) ==
    CASE p.calcrule =  1 -> Rule1(x, p)
      [] p.calcrule =  2 -> Rule2(x, p, layer)
      [] p.calcrule =  3 -> Rule3(x, p, layer)
      [] p.calcrule =  4 -> Rule4(x, p)
      [] p.calcrule =  5 -> Rule5(x, p)
      [] p.calcrule =  6 -> Rule6(x, p)
      [] p.calcrule =  7 -> Rule7(x, p)
      [] p.calcrule =  8 -> Rule8(x, p)
      [] p.calcrule =  9 -> Rule9(x, p)
      [] p.calcrule = 10 -> Rule10(x, p)
      [] p.calcrule = 11 -> Rule11(x, p)
      [] p.calcrule = 12 -> Rule12(x, p)
      [] p.calcrule = 13 -> Rule13(x, p)
      [] p.calcrule = 14 -> Rule14(x, p, layer)
      [] p.calcrule = 15 -> Rule15(x, p)
      [] p.calcrule = 16 -> Rule16(x, p)
      [] p.calcrule = 17 -> Rule17(x, p)
      [] p.calcrule = 18 -> Rule18(x, p)
      [] p.calcrule = 19 -> Rule19(x, p)
      [] p.calcrule = 20 -> Rule20(x, p, layer)
      [] p.calcrule = 21 -> Rule21(x, p)
      [] p.calcrule = 22 -> Rule22(x, p, layer)
      [] p.calcrule = 23 -> Rule23(x, p, layer)
      [] p.calcrule = 24 -> Rule24(x, p, layer)
      [] p.calcrule = 25 -> Rule25(x, p, layer)
      [] p.calcrule = 26 -> Rule26(x, p)
      [] p.calcrule = 33 -> Rule33(x, p)
      [] p.calcrule = 34 -> Rule34(x, p, layer)
      [] p.calcrule = 35 -> Rule35(x, p)
      [] p.calcrule = 36 -> Rule36(x, p)
      [] OTHER -> x              \* 100, and a message for an unknown rule

------------------------------------------------------------------------------
(* Stepped policies *)

\* loss / accumulated_tiv compared with the trigger; nothing over nothing
\* compares false with everything.
Triggered(x, p) ==
    /\ x.accumulated_tiv > 0 \/ x.loss > 0
    /\ x.loss * PARTS >= p.ts * x.accumulated_tiv
    /\ p.te = PARTS \/ x.loss * PARTS < p.te * x.accumulated_tiv

\* The primary payout with the extra expenses it brings, grossed up for
\* debris removal.  base is what the extra expenses are a share of.
GrossedUp(p, primary, base) ==
    LET loss == primary + Least(Part(base, p.sc2), p.l2)
    IN  loss + Part(loss, p.sc1)

\* The primary payouts: of the exposure with and without a limit, of the
\* loss, of the limit, an amount, and of the loss up to a limit.
Payout27(p, x) == Least(Clamped(Part(x.accumulated_tiv, p.ps) - p.d1), p.l1)
Payout28(p, x) == Clamped(Part(x.loss, p.ps) - p.d1)
Payout29(p, x) == Clamped(Part(x.accumulated_tiv, p.ps) - p.d1)
Payout30(p, x) == Clamped(Part(p.l1, p.ps) - p.d1)
Payout31(p, x) == Clamped(p.ps - p.d1)
Payout32(p, x) == Least(Part(x.loss, p.ps), p.l1)

Payout(p, x) ==
    CASE p.calcrule = 27 -> Payout27(p, x)
      [] p.calcrule = 28 -> Payout28(p, x)
      [] p.calcrule = 29 -> Payout29(p, x)
      [] p.calcrule = 30 -> Payout30(p, x)
      [] p.calcrule = 31 -> Payout31(p, x)
      [] p.calcrule = 32 -> Payout32(p, x)

StepLoss(p, x) ==
    LET primary == Payout(p, x)
        pays == IF p.calcrule = 32 THEN x.loss >= p.ts ELSE Triggered(x, p)
        base == IF p.calcrule = 28 /\ p.ps = 0 THEN x.step_loss ELSE primary
    IN  IF pays THEN GrossedUp(p, primary, base) ELSE 0

\* step_loss starts again at step 1; the last step of the profile makes it
\* the loss.
Stepped(p, x, isLast) ==
    LET sum == StepLoss(p, x) + (IF p.step_id = 1 THEN 0 ELSE x.step_loss)
    IN  [x EXCEPT !.step_loss = sum, !.loss = IF isLast THEN sum ELSE @]

applycalcrule_stepped(p, x, layer, isLast) ==
    CASE p.calcrule =  2 -> Rule2(x, p, layer)
      [] p.calcrule = 12 -> [Rule12(x, p) EXCEPT !.under_limit = x.under_limit]
      [] p.calcrule = 14 -> Rule14(x, p, layer)
      [] p.calcrule \in 27..32 -> Stepped(p, x, isLast)
      [] p.calcrule = 34 -> Rule34(x, p, layer)
      [] OTHER -> x

\* What the loops of dofmcalc_stepped do to one record: the steps of the
\* profile in their order.
StepByStep(steps, x, layer) ==
    LET after[k \in 0..Len(steps)] ==
            IF k = 0 THEN x
            ELSE applycalcrule_stepped(steps[k], after[k - 1], layer, k = Len(steps))
    IN  after[Len(steps)]
==============================================================================
