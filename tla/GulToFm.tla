------------------------------ MODULE GulToFm ------------------------------
(* gulcalc | fmcalc: two processes and the pipe between them.  fmcalc reads *)
(* while gulcalc writes; it sees a record once the buffer it was collected  *)
(* in has been written out, and the end of the stream once gulcalc ended.   *)
EXTENDS GulWriter

\* The exposure comes first in every block: gulcalc -i or -a, not -c.
ExposureFirst == -3 \in Lead
\* The records it leads an item's samples with: exposure, deviation and mean.
ItemLead == {-3, -2, -1}

VARIABLES pos, pc, gh, last_event_id, items, event_guls, current_item_index, calculated

Fm == INSTANCE FmEvents WITH
    stream <- written, closed <- ~open, isOldGULStreamType_ <- FALSE

readervars == <<pos, pc, gh, last_event_id, items, event_guls, current_item_index, calculated>>
vars == <<wvars, readervars>>

Init == WriterInit /\ Fm!ReaderInit
Gul == WriterNext /\ UNCHANGED readervars
FmReads == Fm!ReaderNext /\ UNCHANGED wvars
Ended == ~open /\ pc = "done" /\ UNCHANGED vars
Next == Gul \/ FmReads \/ Ended

\* Neither process waits for anything but its input, which ends: getmodel has
\* finitely many events, and a process that can run is scheduled.
Spec == Init /\ [][Next]_vars /\ WF_vars(Gul) /\ WF_vars(FmReads)

-----------------------------------------------------------------------------
Produced == {put[n] : n \in 1 .. Len(put)}
ProducedOf(e) == {l \in Produced : l[1] = e}
SidxOf(r) == IF r = 0 THEN -3 ELSE IF r = 1 THEN -1 ELSE r - 1
LossesIn(c) == {c.guls[r][k] : r \in Fm!Row, k \in 1 .. Len(c.items)} \ {NoLoss}

(* What fmcalc calculates for an event is what gulcalc produced for it:     *)
(* each item it produced losses for, with those losses in the rows of their *)
(* samples and zero in the others.  It holds however the stream was cut.    *)
FmSeesGul ==
    \A n \in 1 .. Len(calculated) :
        LET c == calculated[n] IN
           /\ LossesIn(c) = {l \in ProducedOf(c.event) : l[3] # -2}
           /\ \A r \in Fm!Row, k \in 1 .. Len(c.items) :
                 c.guls[r][k] \in {NoLoss, Loss(c.event, c.items[k], SidxOf(r))}

(* Every event gulcalc produces a loss for is calculated in the end, the    *)
(* last one too, which no later header announces.                           *)
EventuallyCalculated ==
    \A e \in Events :
        (ProducedOf(e) # {}) ~> (\E n \in 1 .. Len(calculated) : calculated[n].event = e)
=============================================================================
