--------------------------- MODULE SummaryReport ---------------------------
(* What summarycalc promises: a ledger with one account per event, summary  *)
(* set and summary, from which each closed event is reported once.          *)
(* "This is a simple sum of the loss value by event_id, sidx and            *)
(* summary_id" (docs/md/Specification.md).                                  *)
EXTENDS Integers

CONSTANTS Event, Output, SummarySet, MaxSummary, SampleSize, LossAt, CoverageStream,
          Tiv, ZeroOutput

VARIABLES
    co_to_s,    \* the summary xref: co_to_s[set][output]
    total,      \* losses received, by event, set, summary and slot
    expo,       \* exposure received, by event, set and summary
    started,    \* events of which a block has arrived
    closed,     \* events of which no further block will arrive
    reported,   \* blocks published, by summary set
    finished    \* the stream has ended and everything due is published

vars == <<co_to_s, total, expo, started, closed, reported, finished>>

SummaryId == 0 .. MaxSummary
Slot == 0 .. SampleSize + 2
Kept == {-1} \cup (1 .. SampleSize)

Due(e, s, i) == expo[e][s][i] > 0 \/ ZeroOutput
Report(e, s, i) ==
    [event |-> e, summary |-> i, expval |-> expo[e][s][i],
     loss |-> [k \in Kept |->
                 IF ZeroOutput \/ total[e][s][i][k + 2] > 0
                 THEN total[e][s][i][k + 2] ELSE -1]]
\* An amount goes, in every set, to the summary of the output.
Credited(account, o, k, x) ==
    [s \in SummarySet |-> [account[s] EXCEPT ![co_to_s[s][o]][k + 2] = @ + x]]
Exposed(account, o, x) ==
    [s \in SummarySet |-> [account[s] EXCEPT ![co_to_s[s][o]] = @ + x]]
InUse(s, i) == i > 0 /\ \E o \in Output : co_to_s[s][o] >= i

Init ==
    /\ co_to_s \in [SummarySet -> [Output -> SummaryId]]
    /\ total = [e \in Event |-> [s \in SummarySet |-> [i \in SummaryId |-> [k \in Slot |-> 0]]]]
    /\ expo = [e \in Event |-> [s \in SummarySet |-> [i \in SummaryId |-> 0]]]
    /\ started = {}
    /\ closed = {}
    /\ reported = [s \in SummarySet |-> {}]
    /\ finished = FALSE

\* The first block of an event arrives; all events started before are closed.
Start(e) ==
    /\ e \notin started
    /\ started' = started \cup {e}
    /\ closed' = started
    /\ \/ UNCHANGED expo
       \/ /\ CoverageStream
          /\ \E o \in Output :
               expo' = [expo EXCEPT ![e] = Exposed(expo[e], o, Tiv[o])]
    /\ UNCHANGED <<co_to_s, total, reported, finished>>

\* A record credits one amount, in every set, to the summary of one output.
Credit(e, o) ==
    /\ e \in started \ closed
    /\ \/ \E k \in Kept \cup {-2} : \E x \in LossAt[k] :
            /\ total' = [total EXCEPT ![e] = Credited(total[e], o, k, x)]
            /\ UNCHANGED expo
       \/ \E x \in LossAt[-3] \cup {Tiv[o]} :
            /\ expo' = [expo EXCEPT ![e] = Exposed(expo[e], o, x)]
            /\ UNCHANGED total
    /\ UNCHANGED <<co_to_s, started, closed, reported, finished>>

\* The stream ends.
Close ==
    /\ closed' = started
    /\ UNCHANGED <<co_to_s, total, expo, started, reported, finished>>

\* A closed event is reported, one summary at a time, never twice.
Publish(e, s, i) ==
    /\ e \in closed
    /\ InUse(s, i)
    /\ Due(e, s, i)
    /\ ~\E b \in reported[s] : b.event = e /\ b.summary = i
    /\ reported' = [reported EXCEPT ![s] = @ \cup {Report(e, s, i)}]
    /\ UNCHANGED <<co_to_s, total, expo, started, closed, finished>>

\* It is over only when nothing due is missing.
Stop ==
    /\ closed = started
    /\ \A e \in started, s \in SummarySet, i \in SummaryId :
         InUse(s, i) /\ Due(e, s, i) => Report(e, s, i) \in reported[s]
    /\ finished' = TRUE
    /\ UNCHANGED <<co_to_s, total, expo, started, closed, reported>>

Next ==
    /\ ~finished
    /\ \/ \E e \in Event : Start(e)
       \/ \E e \in Event, o \in Output : Credit(e, o)
       \/ Close
       \/ \E e \in Event, s \in SummarySet, i \in SummaryId : Publish(e, s, i)
       \/ Stop

Spec == Init /\ [][Next]_vars
=============================================================================
