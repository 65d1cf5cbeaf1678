---------------------------- MODULE MC_FmEvents ----------------------------
(* fmcalc reading a stream that gultobin made from csv lines: every text of *)
(* up to two events with up to two items each, with any samples left out.   *)
(* gultobin does not terminate the last block; gulcalc does.  The stream is *)
(* of the present or the deprecated type.                                   *)
EXTENDS FmEvents
CONSTANT Lead                       \* the special samples of every block
MCLead == {-3, -2, -1}

Text == INSTANCE StreamText

Rows(e, i, S) == [n \in 1 .. Cardinality(S) |->
    LET s == SetToSortSeq(S, <)[n] IN <<e, i, s, <<e, i, s>> >>]
ItemOrders == {<<1>>, <<2>>, <<1, 2>>, <<2, 1>>}
EventRows(e) == UNION {
    {FlattenSeq([n \in 1 .. Len(o) |-> Rows(e, o[n], Lead \cup f[n])])
        : f \in [1 .. Len(o) -> SUBSET (1 .. SampleSize)]} : o \in ItemOrders}
Texts == {<<>>} \cup EventRows(1) \cup {a \o b : a \in EventRows(1), b \in EventRows(2)}
Open == {Text!gultobin(t, SampleSize, 2).words : t \in Texts}
Streams == Open \cup {Append(s, Text!Terminator) : s \in Open \ {<<>>}}

\* What gultobin makes of such a text is a stream FileInit admits.
ASSUME StreamsAdmitted ==
    \A s \in Streams, opening \in {mean_idx, tiv_idx} :
        Grouped(s) /\ Framed(s, opening) /\ Entered(s, opening)

MCInit == stream \in Streams /\ FileInit
Stopped == pc = "done" /\ UNCHANGED <<stream, closed, isOldGULStreamType_, rvars>>
MCNext == FileNext \/ Stopped
MCSpec == MCInit /\ [][MCNext]_<<stream, closed, isOldGULStreamType_, rvars>>
=============================================================================
