----------------------------- MODULE GulWriter -----------------------------
(* How gulcalc writes a loss stream.  itemoutputgul, correlatedoutputgul    *)
(* and covoutputgul are the same algorithm over three buffers: records are  *)
(* collected in a buffer of fixed size, which is written out when a record  *)
(* finds it full, and for good when the last CDF has been processed.  The   *)
(* stream is a sequence of blocks, one per event and item: a header, the    *)
(* records, and a terminator that the next block's first record writes.     *)
(*                                                                          *)
(* A loss is represented by the event, item and sample it is the loss of.   *)
(* Sizes are in words of 8 bytes: every header and record is a whole number *)
(* of them.                                                                 *)
EXTENDS Integers, Sequences, SequencesExt, FiniteSetsExt

CONSTANTS Events, Items,    \* ids of events and of items (or coverages)
          SampleSize,       \* number of samples (-S)
          Lead,             \* the special samples every block begins with
          HeaderSize, RecSize,      \* sizeof gulSampleslevelHeader, ..Rec
          BufSize, Spare    \* bufsize, and what is allocated beyond it

ASSUME WriterAssumption ==
    /\ Events \subseteq Nat \ {0} /\ Items \subseteq Nat \ {0}
    /\ SampleSize \in Nat
    /\ Lead \subseteq -3 .. -1 /\ Lead # {}
    /\ HeaderSize \in Nat \ {0} /\ RecSize \in Nat \ {0}
    /\ BufSize \in Nat \ {0} /\ Spare \in Nat

\* The room one call may need, beyond the offset a full buffer starts at: what
\* the allocation of the float build provides, with equality.
ASSUME RoomAssumption == HeaderSize + 2 * RecSize <= Spare + 1

VARIABLES
    buf,            \* the records in the buffer
    bufoffset,      \* and their size
    lastheader,     \* event and item of the block being written
    isFirst,        \* no header has been written yet
    written,        \* the records given to the writer callback so far
    open,           \* gulcalc is still running
    put             \* history: the losses gulcalc has produced

wvars == <<buf, bufoffset, lastheader, isFirst, written, open, put>>

Sidx == Lead \cup 1 .. SampleSize
Header(e, i) == <<"header", e, i>>
Record(s, loss) == <<"record", s, loss>>
Loss(e, i, s) == <<e, i, s>>
NoLoss == <<>>
Terminator == Record(0, NoLoss)
IsHeader(t) == t[1] = "header"

-----------------------------------------------------------------------------
WriterInit ==
    /\ buf = <<>> /\ bufoffset = 0 /\ written = <<>>
    /\ lastheader = <<0, 0>> /\ isFirst = TRUE
    /\ open = TRUE /\ put = <<>>

AddedNoEnd(e, i, s) ==                  \* mutant: no terminator
    (IF <<e, i>> # lastheader THEN <<Header(e, i)>> ELSE <<>>)
        \o <<Record(s, Loss(e, i, s))>>
AddedByEvent(e, i, s) ==                \* mutant: a block per event
    LET new == e # lastheader[1] IN
    (IF new /\ ~isFirst THEN <<Terminator>> ELSE <<>>)
        \o (IF new THEN <<Header(e, i)>> ELSE <<>>)
        \o <<Record(s, Loss(e, i, s))>>

\* What one record adds to the buffer.
Added(e, i, s) ==
    LET new == <<e, i>> # lastheader IN
    (IF new /\ ~isFirst THEN <<Terminator>> ELSE <<>>)
        \o (IF new THEN <<Header(e, i)>> ELSE <<>>)
        \o <<Record(s, Loss(e, i, s))>>

FullLate == bufoffset > BufSize         \* mutant: one record too late
Full == bufoffset >= BufSize
AddedSize(e, i) ==
    LET new == <<e, i>> # lastheader IN
    (IF new /\ ~isFirst THEN RecSize ELSE 0) + (IF new THEN HeaderSize ELSE 0) + RecSize

itemoutputgul(e, i, s) ==
    /\ written' = IF Full THEN written \o buf ELSE written
    /\ buf' = (IF Full THEN <<>> ELSE buf) \o Added(e, i, s)
    /\ bufoffset' = (IF Full THEN 0 ELSE bufoffset) + AddedSize(e, i)
    /\ lastheader' = <<e, i>>
    /\ isFirst' = FALSE
    /\ put' = Append(put, <<e, i, s>>)
    /\ UNCHANGED open

\* The order in which gulcalc produces losses: events one after the other,
\* each item once per event, the special samples first and then those samples
\* that reach the loss threshold.
Follows(e, i, s) ==
    IF put = <<>> THEN s = Min(Lead)
    ELSE LET l == Last(put) IN
         \/ e = l[1] /\ i = l[2] /\ s > l[3] /\ \A m \in Lead : m > l[3] => m >= s
         \/ /\ s = Min(Lead) /\ l[3] >= Max(Lead)
            /\ e >= l[1] /\ \A n \in 1 .. Len(put) : <<e, i>> # <<put[n][1], put[n][2]>>

Put == open /\ \E e \in Events, i \in Items, s \in Sidx :
           Follows(e, i, s) /\ itemoutputgul(e, i, s)

\* The end of mode0 and mode1: what is left in the buffer is written.
FinalWrite ==
    /\ open
    /\ put # <<>> => Last(put)[3] >= Max(Lead)
    /\ written' = written \o buf
    /\ open' = FALSE
    /\ UNCHANGED <<buf, bufoffset, lastheader, isFirst, put>>

WriterNext == Put \/ FinalWrite
WriterStopped == ~open /\ UNCHANGED wvars

WriterSpec == WriterInit /\ [][WriterNext \/ WriterStopped]_wvars

-----------------------------------------------------------------------------
\* The stream as far as it exists: with what is still in the buffer.
Stream == IF open THEN written \o buf ELSE written

(* The type invariant: the offset is a size and the header the last one put. *)
TypeOK ==
    /\ bufoffset \in Nat
    /\ isFirst \in BOOLEAN /\ open \in BOOLEAN
    /\ lastheader \in {<<0, 0>>} \cup (Events \X Items)
    /\ isFirst <=> lastheader = <<0, 0>>

(* No call of itemoutputgul writes behind the end of the allocated buffer,  *)
(* although the buffer is tested before a terminator, a header and a record *)
(* are added.                                                               *)
BufferBound == bufoffset <= BufSize + Spare

(* Wherever the buffer was written out: a header stands at the beginning of *)
(* the stream and after every terminator, and nowhere else.                 *)
BlocksClosed == \A p \in 1 .. Len(Stream) :
    IsHeader(Stream[p]) <=> p = 1 \/ Stream[p - 1] = Terminator

=============================================================================
