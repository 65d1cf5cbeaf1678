------------------------------ MODULE FmEvents ------------------------------
(* How fmcalc reads the loss stream (fmcalc::doit): the losses of an event  *)
(* are collected, by sample and item, until the header of another event or  *)
(* the end of the stream, and then given to dofm, which calculates them.    *)
(*                                                                          *)
(* One action is one fread with what follows it.  The stream comes from the *)
(* environment: a finished file here, a running gulcalc in GulToFm.         *)
EXTENDS Integers, Sequences, SequencesExt, FiniteSetsExt

CONSTANT SampleSize                 \* the second word of the stream

ASSUME ReaderAssumption == SampleSize \in Nat

VARIABLES
    isOldGULStreamType_,    \* a gul item stream, maybe without exposures (rigid)
    stream,         \* what has been written to the pipe
    closed,         \* whether its writer has ended
    pos,            \* how much of it has been read
    pc,             \* the next fread: "header", "record"; or "done"
    gh,             \* the header read last: <<event_id, item_id>>
    last_event_id,
    items,          \* the items of the event, in the order of their blocks
    event_guls,     \* event_guls[row][item index]
    current_item_index,
    calculated      \* history: the calls of dofm

rvars == <<pos, pc, gh, last_event_id, items, event_guls, current_item_index, calculated>>

tiv_idx == -3
mean_idx == -1
Row == 0 .. SampleSize + 1      \* exposure, mean, samples 1..
NoLoss == <<>>                  \* the zero a vector is resized with
gettiv(e, i) == <<e, i, tiv_idx>>    \* from the coverages file

NextRecord == stream[pos + 1]
Available == pos < Len(stream)
EndOfFile == closed /\ pos = Len(stream)
IsHeader(t) == t[1] = "header"

-----------------------------------------------------------------------------
ReaderInit ==
    /\ pos = 0 /\ pc = "header" /\ gh = <<-1, -1>> /\ last_event_id = -1
    /\ items = <<>> /\ event_guls = [r \in Row |-> <<>>] /\ current_item_index = 0
    /\ calculated = <<>>

\* A call of dofm with the event collected so far.
dofm == Append(calculated, [event |-> last_event_id, items |-> items, guls |-> event_guls])

\* The header of the next block, maybe of the next event.
ReadHeader ==
    /\ pc = "header" /\ Available /\ IsHeader(NextRecord)
    /\ gh' = <<NextRecord[2], NextRecord[3]>>
    /\ pos' = pos + 1 /\ pc' = "record"
    /\ IF gh'[1] # last_event_id
       THEN /\ calculated' = IF last_event_id # -1 THEN dofm ELSE calculated
            /\ items' = <<>>
            /\ event_guls' = [r \in Row |-> <<>>]
            /\ last_event_id' = gh'[1]
       ELSE UNCHANGED <<calculated, items, event_guls, last_event_id>>
    /\ UNCHANGED current_item_index

EndAtHeaderLost ==      \* mutant: the end of the stream is no end of an event
    /\ pc = "header" /\ EndOfFile
    /\ pc' = "done"
    /\ UNCHANGED <<pos, gh, last_event_id, items, event_guls, current_item_index, calculated>>

\* The stream ends where a header is expected.
EndAtHeader ==
    /\ pc = "header" /\ EndOfFile
    /\ calculated' = IF last_event_id # -1 THEN dofm ELSE calculated
    /\ pc' = "done"
    /\ UNCHANGED <<pos, gh, last_event_id, items, event_guls, current_item_index>>

EndAtRecordLost ==      \* mutant: a block must be terminated
    /\ pc = "record" /\ EndOfFile
    /\ pc' = "done"
    /\ UNCHANGED <<pos, gh, last_event_id, items, event_guls, current_item_index, calculated>>

\* The stream ends within a block.
EndAtRecord ==
    /\ pc = "record" /\ EndOfFile
    /\ calculated' = dofm
    /\ pc' = "done"
    /\ UNCHANGED <<pos, gh, last_event_id, items, event_guls, current_item_index>>

ResizedLast(rows) ==                    \* mutant: new cells repeat the item before
    [r \in Row |-> Append(rows[r], IF rows[r] = <<>> THEN NoLoss ELSE Last(rows[r]))]

\* A new column: every row is resized, which adds zeros.
Resized(rows) == [r \in Row |-> rows[r] \o <<NoLoss>>]
Put(rows, r, n, loss) == [rows EXCEPT ![r][n] = loss]
RowOf(sidx) == IF sidx = mean_idx THEN 1 ELSE sidx + 1
OpensItem(sidx) == sidx = IF isOldGULStreamType_ THEN mean_idx ELSE tiv_idx

EndsBlock(sidx) == sidx = 0

\* The next record of the block, or its terminator.
ReadRecord ==
    /\ pc = "record" /\ Available /\ ~IsHeader(NextRecord)
    /\ pos' = pos + 1
    /\ LET sidx == NextRecord[2]
           loss == NextRecord[3]
           opens == OpensItem(sidx)
           rows == IF opens THEN Resized(event_guls) ELSE event_guls
           n == IF opens THEN Len(items) + 1 ELSE current_item_index
           tiv == IF isOldGULStreamType_ THEN gettiv(last_event_id, gh[2]) ELSE loss
           withtiv == IF opens THEN Put(rows, 0, n, tiv) ELSE rows
       IN IF EndsBlock(sidx)
          THEN /\ pc' = "header"
               /\ UNCHANGED <<items, event_guls, current_item_index>>
          ELSE /\ pc' = pc
               /\ items' = IF opens THEN Append(items, gh[2]) ELSE items
               /\ current_item_index' = n
               /\ event_guls' = IF sidx >= mean_idx THEN Put(withtiv, RowOf(sidx), n, loss)
                                ELSE withtiv
    /\ UNCHANGED <<gh, last_event_id, calculated>>

ReaderNext == ReadHeader \/ EndAtHeader \/ EndAtRecord \/ ReadRecord

-----------------------------------------------------------------------------
(* A stream read from a finished file.                                      *)
Heads(s) == {p \in 1 .. Len(s) : IsHeader(s[p])}
HeadOf(s, p) == Max({q \in Heads(s) : q <= p})     \* of the block p is in
Opening == IF isOldGULStreamType_ THEN mean_idx ELSE tiv_idx

\* The headers are in the order of the events: the blocks of an event follow
\* each other.
Grouped(s) ==
    /\ \A p \in Heads(s) : s[p][2] \in Nat
    /\ \A p, q, r \in Heads(s) : p < q /\ q < r /\ s[p][2] = s[r][2] => s[q][2] = s[p][2]

\* A header stands at the beginning and after terminators; an event has one
\* block for an item; a block has no sample twice and its losses come after
\* the record that opens the item; exposures are those of the coverages file.
Framed(s, opening) ==
    /\ \A p \in 1 .. Len(s) :
           IsHeader(s[p]) <=> p = 1 \/ (~IsHeader(s[p - 1]) /\ s[p - 1][2] = 0)
    /\ \A p, q \in Heads(s) : s[p][2] = s[q][2] /\ s[p][3] = s[q][3] => p = q
    /\ \A p \in (1 .. Len(s)) \ Heads(s) :
        LET h == HeadOf(s, p) IN
        /\ s[p][2] \in -3 .. SampleSize
        /\ s[p][2] = tiv_idx => s[p][3] = gettiv(s[h][2], s[h][3])
        /\ s[p][2] >= mean_idx => \E q \in h + 1 .. p : s[q][2] = opening
        /\ \A q \in h + 1 .. p - 1 : s[q][2] # s[p][2]

\* The file does not end before the item of its last block is opened.
Entered(s, opening) ==
    \A h \in Heads(s) : \E p \in (1 .. Len(s)) \ Heads(s) : HeadOf(s, p) = h /\ s[p][2] = opening

FileInit ==
    /\ closed = TRUE /\ isOldGULStreamType_ \in BOOLEAN
    /\ stream \in Seq(Range(stream))
    /\ Grouped(stream) /\ Framed(stream, Opening) /\ Entered(stream, Opening)
    /\ ReaderInit
FileNext == ReaderNext /\ UNCHANGED <<stream, closed, isOldGULStreamType_>>
FileSpec == FileInit /\ [][FileNext]_<<stream, closed, isOldGULStreamType_, rvars>>

-----------------------------------------------------------------------------
\* The meaning of a stream, from its blocks: which losses it holds.
Headers == Heads(stream)
BlockOf(p) == HeadOf(stream, p)
StreamEvents == {stream[p][2] : p \in Headers}
LossIn(e, i, s) ==
    LET at == {p \in (1 .. Len(stream)) \ Headers :
                  /\ stream[p][2] = s
                  /\ stream[BlockOf(p)][2] = e /\ stream[BlockOf(p)][3] = i}
    IN IF at = {} THEN NoLoss ELSE stream[CHOOSE p \in at : TRUE][3]
ItemsIn(e) == {stream[p][3] : p \in {q \in Headers : stream[q][2] = e}}

(* No event is calculated twice or out of order, and when fmcalc ends every *)
(* event of the stream has been calculated: the three places that call dofm *)
(* exclude each other.                                                      *)
CalculatedOnce ==
    /\ \A m, n \in 1 .. Len(calculated) : m < n => calculated[m].event # calculated[n].event
    /\ pc = "done" => {calculated[n].event : n \in 1 .. Len(calculated)} = StreamEvents

(* The matrix dofm gets holds the losses of its event and nothing else:     *)
(* every item of the event once, its exposure, mean and samples as the      *)
(* stream has them, and zero where the stream has no record.                *)
VectorsAreExact ==
    \A n \in 1 .. Len(calculated) :
        LET c == calculated[n]
            Cells(r) == {<<c.items[k], c.guls[r][k]>> : k \in 1 .. Len(c.items)}
            Sidx(r) == IF r = 0 THEN tiv_idx ELSE IF r = 1 THEN mean_idx ELSE r - 1
            Expected(i, r) == IF r = 0 THEN <<c.event, i, tiv_idx>> ELSE LossIn(c.event, i, Sidx(r))
        IN /\ Len(c.items) = Cardinality(ItemsIn(c.event))
           /\ \A r \in Row : Cells(r) = {<<i, Expected(i, r)>> : i \in ItemsIn(c.event)}
=============================================================================
