------------------------------ MODULE Footprint ------------------------------
(***************************************************************************)
(* The footprint of a model: rows [event, areaperil, bin, prob] of a csv   *)
(* file, the binary files footprinttobin and footprintconv make of them,   *)
(* plain or compressed, each with an index by event, and footprinttocsv.   *)
(* A file is a sequence of cells after its header: the records themselves, *)
(* or the bytes of the compressed blocks.  zlib is external: a block of    *)
(* rows takes ZLen(rows) bytes and comes back only from all of its bytes.  *)
(***************************************************************************)
EXTENDS Integers, Sequences, FiniteSets, SequencesExt

CONSTANTS
    ZLen(_),        \* bytes of a compressed block of rows, counted in records
    MaxRatio        \* the compression ratio assumed when no size is recorded: 20

\* compress, and uncompress into a buffer of the given number of records: what
\* comes back is a sequence of one block, or of none when zlib refuses.
Compress(rows) == [n \in 1..ZLen(rows) |-> [block |-> rows, at |-> n]]
Uncompress(bytes, capacity) ==
    IF bytes # <<>> /\ bytes = Compress(bytes[1].block) /\ Len(bytes[1].block) <= capacity
    THEN <<bytes[1].block>> ELSE <<>>

\* The ids of a column in the order in which they first appear.
Ids(column) == SelectSeq([n \in DOMAIN column |-> IF column[n] \in ToSet(SubSeq(column, 1, n - 1))
                                                   THEN 0 ELSE column[n]], LAMBDA id : id # 0)

\* What makes footprinttobin give up: a bin above the number given (it returns),
\* an event or an areaperil of the event that comes back (it exits).
Seen(column, n) == /\ n > 1 /\ column[n] # column[n - 1]
                   /\ column[n] \in ToSet(SubSeq(column, 1, n - 1))
Areaperils(rows, n) == [m \in 1..n |-> <<rows[m].event, rows[m].areaperil>>]
Refused(rows, bins, n) ==
    \/ rows[n].bin > bins
    \/ Seen([m \in DOMAIN rows |-> rows[m].event], n)
    \/ Seen(Areaperils(rows, n), n)
Converted(rows, bins) ==
    LET bad == {n \in DOMAIN rows : Refused(rows, bins, n)}
    IN  IF bad = {} THEN Len(rows) ELSE (CHOOSE n \in bad : \A m \in bad : n <= m) - 1

\* The records of an event, without the event.
EventRows(rows, e) == LET mine == SelectSeq(rows, LAMBDA r : r.event = e)
                      IN  [n \in DOMAIN mine |-> [areaperil |-> mine[n].areaperil,
                                                   bin |-> mine[n].bin, prob |-> mine[n].prob]]

\* Index entries of blocks written one after the other.
\* mutant: the offset is advanced before the entry is written
IndexOfNext(ids, blocks, originals) ==
    [n \in DOMAIN ids |->
       [id |-> ids[n], size |-> Len(blocks[n]), original |-> originals[n],
        offset |-> FoldLeft(LAMBDA s, b : s + Len(b), 0, SubSeq(blocks, 1, n))]]
IndexOf(ids, blocks, originals) ==
    [n \in DOMAIN ids |->
       [id |-> ids[n], size |-> Len(blocks[n]), original |-> originals[n],
        offset |-> FoldLeft(LAMBDA s, b : s + Len(b), 0, SubSeq(blocks, 1, n - 1))]]
Flat(blocks) == FoldLeft(LAMBDA a, b : a \o b, <<>>, blocks)

\* footprinttobin: the entry of an event is written when the next one begins,
\* that of the last one at the end of the input, of which a refused row never
\* comes.  An input of no rows leaves an entry of the event 0.
EventIds(rows) == LET ids == Ids([n \in DOMAIN rows |-> rows[n].event])
                  IN  IF rows = <<>> THEN <<0>> ELSE ids
Indexed(rows, bins) ==
    LET done == SubSeq(rows, 1, Converted(rows, bins))
    IN  IF done = rows THEN EventIds(rows) ELSE IF done = <<>> THEN <<>> ELSE Front(EventIds(done))
\* The second word of the header: bit 0 for intensity uncertainty, bit 1 for the
\* sizes in the index of a compressed file.  Whether a file is compressed is in
\* its name.
Header(bins, uncertain, zip, sized) ==
    [bins |-> bins, zip |-> zip,
     options |-> (IF uncertain THEN 1 ELSE 0) + (IF sized THEN 2 ELSE 0)]
Sized(header) == header.zip /\ header.options \div 2 = 1
ToBin(rows, bins, uncertain) ==
    LET ids == Indexed(rows, bins)
        done == SubSeq(rows, 1, Converted(rows, bins))
        blocks == [n \in DOMAIN ids |-> EventRows(done, ids[n])]
    IN  [header |-> Header(bins, uncertain, FALSE, FALSE),
         data |-> Flat([n \in 1..Len(EventIds(done)) |-> EventRows(done, EventIds(done)[n])]),
         idx |-> IndexOf(ids, blocks, [n \in DOMAIN ids |-> 0])]
ToBinZ(rows, bins, uncertain, sized) ==
    LET ids == Indexed(rows, bins)
        done == SubSeq(rows, 1, Converted(rows, bins))
        blocks == [n \in DOMAIN ids |-> Compress(EventRows(done, ids[n]))]
    IN  [header |-> Header(bins, uncertain, TRUE, sized),
         data |-> Flat(blocks),
         idx |-> IndexOf(ids, blocks, [n \in DOMAIN ids |->
                            IF sized THEN Len(EventRows(done, ids[n])) ELSE 0])]

Bytes(file, offset, size) ==
    LET last == offset + size
    IN  SubSeq(file.data, offset + 1, IF last > Len(file.data) THEN Len(file.data) ELSE last)

\* footprintconv: a plain file into a compressed one, event by event, without
\* the sizes.
FootprintConv(file) ==
    LET blocks == [n \in DOMAIN file.idx |->
                     Compress(Bytes(file, file.idx[n].offset, file.idx[n].size))]
    IN  [header |-> [file.header EXCEPT !.zip = TRUE],
         data |-> Flat(blocks),
         idx |-> IndexOf([n \in DOMAIN blocks |-> file.idx[n].id], blocks,
                         [n \in DOMAIN blocks |-> 0])]

\* The buffer for a block: the size of the index, or the ratio assumed.
Capacity(file, entry, size) == IF Sized(file.header) THEN entry.original ELSE size * MaxRatio

\* footprinttocsv for a range of events; a compressed block goes from its
\* offset to the next entry's, the last one to the end of the file, and the
\* program exits at a block it cannot uncompress.
PrintRows(e, records) ==
    [n \in DOMAIN records |-> [event |-> e, areaperil |-> records[n].areaperil,
                               bin |-> records[n].bin, prob |-> records[n].prob]]
BlockOf(file, n) ==
    LET entry == file.idx[n]
        end == IF n < Len(file.idx) THEN file.idx[n + 1].offset ELSE Len(file.data)
        size == end - entry.offset
    IN  IF file.header.zip
        THEN Uncompress(Bytes(file, entry.offset, size), Capacity(file, entry, size))
        ELSE <<Bytes(file, entry.offset, entry.size)>>
FootprintToCsv(file, from, to) ==
    LET wanted == {n \in DOMAIN file.idx : file.idx[n].id \in from..to}
        failed == {n \in wanted : BlockOf(file, n) = <<>>}
        shown == {n \in wanted : \A m \in failed : n < m}
    IN  Flat([n \in DOMAIN file.idx |->
                IF n \in shown THEN PrintRows(file.idx[n].id, BlockOf(file, n)[1]) ELSE <<>>])
==============================================================================
