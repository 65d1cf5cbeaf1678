----------------------------- MODULE StreamText ------------------------------
(***************************************************************************)
(* The programs that turn loss streams and summary streams into csv and    *)
(* back.  A stream is [id, number, words]: the high byte and the rest of   *)
(* its type, then a sequence of headers and records as in GulWriter.       *)
(***************************************************************************)
EXTENDS Integers, Sequences, SequencesExt, FiniteSets, FiniteSetsExt

LOCAL INSTANCE Occurrence

gulstream_id == 1
loss_stream_id == 2
summarycalc_id == 3
\* A type is recognised by a single bit of the high byte.
Has(stream, id) == (stream.id \div id) % 2 = 1

Terminator == <<"record", 0, <<>> >>
\* The lines printed from a stream: the word after a terminator is a header,
\* whatever it was written as, and the words up to the next are its records.
Listing(stream, Line(_, _)) ==
    LET Read(a, t) == IF a.header = <<>> THEN [a EXCEPT !.header = t]
                      ELSE IF t[2] = 0 THEN [a EXCEPT !.header = <<>>]
                      ELSE [a EXCEPT !.lines = @ \o Line(a.header, t)]
    IN  FoldLeft(Read, [header |-> <<>>, lines |-> <<>>], stream).lines

------------------------------------------------------------------------------
(* Loss streams: lines <<event, item, sidx, loss>> *)

\* A header for every change of event or item, after the terminator of the
\* block before: the last block is left open.  Rows above the largest sample
\* are skipped, unless they begin a block.
gultobin(lines, maxsampleindex, streamType) ==
    LET rows == Until(lines, LAMBDA l : Len(l) < 4)
        New(n) == n = 1 \/ SubSeq(rows[n], 1, 2) # SubSeq(rows[n - 1], 1, 2)
        Rec(n) == <<"record", rows[n][3], rows[n][4]>>
        Words(n) == IF New(n) THEN (IF n = 1 THEN <<>> ELSE <<Terminator>>)
                                   \o <<<<"header", rows[n][1], rows[n][2]>>, Rec(n)>>
                    ELSE IF rows[n][3] <= maxsampleindex THEN <<Rec(n)>> ELSE <<>>
    IN  [id |-> IF streamType = 1 THEN gulstream_id ELSE loss_stream_id, number |-> 1,
         words |-> FlattenSeq([n \in DOMAIN rows |-> Words(n)])]

\* The command line: -S must be given, -t is 1 or 2.
Refused(maxsampleindex, streamType) == maxsampleindex = -1 \/ streamType \notin {1, 2}

LossLines(stream, skipheader) ==
    (IF skipheader THEN <<>> ELSE << <<>> >>)
        \o Listing(stream.words, LAMBDA h, r : <<<<h[2], h[3], r[2], r[3]>>>>)
\* Items and coverages, of either type of stream; fmtocsv knows items alone.
gultocsv(stream, skipheader) ==
    IF /\ Has(stream, gulstream_id) \/ Has(stream, loss_stream_id)
       /\ stream.number \in {1, 2}
    THEN LossLines(stream, skipheader) ELSE <<>>
fmtocsv(stream, skipheader) ==
    IF Has(stream, loss_stream_id) /\ stream.number = 1 THEN LossLines(stream, skipheader)
    ELSE <<>>

------------------------------------------------------------------------------
(* Summary streams: lines <<event, expval, summary, sidx, loss>> *)

\* A header for every change of event, summary or exposure; the last block is
\* terminated too, and a file without rows gets a terminator of its own.
summarycalctobin(lines) ==
    LET rows == Until(lines, LAMBDA l : Len(l) < 5)
        New(n) == n = 1 \/ SubSeq(rows[n], 1, 3) # SubSeq(rows[n - 1], 1, 3)
        Rec(n) == <<"record", rows[n][4], rows[n][5]>>
        Words(n) == IF New(n) THEN (IF n = 1 THEN <<>> ELSE <<Terminator>>)
                                   \o <<<<"header", rows[n][1], rows[n][3], rows[n][2]>>, Rec(n)>>
                    ELSE <<Rec(n)>>
        end == IF Len(rows) = Len(lines) THEN <<Terminator>> ELSE <<>>
    IN  [id |-> summarycalc_id, number |-> 1,
         words |-> FlattenSeq([n \in DOMAIN rows |-> Words(n)]) \o end]

\* With -o the exposure is that of the loss, with -v that of the summary.
SummaryLine(h, r, ord, exposure) ==
    IF ord THEN <<h[2], h[3], r[2], r[3], IF r[3] = 0 THEN 0 ELSE h[4]>>
    ELSE IF exposure THEN <<h[2], h[4], h[3], r[2], r[3]>>
    ELSE <<h[2], h[3], r[2], r[3]>>

\* -z leaves the summaries without exposure out.
doitz(stream, ord, exposure) ==
    Listing(stream.words,
            LAMBDA h, r : IF h[4] = 0 THEN <<>> ELSE <<SummaryLine(h, r, ord, exposure)>>)
\* Both bits of the type are looked at here.
IsSummary(stream) == Has(stream, 1) /\ Has(stream, 2) /\ stream.number = 1
summarycalctocsv(stream, zero, ord, exposure, skipheader) ==
    IF ~IsSummary(stream) THEN <<>>
    ELSE (IF skipheader THEN <<>> ELSE << <<>> >>) \o
         IF zero THEN doitz(stream, ord, exposure)
         ELSE Listing(stream.words, LAMBDA h, r : <<SummaryLine(h, r, ord, exposure)>>)
==============================================================================
