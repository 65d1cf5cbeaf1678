---------------------------- MODULE SummaryCalc ----------------------------
(* summarycalc: the process that sums the losses of a loss stream by event  *)
(* and summary, for up to ten summary sets at once, and writes one summary  *)
(* stream (and, with -m, one index file) per open set.                      *)
(*                                                                          *)
(* The process keeps ONE accumulator array per summary set (sssl, sse) and  *)
(* reuses it for every event.  Nothing in the stream says where an event    *)
(* ends: the process finds out from the first record of the next event, or  *)
(* from the end of the stream, and only then writes the event's report.     *)
(* The environment is the upstream process of the pipe: it sends the blocks *)
(* of one event together, one block per output, in any order.               *)
EXTENDS Integers, Sequences, FiniteSets

CONSTANTS
    Event,          \* event ids of the stream (positive)
    Output,         \* output ids (fm), item ids or coverage ids (gul)
    SummarySet,     \* the summary sets with an open output (fout[s] # nullptr)
    MaxSummary,     \* bound on the summary ids of a set
    SampleSize,     \* samplesize field of the stream
    LossAt,         \* LossAt[k]: the losses a record with sidx k may carry
    CoverageStream, \* TRUE: -c/-g, exposure from coverages.bin; FALSE: -f/-i
    Tiv,            \* coverages_: exposure of each id (coverage streams)
    ZeroOutput      \* zerooutput_, option -z

NoEvent == -1       \* the initial value of the static last_event_id
NoOutput == -1       \* ... and of last_coverage_or_output_id

NotWritten == -1    \* in a block: no record with this sidx

tiv_idx == -3
std_dev_idx == -2
mean_idx == -1

\* The sample indexes a record of the stream may carry.
Sidx == (tiv_idx .. mean_idx) \cup (1 .. SampleSize)
\* The positions of one accumulator row: position sidx + 2.
Slot == 0 .. SampleSize + 2
\* The sample indexes a report contains: neither -3 nor -2 nor the 0 slot.
Reported == {mean_idx} \cup (1 .. SampleSize)
SummaryId == 0 .. MaxSummary

ASSUME ParameterAssumption ==
    /\ Event \subseteq Nat \ {0}
    /\ Output \subseteq Nat \ {0}
    /\ SummarySet \subseteq 0 .. 9
    /\ MaxSummary \in Nat \ {0}
    /\ SampleSize \in Nat
    /\ LossAt \in [Sidx -> SUBSET Nat]
    /\ CoverageStream \in BOOLEAN
    /\ Tiv \in [Output -> Nat]
    /\ ZeroOutput \in BOOLEAN

HeaderBytes == 12   \* summarySampleslevelHeader: event, summary, expval
RecBytes == 8       \* sampleslevelRec: sidx, loss
PrologueBytes == 12 \* stream type, sample size, summary set

VARIABLES
    pc,             \* where the reader is: "header", "record", "flush", "done"
    fh,             \* last stream header read: event and output
    rec,            \* record being handled while its event's flush is running
    expure_val,     \* exposure of the current block (its sidx -3 record)
    last_event_id, last_output_id,  \* statics of dosummary
    sssl,           \* sssl[set][summary][slot]: losses of the current event
    sse,            \* sse[set][summary]: exposure of the current event
    co_to_s,        \* co_to_s[set][output]: the summary xref, 0 if unmapped
    flush,          \* loop of outputsummary: event id, last?, sets/ids to do
    out,            \* out[set]: the blocks written so far
    idx,            \* idx[set]: the lines of the index file
    offset,         \* offset[set]: offset_, bytes written so far
    sent,           \* history: outputs whose block was started, per event
    last_sidx,      \* history: last sidx of the current block
    total, expo     \* history: losses and exposure received, BY EVENT

codeVars == <<fh, rec, expure_val, last_event_id, last_output_id, sssl, sse,
              flush, out, idx, offset>>
historyVars == <<sent, last_sidx, total, expo>>
vars == <<pc, co_to_s, codeVars, historyVars>>

-----------------------------------------------------------------------------
\* The ids outputsummaryset visits: 1 to the largest id of the set's xref.
IdsOf(s) == {i \in SummaryId \ {0} : \E o \in Output : co_to_s[s][o] >= i}

\* What the xref file may hold: at least one output of each open set is
\* mapped and the smallest id is 1, which alloc_ssl_arrays insists on.
Xref == [SummarySet -> {f \in [Output -> SummaryId] : \E o \in Output : f[o] = 1}]

LossTable == [SummarySet -> [SummaryId -> [Slot -> Nat]]]
ExposureTable == [SummarySet -> [SummaryId -> Nat]]
ZeroRow == [k \in Slot |-> 0]
ZeroSssl == [s \in SummarySet |-> [i \in SummaryId |-> ZeroRow]]
ZeroSse == [s \in SummarySet |-> [i \in SummaryId |-> 0]]

\* One block of the summary stream, as outputsummaryset writes it.
Block == [event : Event, summary : SummaryId \ {0}, expval : Nat,
          loss : [Reported -> Nat \cup {NotWritten}]]
BlockOf(e, i, row, exposure) ==
    [event |-> e, summary |-> i, expval |-> exposure,
     loss |-> [k \in Reported |->
                 IF ZeroOutput \/ row[k + 2] > 0 THEN row[k + 2] ELSE NotWritten]]
Due(exposure) == exposure > 0 \/ ZeroOutput
Written(b) == {k \in Reported : b.loss[k] # NotWritten}

\* The arrays as reset_sssl_array and reset_sse_array leave them.
StaleSssl == sssl                           \* mutant: reset_sssl_array not called
ClearedSssl == ZeroSssl
ClearedSse == ZeroSse

\* offset_ after the header, the records and the terminator of a block.
OffsetNoTerminator(s, b) ==                 \* mutant: terminator not counted
    offset[s] + HeaderBytes + RecBytes * Cardinality(Written(b))
OffsetAfter(s, b) ==
    offset[s] + HeaderBytes + RecBytes * Cardinality(Written(b)) + RecBytes

AddLoss(table, o, k, x) ==
    [s \in SummarySet |-> [table[s] EXCEPT ![co_to_s[s][o]][k + 2] = @ + x]]
AddExposure(table, o, x) ==
    [s \in SummarySet |-> [table[s] EXCEPT ![co_to_s[s][o]] = @ + x]]

-----------------------------------------------------------------------------
NoRec == [sidx |-> 0, loss |-> 0]
NoFlush == [event |-> NoEvent, final |-> FALSE, todo |-> {}]
NoHeader == [event |-> NoEvent, output |-> NoOutput]

Init ==
    /\ co_to_s \in Xref
    /\ pc = "header"
    /\ fh = NoHeader
    /\ rec = NoRec
    /\ expure_val = 0
    /\ last_event_id = NoEvent
    /\ last_output_id = NoOutput
    /\ sssl = ZeroSssl
    /\ sse = ZeroSse
    /\ flush = NoFlush
    /\ out = [s \in SummarySet |-> <<>>]
    /\ idx = [s \in SummarySet |-> <<>>]
    /\ offset = [s \in SummarySet |-> PrologueBytes]
    /\ sent = [e \in Event |-> {}]
    /\ last_sidx = tiv_idx - 1
    /\ total = [e \in Event |-> ZeroSssl]
    /\ expo = [e \in Event |-> ZeroSse]

\* The outer loop reads the header of the next block.  The upstream process
\* sends all blocks of an event together and one block per output.
ReadHeader(e, o) ==
    /\ pc = "header"
    /\ fh.event = e \/ sent[e] = {}
    /\ o \notin sent[e]
    /\ pc' = "record"
    /\ fh' = [event |-> e, output |-> o]
    /\ expure_val' = IF CoverageStream THEN Tiv[o] ELSE 0
    /\ sent' = [sent EXCEPT ![e] = @ \cup {o}]
    /\ last_sidx' = tiv_idx - 1
    /\ expo' = IF CoverageStream
                 THEN [expo EXCEPT ![e] = AddExposure(@, o, Tiv[o])]
                 ELSE expo
    /\ UNCHANGED <<co_to_s, rec, last_event_id, last_output_id, sssl, sse,
                   flush, out, idx, offset, total>>

\* The order in which the upstream process sends the records of a block: a
\* loss stream starts with sidx -3, a coverage stream with sidx -1, and the
\* mean (-1) precedes the samples.
FirstSidx == IF CoverageStream THEN mean_idx ELSE tiv_idx
MayFollow(k) ==
    /\ k > last_sidx
    /\ k = FirstSidx \/ last_sidx >= FirstSidx
    /\ k >= 1 => last_sidx >= mean_idx

\* The exposure record of a loss stream: dosummary is not called.
ReadTiv(x) ==
    /\ pc = "record"
    /\ ~CoverageStream
    /\ MayFollow(tiv_idx)
    /\ expure_val' = x
    /\ last_sidx' = tiv_idx
    /\ expo' = [expo EXCEPT ![fh.event] = AddExposure(@, fh.output, x)]
    /\ UNCHANGED <<pc, co_to_s, fh, rec, last_event_id, last_output_id, sssl,
                   sse, flush, out, idx, offset, sent, total>>

\* The output id is new to the event: its exposure has not been counted yet.
NewOutput(newEvent) == newEvent \/ fh.output # last_output_id

\* What dosummary leaves in the static last_event_id.
EventNotStored == last_event_id             \* mutant: not updated
CurrentEvent == fh.event

\* The tail of dosummary once the arrays belong to the record's event: the
\* exposure once per output id, the loss for every record.
Accumulate(losses, exposures, newEvent, r) ==
    /\ sse' = IF NewOutput(newEvent)
                THEN AddExposure(exposures, fh.output, expure_val)
                ELSE exposures
    /\ sssl' = AddLoss(losses, fh.output, r.sidx, r.loss)
    /\ last_event_id' = CurrentEvent
    /\ last_output_id' = fh.output

\* The (set, summary) pairs that outputsummary visits.
Visits == {p \in SummarySet \X SummaryId : p[2] \in IdsOf(p[1])}

\* dosummary on a record of the event already being summed, or on the first
\* record of the stream.
ReadRecord(k, x) ==
    /\ pc = "record"
    /\ k # tiv_idx
    /\ MayFollow(k)
    /\ last_event_id \in {fh.event, NoEvent}
    /\ LET first == last_event_id = NoEvent IN
         Accumulate(sssl, IF first THEN ClearedSse ELSE sse, first,
                    [sidx |-> k, loss |-> x])
    /\ last_sidx' = k
    /\ total' = [total EXCEPT ![fh.event] = AddLoss(@, fh.output, k, x)]
    /\ UNCHANGED <<pc, co_to_s, fh, rec, expure_val, flush, out, idx, offset,
                   sent, expo>>

\* The event whose report dosummary writes.
NewEvent == fh.event                        \* mutant: id of the new event
SummedEvent == last_event_id

\* dosummary on the first record of another event: the report of the previous
\* event is written first.
StartFlush(k, x) ==
    /\ pc = "record"
    /\ k # tiv_idx
    /\ MayFollow(k)
    /\ last_event_id \notin {fh.event, NoEvent}
    /\ pc' = "flush"
    /\ rec' = [sidx |-> k, loss |-> x]
    /\ flush' = [event |-> SummedEvent, final |-> FALSE, todo |-> Visits]
    /\ last_sidx' = k
    /\ total' = [total EXCEPT ![fh.event] = AddLoss(@, fh.output, k, x)]
    /\ UNCHANGED <<co_to_s, fh, expure_val, last_event_id, last_output_id,
                   sssl, sse, out, idx, offset, sent, expo>>

\* The loop counters after summary i of set s.
KeepIfNotDue(s, i) ==                       \* mutant: no increment on skip
    IF Due(sse[s][i]) THEN flush.todo \ {<<s, i>>} ELSE flush.todo
Remaining(s, i) == flush.todo \ {<<s, i>>}

\* One iteration of the loops of outputsummary and outputsummaryset: sets and
\* summary ids in ascending order.
OutputSummary(s, i) ==
    LET b == BlockOf(flush.event, i, sssl[s][i], sse[s][i]) IN
    /\ pc = "flush"
    /\ <<s, i>> \in flush.todo
    /\ \A p \in flush.todo : s < p[1] \/ (s = p[1] /\ i <= p[2])
    /\ flush' = [flush EXCEPT !.todo = Remaining(s, i)]
    /\ IF Due(sse[s][i])
         THEN /\ out' = [out EXCEPT ![s] = Append(@, b)]
              /\ idx' = [idx EXCEPT ![s] =
                            Append(@, [summary |-> i, offset |-> offset[s]])]
              /\ offset' = [offset EXCEPT ![s] = OffsetAfter(s, b)]
         ELSE UNCHANGED <<out, idx, offset>>
    /\ UNCHANGED <<pc, co_to_s, fh, rec, expure_val, last_event_id,
                   last_output_id, sssl, sse, historyVars>>

\* The report is complete: dosummary clears the arrays and handles the record
\* that announced the new event.
EndFlush ==
    /\ pc = "flush"
    /\ flush.todo = {}
    /\ ~flush.final
    /\ Accumulate(ClearedSssl, ClearedSse, TRUE, rec)
    /\ pc' = "record"
    /\ rec' = NoRec
    /\ flush' = NoFlush
    /\ UNCHANGED <<co_to_s, fh, expure_val, out, idx, offset, historyVars>>

\* The record with sidx 0 ends the block.  The mean is never missing from it.
ReadTerminator ==
    /\ pc = "record"
    /\ last_sidx >= mean_idx
    /\ pc' = "header"
    /\ UNCHANGED <<co_to_s, codeVars, historyVars>>

\* The final report is written: some header was read.
NoFinalReport == FALSE                      \* mutant: as dogulitemxsummary
havedata == fh # NoHeader

\* End of the stream, met where a header is expected or, since gulcalc does
\* not terminate its last block, where a record is: if there was any header
\* (havedata) the report of the last header's event is written.
ReadEof ==
    /\ pc = "header" \/ (pc = "record" /\ last_sidx >= mean_idx)
    /\ IF havedata
         THEN /\ pc' = "flush"
              /\ flush' = [event |-> fh.event, final |-> TRUE, todo |-> Visits]
         ELSE pc' = "done" /\ UNCHANGED flush
    /\ UNCHANGED <<co_to_s, fh, rec, expure_val, last_event_id, last_output_id,
                   sssl, sse, out, idx, offset, historyVars>>

Finish ==
    /\ pc = "flush"
    /\ flush.todo = {}
    /\ flush.final
    /\ pc' = "done"
    /\ UNCHANGED <<co_to_s, codeVars, historyVars>>

Next ==
    \/ \E e \in Event, o \in Output : ReadHeader(e, o)
    \/ \E x \in LossAt[tiv_idx] : ReadTiv(x)
    \/ \E k \in Sidx : \E x \in LossAt[k] : ReadRecord(k, x) \/ StartFlush(k, x)
    \/ \E s \in SummarySet, i \in SummaryId : OutputSummary(s, i)
    \/ EndFlush
    \/ ReadTerminator
    \/ ReadEof
    \/ Finish

Spec == Init /\ [][Next]_vars
\* The upstream process keeps writing until it closes the pipe, and a blocked
\* read or write resumes as soon as the other end is ready.
FairSpec == Spec /\ WF_vars(Next)

-----------------------------------------------------------------------------
TypeOK ==
    /\ pc \in {"header", "record", "flush", "done"}
    /\ co_to_s \in Xref
    /\ fh \in [event : Event, output : Output] \cup {NoHeader}
    /\ rec \in [sidx : Sidx \ {tiv_idx}, loss : Nat] \cup {NoRec}
    /\ expure_val \in Nat
    /\ last_event_id \in Event \cup {NoEvent}
    /\ last_output_id \in Output \cup {NoOutput}
    /\ sssl \in LossTable
    /\ sse \in ExposureTable
    /\ flush \in [event : Event \cup {NoEvent}, final : BOOLEAN,
                  todo : SUBSET (SummarySet \X SummaryId)]
    /\ out \in [SummarySet -> Seq(Block)]
    /\ idx \in [SummarySet -> Seq([summary : SummaryId, offset : Nat])]
    /\ offset \in [SummarySet -> Nat]
    /\ sent \in [Event -> SUBSET Output]
    /\ last_sidx \in (tiv_idx - 1) .. SampleSize
    /\ total \in [Event -> LossTable]
    /\ expo \in [Event -> ExposureTable]

\* The block an event's own losses call for, whatever else the stream held.
Expected(e, s, i) == BlockOf(e, i, total[e][s][i], expo[e][s][i])

\* Every block written, under whatever event id, holds exactly the losses and
\* the exposure the stream carried for that event and summary: nothing of the
\* previous event is left in the reused arrays (reset_sssl_array and
\* reset_sse_array run between the two), the exposure of an output is counted
\* once however many records it has, and the report carries the id of the
\* event that was summed, not of the one whose arrival triggered it.
ReportsAreExact ==
    \A s \in SummarySet : \A n \in 1 .. Len(out[s]) :
        out[s][n] = Expected(out[s][n].event, s, out[s][n].summary)

\* No event is reported twice for a summary: neither by the flush its
\* successor triggers nor by the final one at the end of the stream.
ReportedOnce ==
    \A s \in SummarySet : \A m, n \in 1 .. Len(out[s]) :
        /\ out[s][m].event = out[s][n].event
        /\ out[s][m].summary = out[s][n].summary
        => m = n

\* When the process ends, every event of the stream has a block for every
\* summary with exposure (every summary, with -z) in every open set; the last
\* event too, which no later record announced.
NothingLost ==
    pc = "done" =>
        \A e \in Event : sent[e] # {} =>
            \A s \in SummarySet : \A i \in IdsOf(s) :
                Due(expo[e][s][i]) =>
                    \E n \in 1 .. Len(out[s]) :
                        out[s][n].event = e /\ out[s][n].summary = i

\* Bytes of a block: its header, its records and its terminator.
BlockBytes(b) == HeaderBytes + RecBytes * (Cardinality(Written(b)) + 1)
EndOf(lines, blocks, n) ==
    IF n = 0 THEN PrologueBytes ELSE lines[n].offset + BlockBytes(blocks[n])
Addresses(lines, blocks, bytes) ==
    /\ Len(lines) = Len(blocks)
    /\ \A n \in 1 .. Len(blocks) :
         /\ lines[n].summary = blocks[n].summary
         /\ lines[n].offset = EndOf(lines, blocks, n - 1)
    /\ bytes = EndOf(lines, blocks, Len(blocks))

\* The n-th line of the index file gives the summary id of the n-th block of
\* the stream and the byte at which its header starts: the first after the
\* prologue, each next one where the block before it ends.  leccalc, aalcalc
\* and pltcalc seek to these offsets.
IndexAddressesBlocks ==
    \A s \in SummarySet : Addresses(idx[s], out[s], offset[s])

\* Once the upstream process closes the pipe the process ends: the record that
\* was set aside during a flush is resumed, and no loop runs for ever.
Terminates == <>(pc = "done")

-----------------------------------------------------------------------------
(* The inductive invariant: what the reused arrays hold at every point of   *)
(* the loops, in terms of the per-event history.                            *)

\* The exposure of the block being read is in sse.
Counted == last_event_id = fh.event /\ last_output_id = fh.output
\* ... and has been received at all.
ExposureReceived == CoverageStream \/ last_sidx >= tiv_idx
\* What the arrays hold of the event whose block is being read.
BaseExposure == IF last_event_id = fh.event THEN sse ELSE ZeroSse

ControlInv ==
    /\ pc = "header" => fh = NoHeader \/ Counted
    /\ pc = "record" => /\ fh # NoHeader
                        /\ last_sidx > tiv_idx <=> Counted
    /\ pc \in {"header", "record"} => ~flush.final
    /\ pc = "flush" => /\ last_event_id \in Event
                       /\ flush.event = last_event_id
                       /\ flush.todo \subseteq Visits
                       /\ IF flush.final THEN Counted
                          ELSE /\ fh.event # last_event_id
                               /\ rec # NoRec
                               /\ ExposureReceived
                               /\ last_sidx > tiv_idx
                       /\ fh # NoHeader
    /\ pc = "done" => fh = NoHeader \/ (Counted /\ flush.final /\ flush.todo = {})
    /\ fh = NoHeader => /\ \A e \in Event : sent[e] = {}
                        /\ last_event_id = NoEvent
    /\ fh # NoHeader => fh.output \in sent[fh.event]
    /\ last_event_id # NoEvent => last_output_id \in sent[last_event_id]

\* The arrays hold the losses and exposure of last_event_id and of no other
\* event; accounts of events not yet met are empty.
ArraysInv ==
    /\ \A e \in Event : sent[e] = {} => total[e] = ZeroSssl /\ expo[e] = ZeroSse
    /\ IF last_event_id = NoEvent THEN sssl = ZeroSssl
       ELSE sssl = total[last_event_id]
    /\ last_event_id # NoEvent /\ (Counted \/ fh.event # last_event_id)
          => sse = expo[last_event_id]
    /\ fh # NoHeader /\ ~Counted =>
          expo[fh.event] = IF ExposureReceived
                             THEN AddExposure(BaseExposure, fh.output, expure_val)
                             ELSE BaseExposure
    /\ fh # NoHeader /\ fh.event # last_event_id =>
          total[fh.event] = IF pc = "flush"
                              THEN AddLoss(ZeroSssl, fh.output, rec.sidx, rec.loss)
                              ELSE ZeroSssl

\* The report of event e for summary i of set s is out already.
Reporting == pc \in {"flush", "done"}
Past(e, s, i) ==
    \/ e \notin {last_event_id, fh.event}
    \/ e = last_event_id /\ Reporting /\ <<s, i>> \notin flush.todo

Settled(s, b) ==
    /\ b = Expected(b.event, s, b.summary)
    /\ b.summary \in IdsOf(s)
    /\ sent[b.event] # {}
    /\ Past(b.event, s, b.summary)

BlocksInv == \A s \in SummarySet : \A n \in 1 .. Len(out[s]) : Settled(s, out[s][n])

CompleteInv ==
    \A e \in Event : \A s \in SummarySet : \A i \in IdsOf(s) :
        sent[e] # {} /\ Past(e, s, i) /\ Due(expo[e][s][i]) =>
            \E n \in 1 .. Len(out[s]) :
                out[s][n].event = e /\ out[s][n].summary = i

IInv == TypeOK /\ ControlInv /\ ArraysInv /\ BlocksInv /\ CompleteInv
          /\ ReportedOnce

-----------------------------------------------------------------------------
(* summarycalc implements the ledger of SummaryReport, which keeps every    *)
(* event's sums apart for ever and never resets anything.                   *)
ClosedEvents == {e \in Event : sent[e] # {}
                    /\ (fh.event # e \/ flush.final \/ pc = "done")}
Ledger == INSTANCE SummaryReport WITH
    closed <- ClosedEvents,
    started <- {e \in Event : sent[e] # {}},
    reported <- [s \in SummarySet |-> {out[s][n] : n \in 1 .. Len(out[s])}],
    finished <- pc = "done"

\* Every behaviour of the process is one of the ledger: a block is published
\* for a closed event only, with the ledger's amounts, and the process
\* finishes only when everything due has been published.
ImplementsLedger == Ledger!Spec
=============================================================================
