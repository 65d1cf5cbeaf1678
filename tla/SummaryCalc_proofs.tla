------------------------- MODULE SummaryCalc_proofs -------------------------
(* Theorems about summarycalc for every stream, every xref and every number *)
(* of events, outputs, summary sets and samples.                            *)
EXTENDS SummaryCalc, FiniteSetTheorems, TLAPS

\* One record credits one entry of each set's table and keeps it a table.
LEMMA AddLossType ==
    ASSUME co_to_s \in Xref, NEW table \in LossTable, NEW o \in Output,
           NEW k \in Sidx \ {tiv_idx}, NEW x \in Nat
    PROVE  AddLoss(table, o, k, x) \in LossTable
<1>1. k + 2 \in Slot
    BY ParameterAssumption DEF Sidx, Slot, tiv_idx, mean_idx
<1>2. \A s \in SummarySet : co_to_s[s][o] \in SummaryId
    BY DEF Xref
<1>3. ASSUME NEW s \in SummarySet
      PROVE  [table[s] EXCEPT ![co_to_s[s][o]][k + 2] = @ + x]
                \in [SummaryId -> [Slot -> Nat]]
    <2>1. table[s] \in [SummaryId -> [Slot -> Nat]]
        BY DEF LossTable
    <2>2. table[s][co_to_s[s][o]][k + 2] \in Nat
        BY <1>1, <1>2, <2>1
    <2> QED BY <1>1, <1>2, <2>1, <2>2
<1> QED BY <1>3 DEF AddLoss, LossTable

\* An exposure table with one exposure added is one.
LEMMA AddExposureType ==
    ASSUME co_to_s \in Xref, NEW table \in ExposureTable, NEW o \in Output,
           NEW x \in Nat
    PROVE  AddExposure(table, o, x) \in ExposureTable
<1>2. \A s \in SummarySet : co_to_s[s][o] \in SummaryId
    BY DEF Xref
<1>3. ASSUME NEW s \in SummarySet
      PROVE  [table[s] EXCEPT ![co_to_s[s][o]] = @ + x] \in [SummaryId -> Nat]
    BY <1>2 DEF ExposureTable
<1> QED BY <1>3 DEF AddExposure, ExposureTable

\* The tables an event starts with.
LEMMA ZeroTables == ZeroSssl \in LossTable /\ ZeroSse \in ExposureTable
    BY DEF ZeroSssl, ZeroSse, ZeroRow, LossTable, ExposureTable

\* A block built from rows of the tables is a block of the summary stream.
LEMMA BlockType ==
    ASSUME NEW e \in Event, NEW i \in SummaryId \ {0}, NEW row \in [Slot -> Nat],
           NEW x \in Nat
    PROVE  BlockOf(e, i, row, x) \in Block
<1>1. \A k \in Reported : row[k + 2] \in Nat
    BY ParameterAssumption DEF Reported, mean_idx, Slot
<1> QED BY <1>1 DEF BlockOf, Block

-----------------------------------------------------------------------------
\* IInv holds before the first header.
LEMMA InitInv == Init => IInv
<1> SUFFICES ASSUME Init PROVE IInv
    OBVIOUS
<1> USE ParameterAssumption, ZeroTables
<1>1. TypeOK
    BY DEF Init, TypeOK, NoHeader, NoRec, NoFlush, NoEvent, NoOutput, tiv_idx,
           PrologueBytes
<1>2. ControlInv
    BY DEF Init, ControlInv, NoHeader, NoEvent, NoFlush
<1>3. ArraysInv
    BY DEF Init, ArraysInv, NoHeader, NoEvent
<1>4. BlocksInv /\ ReportedOnce
    BY DEF Init, BlocksInv, ReportedOnce
<1>5. CompleteInv
    BY DEF Init, CompleteInv
<1> QED BY <1>1, <1>2, <1>3, <1>4, <1>5 DEF IInv

-----------------------------------------------------------------------------
(* Type correctness.  ControlInv is needed for the event id of the reports  *)
(* and for the row indexes of the loops.                                    *)
LEMMA AccumulateType ==
    ASSUME TypeOK, fh # NoHeader,
           NEW losses \in LossTable, NEW exposures \in ExposureTable,
           NEW fresh \in BOOLEAN, NEW r,
           r.sidx \in Sidx \ {tiv_idx}, r.loss \in Nat,
           Accumulate(losses, exposures, fresh, r)
    PROVE  /\ sse' \in ExposureTable
           /\ sssl' \in LossTable
           /\ last_event_id' \in Event \cup {NoEvent}
           /\ last_output_id' \in Output \cup {NoOutput}
<1>1. fh.event \in Event /\ fh.output \in Output
    BY DEF TypeOK
<1>2. AddExposure(exposures, fh.output, expure_val) \in ExposureTable
    BY <1>1, AddExposureType DEF TypeOK
<1>3. AddLoss(losses, fh.output, r.sidx, r.loss) \in LossTable
    BY <1>1, AddLossType DEF TypeOK
<1> QED BY <1>1, <1>2, <1>3 DEF Accumulate, CurrentEvent

\* A loss added to the totals of an event is well typed.
LEMMA RecordType ==
    ASSUME TypeOK, fh # NoHeader, NEW k \in Sidx \ {tiv_idx}, NEW x \in LossAt[k]
    PROVE  /\ x \in Nat
           /\ [total EXCEPT ![fh.event] = AddLoss(@, fh.output, k, x)]
                 \in [Event -> LossTable]
<1>1. x \in Nat
    BY ParameterAssumption
<1>2. fh.event \in Event /\ fh.output \in Output /\ total[fh.event] \in LossTable
    BY DEF TypeOK
<1>3. AddLoss(total[fh.event], fh.output, k, x) \in LossTable
    BY <1>1, <1>2, AddLossType DEF TypeOK
<1> QED BY <1>1, <1>2, <1>3 DEF TypeOK

\* Every step keeps TypeOK.
LEMMA TypeStep == TypeOK /\ ControlInv /\ [Next]_vars => TypeOK'
<1> SUFFICES ASSUME TypeOK, ControlInv, [Next]_vars PROVE TypeOK'
    OBVIOUS
<1> USE ParameterAssumption
<1>1. ASSUME NEW e \in Event, NEW o \in Output, ReadHeader(e, o) PROVE TypeOK'
    <2>1. AddExposure(expo[e], o, Tiv[o]) \in ExposureTable
        BY AddExposureType DEF TypeOK
    <2>2. expo' \in [Event -> ExposureTable] /\ expure_val' \in Nat
        BY <1>1, <2>1 DEF ReadHeader, TypeOK
    <2>3. last_sidx' \in (tiv_idx - 1) .. SampleSize
        BY <1>1 DEF ReadHeader, tiv_idx
    <2> QED BY <1>1, <2>2, <2>3 DEF ReadHeader, TypeOK
<1>2. ASSUME NEW x \in LossAt[tiv_idx], ReadTiv(x) PROVE TypeOK'
    <2>1. x \in Nat
        BY DEF Sidx, tiv_idx, mean_idx
    <2>2. fh.event \in Event /\ fh.output \in Output
        BY <1>2 DEF ReadTiv, TypeOK, ControlInv
    <2>3. AddExposure(expo[fh.event], fh.output, x) \in ExposureTable
        BY <2>1, <2>2, AddExposureType DEF TypeOK
    <2>4. last_sidx' \in (tiv_idx - 1) .. SampleSize
        BY <1>2 DEF ReadTiv, tiv_idx
    <2> QED BY <1>2, <2>1, <2>2, <2>3, <2>4 DEF ReadTiv, TypeOK
<1>3. ASSUME NEW k \in Sidx, NEW x \in LossAt[k], ReadRecord(k, x) PROVE TypeOK'
    <2>1. fh # NoHeader /\ k \in Sidx \ {tiv_idx} /\ pc = "record"
        BY <1>3 DEF ReadRecord, ControlInv
    <2>2. x \in Nat /\ total' \in [Event -> LossTable]
        BY <1>3, <2>1, RecordType DEF ReadRecord
    <2>3. k \in (tiv_idx - 1) .. SampleSize
        BY DEF Sidx, tiv_idx, mean_idx
    <2>4. /\ sse' \in ExposureTable
          /\ sssl' \in LossTable
          /\ last_event_id' \in Event \cup {NoEvent}
          /\ last_output_id' \in Output \cup {NoOutput}
        <3> DEFINE r == [sidx |-> k, loss |-> x]
                   first == last_event_id = NoEvent
        <3>1. sssl \in LossTable /\ (IF first THEN ClearedSse ELSE sse) \in ExposureTable
            BY ZeroTables DEF TypeOK, ClearedSse
        <3>2. Accumulate(sssl, IF first THEN ClearedSse ELSE sse, first, r)
            BY <1>3 DEF ReadRecord
        <3>3. r.sidx \in Sidx \ {tiv_idx} /\ r.loss \in Nat
            BY <2>1, <2>2
        <3> HIDE DEF r
        <3> QED BY <2>1, <3>1, <3>2, <3>3, AccumulateType
    <2> QED BY <1>3, <2>1, <2>2, <2>3, <2>4 DEF ReadRecord, TypeOK
<1>4. ASSUME NEW k \in Sidx, NEW x \in LossAt[k], StartFlush(k, x) PROVE TypeOK'
    <2>1. fh # NoHeader /\ k \in Sidx \ {tiv_idx} /\ pc = "record"
        BY <1>4 DEF StartFlush, ControlInv
    <2>2. x \in Nat /\ total' \in [Event -> LossTable]
        BY <1>4, <2>1, RecordType DEF StartFlush
    <2>3. k \in (tiv_idx - 1) .. SampleSize
        BY DEF Sidx, tiv_idx, mean_idx
    <2>4. flush' \in [event : Event \cup {NoEvent}, final : BOOLEAN,
                      todo : SUBSET (SummarySet \X SummaryId)]
        BY <1>4 DEF StartFlush, TypeOK, Visits, SummedEvent
    <2> QED BY <1>4, <2>1, <2>2, <2>3, <2>4 DEF StartFlush, TypeOK
<1>5. ASSUME NEW s \in SummarySet, NEW i \in SummaryId, OutputSummary(s, i) PROVE TypeOK'
    <2> DEFINE b == BlockOf(flush.event, i, sssl[s][i], sse[s][i])
    <2>1. flush.event \in Event /\ i \in SummaryId \ {0}
        BY <1>5 DEF OutputSummary, ControlInv, Visits, IdsOf
    <2>2. b \in Block
        <3>1. sssl[s][i] \in [Slot -> Nat] /\ sse[s][i] \in Nat
            BY DEF TypeOK, LossTable, ExposureTable
        <3> QED BY <2>1, <3>1, BlockType
    <2>3. flush' \in [event : Event \cup {NoEvent}, final : BOOLEAN,
                      todo : SUBSET (SummarySet \X SummaryId)]
        BY <1>5 DEF OutputSummary, TypeOK, Remaining
    <2> HIDE DEF b
    <2>4. OffsetAfter(s, b) \in Nat
        <3>1. IsFiniteSet(1 .. SampleSize)
            BY FS_Interval
        <3>2. IsFiniteSet((1 .. SampleSize) \cup {mean_idx})
            BY <3>1, FS_AddElement
        <3>3. Written(b) \in SUBSET ((1 .. SampleSize) \cup {mean_idx})
            BY DEF Written, Reported
        <3>4. IsFiniteSet(Written(b))
            BY <3>2, <3>3, FS_Subset
        <3>5. Cardinality(Written(b)) \in Nat
            BY <3>4, FS_CardinalityType
        <3>6. offset[s] \in Nat
            BY DEF TypeOK
        <3> QED BY <3>5, <3>6 DEF OffsetAfter, HeaderBytes, RecBytes
    <2>5. /\ out' \in [SummarySet -> Seq(Block)]
          /\ idx' \in [SummarySet -> Seq([summary : SummaryId, offset : Nat])]
          /\ offset' \in [SummarySet -> Nat]
        <3>1. CASE Due(sse[s][i])
            <4>1. /\ out' = [out EXCEPT ![s] = Append(@, b)]
                  /\ idx' = [idx EXCEPT ![s] =
                              Append(@, [summary |-> i, offset |-> offset[s]])]
                  /\ offset' = [offset EXCEPT ![s] = OffsetAfter(s, b)]
                BY <1>5, <3>1 DEF OutputSummary, b
            <4>2. Append(out[s], b) \in Seq(Block)
                BY <2>2 DEF TypeOK
            <4>3. Append(idx[s], [summary |-> i, offset |-> offset[s]])
                    \in Seq([summary : SummaryId, offset : Nat])
                <5> DEFINE L == [summary : SummaryId, offset : Nat]
                           l == [summary |-> i, offset |-> offset[s]]
                <5>1. idx[s] \in Seq(L) /\ l \in L
                    BY DEF TypeOK
                <5> HIDE DEF L, l
                <5>2. Append(idx[s], l) \in Seq(L)
                    BY <5>1
                <5> QED BY <5>2 DEF L, l
            <4>4. out' \in [SummarySet -> Seq(Block)]
                BY <4>1, <4>2 DEF TypeOK
            <4>5. idx' \in [SummarySet -> Seq([summary : SummaryId, offset : Nat])]
                BY <4>1, <4>3 DEF TypeOK
            <4>6. offset' \in [SummarySet -> Nat]
                BY <4>1, <2>4 DEF TypeOK
            <4> QED BY <4>4, <4>5, <4>6
        <3>2. CASE ~Due(sse[s][i])
            BY <1>5, <3>2 DEF OutputSummary, TypeOK
        <3> QED BY <3>1, <3>2
    <2> QED BY <1>5, <2>3, <2>5 DEF OutputSummary, TypeOK, historyVars
<1>6. CASE EndFlush
    <2>1. fh # NoHeader /\ rec # NoRec
        BY <1>6 DEF EndFlush, ControlInv
    <2>2. rec.sidx \in Sidx \ {tiv_idx} /\ rec.loss \in Nat
        BY <2>1 DEF TypeOK
    <2>3. /\ sse' \in ExposureTable
          /\ sssl' \in LossTable
          /\ last_event_id' \in Event \cup {NoEvent}
          /\ last_output_id' \in Output \cup {NoOutput}
        BY <1>6, <2>1, <2>2, ZeroTables, AccumulateType
           DEF EndFlush, ClearedSssl, ClearedSse
    <2>4. flush' \in [event : Event \cup {NoEvent}, final : BOOLEAN,
                      todo : SUBSET (SummarySet \X SummaryId)]
        BY <1>6 DEF EndFlush, NoFlush
    <2> QED BY <1>6, <2>3, <2>4 DEF EndFlush, TypeOK, historyVars
<1>7. CASE ReadTerminator
    BY <1>7 DEF ReadTerminator, TypeOK, codeVars, historyVars
<1>8. CASE ReadEof
    <2>1. flush' \in [event : Event \cup {NoEvent}, final : BOOLEAN,
                      todo : SUBSET (SummarySet \X SummaryId)]
        <3>1. CASE havedata
            <4>1. fh.event \in Event
                BY <3>1 DEF TypeOK, havedata
            <4>2. flush' = [event |-> fh.event, final |-> TRUE, todo |-> Visits]
                BY <1>8, <3>1 DEF ReadEof
            <4> QED BY <4>1, <4>2 DEF Visits
        <3>2. CASE ~havedata
            BY <1>8, <3>2 DEF ReadEof, TypeOK
        <3> QED BY <3>1, <3>2
    <2> QED BY <1>8, <2>1 DEF ReadEof, TypeOK, historyVars
<1>9. CASE Finish
    BY <1>9 DEF Finish, TypeOK, codeVars, historyVars
<1>10. CASE UNCHANGED vars
    BY <1>10 DEF vars, TypeOK, codeVars, historyVars
<1> QED BY <1>1, <1>2, <1>3, <1>4, <1>5, <1>6, <1>7, <1>8, <1>9, <1>10 DEF Next

-----------------------------------------------------------------------------
(* The control invariant.                                                   *)

\* A record other than -3 finds the exposure of its block received.
LEMMA ExposureFirst ==
    ASSUME TypeOK, NEW k \in Sidx \ {tiv_idx}, MayFollow(k)
    PROVE  ExposureReceived /\ k > tiv_idx /\ (CoverageStream \/ last_sidx >= tiv_idx)
    BY ParameterAssumption
       DEF MayFollow, FirstSidx, ExposureReceived, Sidx, tiv_idx, mean_idx, TypeOK

\* The block that starts is of an output whose exposure is not in sse yet.
LEMMA HeaderControl ==
    ASSUME TypeOK, ControlInv, NEW e \in Event, NEW o \in Output, ReadHeader(e, o)
    PROVE  ControlInv' /\ ~Counted'
<1>1. /\ pc = "header" /\ pc' = "record"
      /\ fh' = [event |-> e, output |-> o] /\ o \notin sent[e]
      /\ sent' = [sent EXCEPT ![e] = @ \cup {o}]
      /\ last_sidx' = tiv_idx - 1
      /\ flush' = flush /\ last_event_id' = last_event_id
      /\ last_output_id' = last_output_id
    BY DEF ReadHeader
<1>2. fh' # NoHeader
    BY <1>1, ParameterAssumption DEF NoHeader, NoEvent
<1>3. ~Counted'
    <2>1. CASE last_event_id = NoEvent
        BY <1>1, <2>1, ParameterAssumption DEF Counted, NoEvent
    <2>2. CASE last_event_id # NoEvent
        BY <1>1, <2>2 DEF Counted, ControlInv
    <2> QED BY <2>1, <2>2
<1>4. sent' \in [Event -> SUBSET Output] /\ \A d \in Event : sent[d] \subseteq sent'[d]
    BY <1>1 DEF TypeOK
<1>5. ~(last_sidx' > tiv_idx)
    BY <1>1 DEF tiv_idx
<1>6. fh'.output \in sent'[fh'.event]
    BY <1>1 DEF TypeOK
<1>7. last_event_id' # NoEvent => last_output_id' \in sent'[last_event_id']
    BY <1>1, <1>4 DEF ControlInv, TypeOK
<1> QED BY <1>1, <1>2, <1>3, <1>5, <1>6, <1>7 DEF ControlInv

\* Every step keeps ControlInv.
LEMMA ControlStep ==
    IInv /\ [Next]_vars => ControlInv'
<1> SUFFICES ASSUME IInv, [Next]_vars PROVE ControlInv'
    OBVIOUS
<1> USE ParameterAssumption
<1>a. TypeOK /\ ControlInv
    BY DEF IInv
<1>1. ASSUME NEW e \in Event, NEW o \in Output, ReadHeader(e, o) PROVE ControlInv'
    BY <1>1, <1>a, HeaderControl
<1>2. ASSUME NEW x \in LossAt[tiv_idx], ReadTiv(x) PROVE ControlInv'
    <2>1. ~(last_sidx > tiv_idx) /\ ~(last_sidx' > tiv_idx)
        BY <1>2, <1>a DEF ReadTiv, MayFollow, TypeOK, tiv_idx
    <2> QED BY <1>2, <2>1, <1>a DEF ReadTiv, ControlInv, Counted
<1>3. ASSUME NEW k \in Sidx, NEW x \in LossAt[k], ReadRecord(k, x) PROVE ControlInv'
    <2>1. /\ pc = "record" /\ pc' = "record" /\ fh' = fh /\ sent' = sent
          /\ flush' = flush /\ last_sidx' = k
          /\ last_event_id' = fh.event /\ last_output_id' = fh.output
        BY <1>3 DEF ReadRecord, Accumulate, CurrentEvent
    <2>2. k > tiv_idx
        BY <1>3, <1>a, ExposureFirst DEF ReadRecord
    <2>3. Counted'
        BY <2>1 DEF Counted
    <2> QED BY <2>1, <2>2, <2>3, <1>a DEF ControlInv, TypeOK
<1>4. ASSUME NEW k \in Sidx, NEW x \in LossAt[k], StartFlush(k, x) PROVE ControlInv'
    <2>1. /\ pc = "record" /\ pc' = "flush" /\ fh' = fh /\ sent' = sent
          /\ flush' = [event |-> last_event_id, final |-> FALSE, todo |-> Visits]
          /\ last_sidx' = k /\ rec' = [sidx |-> k, loss |-> x]
          /\ last_event_id' = last_event_id /\ last_output_id' = last_output_id
          /\ last_event_id \notin {fh.event, NoEvent} /\ co_to_s' = co_to_s
        BY <1>4 DEF StartFlush, SummedEvent
    <2>2. k > tiv_idx /\ k # 0
        BY <1>4, <1>a, ExposureFirst DEF StartFlush, Sidx, mean_idx
    <2>3. ExposureReceived' /\ rec' # NoRec
        BY <2>1, <2>2 DEF ExposureReceived, NoRec, Sidx, tiv_idx, mean_idx
    <2>4. Visits' = Visits
        BY <2>1 DEF Visits, IdsOf
    <2> QED BY <2>1, <2>2, <2>3, <2>4, <1>a DEF ControlInv, TypeOK
<1>5. ASSUME NEW s \in SummarySet, NEW i \in SummaryId, OutputSummary(s, i)
      PROVE ControlInv'
    <2>1. /\ pc = "flush" /\ pc' = "flush" /\ fh' = fh /\ sent' = sent /\ rec' = rec
          /\ flush' = [flush EXCEPT !.todo = flush.todo \ {<<s, i>>}]
          /\ last_event_id' = last_event_id /\ last_output_id' = last_output_id
          /\ last_sidx' = last_sidx /\ co_to_s' = co_to_s
        BY <1>5 DEF OutputSummary, Remaining, historyVars
    <2>2. Visits' = Visits
        BY <2>1 DEF Visits, IdsOf
    <2>3. /\ flush'.event = flush.event /\ flush'.final = flush.final
          /\ flush'.todo \subseteq flush.todo
        BY <2>1, <1>a DEF TypeOK
    <2> QED BY <2>1, <2>2, <2>3, <1>a DEF ControlInv, Counted, ExposureReceived
<1>6. CASE EndFlush
    <2>1. /\ pc = "flush" /\ pc' = "record" /\ fh' = fh /\ sent' = sent
          /\ flush' = NoFlush /\ last_sidx' = last_sidx
          /\ last_event_id' = fh.event /\ last_output_id' = fh.output
        BY <1>6 DEF EndFlush, Accumulate, CurrentEvent, historyVars
    <2>2. Counted'
        BY <2>1 DEF Counted
    <2>3. last_sidx > tiv_idx
        BY <1>6, <1>a DEF EndFlush, ControlInv
    <2> QED BY <2>1, <2>2, <2>3, <1>a DEF ControlInv, NoFlush
<1>7. CASE ReadTerminator
    BY <1>7, <1>a DEF ReadTerminator, ControlInv, Counted, codeVars, historyVars,
                      TypeOK, tiv_idx, mean_idx
<1>8. CASE ReadEof
    <2>1. /\ pc \in {"header", "record"} /\ fh' = fh /\ sent' = sent
          /\ last_event_id' = last_event_id /\ last_output_id' = last_output_id
          /\ co_to_s' = co_to_s
        BY <1>8 DEF ReadEof, historyVars
    <2>2. CASE fh = NoHeader
        BY <1>8, <2>1, <2>2, <1>a DEF ReadEof, havedata, ControlInv
    <2>3. CASE fh # NoHeader
        <3>1. pc' = "flush" /\ flush' = [event |-> fh.event, final |-> TRUE, todo |-> Visits]
            BY <1>8, <2>3 DEF ReadEof, havedata
        <3>2. Counted
            BY <1>8, <2>3, <1>a DEF ReadEof, ControlInv, TypeOK, tiv_idx, mean_idx
        <3>3. Visits' = Visits /\ Counted'
            BY <2>1, <3>2 DEF Visits, IdsOf, Counted
        <3>4. last_event_id \in Event
            BY <3>2, <2>3, <1>a DEF Counted, TypeOK
        <3> QED BY <2>1, <2>3, <3>1, <3>2, <3>3, <3>4, <1>a DEF ControlInv, Counted
    <2> QED BY <2>2, <2>3
<1>9. CASE Finish
    BY <1>9, <1>a DEF Finish, ControlInv, Counted, codeVars, historyVars
<1>10. CASE UNCHANGED vars
    BY <1>10, <1>a DEF vars, codeVars, historyVars, ControlInv, Counted, Visits,
                       IdsOf, ExposureReceived
<1> QED BY <1>1, <1>2, <1>3, <1>4, <1>5, <1>6, <1>7, <1>8, <1>9, <1>10 DEF Next

-----------------------------------------------------------------------------
(* The arrays hold exactly the current event.                               *)

\* A step that leaves the arrays, the statics and the accounts alone.
LEMMA ArraysKept ==
    ASSUME ArraysInv, pc' = pc, fh' = fh, rec' = rec, expure_val' = expure_val,
           last_event_id' = last_event_id, last_output_id' = last_output_id,
           sssl' = sssl, sse' = sse, co_to_s' = co_to_s, UNCHANGED historyVars
    PROVE  ArraysInv'
<1>1. sent' = sent /\ last_sidx' = last_sidx /\ total' = total /\ expo' = expo
    BY DEF historyVars
<1>2. Counted' = Counted /\ ExposureReceived' = ExposureReceived
    BY <1>1 DEF Counted, ExposureReceived
<1>3. BaseExposure' = BaseExposure
    BY DEF BaseExposure
<1>4. /\ AddExposure(BaseExposure, fh.output, expure_val)'
            = AddExposure(BaseExposure, fh.output, expure_val)
      /\ AddLoss(ZeroSssl, fh.output, rec.sidx, rec.loss)'
            = AddLoss(ZeroSssl, fh.output, rec.sidx, rec.loss)
    BY <1>3 DEF AddExposure, AddLoss
<1> QED BY <1>1, <1>2, <1>3, <1>4 DEF ArraysInv

\* Every step keeps ArraysInv.
LEMMA ArraysStep ==
    IInv /\ [Next]_vars => ArraysInv'
<1> SUFFICES ASSUME IInv, [Next]_vars PROVE ArraysInv'
    OBVIOUS
<1> USE ParameterAssumption
<1>a. TypeOK /\ ControlInv /\ ArraysInv
    BY DEF IInv
<1>1. ASSUME NEW e \in Event, NEW o \in Output, ReadHeader(e, o) PROVE ArraysInv'
    <2>1. /\ pc = "header" /\ pc' = "record" /\ fh' = [event |-> e, output |-> o]
          /\ sent' = [sent EXCEPT ![e] = @ \cup {o}]
          /\ total' = total /\ sssl' = sssl /\ sse' = sse /\ co_to_s' = co_to_s
          /\ last_event_id' = last_event_id /\ last_output_id' = last_output_id
          /\ fh.event = e \/ sent[e] = {}
          /\ last_sidx' = tiv_idx - 1
          /\ expure_val' = IF CoverageStream THEN Tiv[o] ELSE 0
          /\ expo' = IF CoverageStream
                       THEN [expo EXCEPT ![e] = AddExposure(expo[e], o, Tiv[o])]
                       ELSE expo
        BY <1>1 DEF ReadHeader
    <2>2. fh # NoHeader => Counted
        BY <2>1, <1>a DEF ControlInv
    <2>3. ~Counted' /\ fh' # NoHeader
        BY <1>1, <1>a, HeaderControl DEF ControlInv, ReadHeader
    <2>4. \A d \in Event : sent'[d] = {} => sent[d] = {} /\ d # e
        BY <2>1, <1>a DEF TypeOK
    <2>5. \A d \in Event : sent'[d] = {} => total'[d] = ZeroSssl /\ expo'[d] = ZeroSse
        BY <2>1, <2>4, <1>a DEF ArraysInv, TypeOK
    <2>6. last_event_id # NoEvent => last_event_id = fh.event /\ sse = expo[last_event_id]
        <3> SUFFICES ASSUME last_event_id # NoEvent
                     PROVE  last_event_id = fh.event /\ sse = expo[last_event_id]
            OBVIOUS
        <3>1. Counted
            BY <2>2, <1>a DEF ControlInv
        <3> QED BY <3>1, <1>a DEF Counted, ArraysInv
    <2>7. e # last_event_id => total[e] = ZeroSssl /\ expo[e] = ZeroSse
        <3> SUFFICES ASSUME e # last_event_id PROVE sent[e] = {}
            BY <1>a DEF ArraysInv
        <3>1. CASE last_event_id = NoEvent
            BY <2>2, <3>1, <1>a DEF Counted, ControlInv, TypeOK, NoEvent
        <3>2. CASE last_event_id # NoEvent
            BY <2>1, <2>6, <3>2
        <3> QED BY <3>1, <3>2
    <2>8. BaseExposure' = expo[e]
        BY <2>1, <2>6, <2>7, <1>a DEF BaseExposure, NoEvent
    <2>9. expo'[e] = IF ExposureReceived' THEN AddExposure(expo[e], o, expure_val')
                     ELSE expo[e]
        BY <2>1, <1>a DEF ExposureReceived, TypeOK, tiv_idx
    <2>10. AddExposure(expo[e], o, expure_val')
             = AddExposure(BaseExposure, fh.output, expure_val)'
        BY <2>1, <2>8 DEF AddExposure
    <2>11. last_event_id' # NoEvent /\ fh'.event # last_event_id'
             => sse' = expo'[last_event_id']
        BY <2>1, <2>6, <1>a DEF TypeOK
    <2>12. last_event_id' = NoEvent \/ sssl' = total'[last_event_id']
        BY <2>1, <1>a DEF ArraysInv
    <2>13. last_event_id' = NoEvent => sssl' = ZeroSssl
        BY <2>1, <1>a DEF ArraysInv
    <2> QED BY <2>1, <2>3, <2>5, <2>7, <2>8, <2>9, <2>10, <2>11, <2>12, <2>13
            DEF ArraysInv
<1>2. ASSUME NEW x \in LossAt[tiv_idx], ReadTiv(x) PROVE ArraysInv'
    <2>1. /\ pc = "record" /\ pc' = pc /\ fh' = fh /\ sent' = sent
          /\ total' = total /\ sssl' = sssl /\ sse' = sse /\ co_to_s' = co_to_s
          /\ last_event_id' = last_event_id /\ last_output_id' = last_output_id
          /\ ~CoverageStream /\ last_sidx' = tiv_idx /\ expure_val' = x
          /\ expo' = [expo EXCEPT ![fh.event] = AddExposure(expo[fh.event], fh.output, x)]
        BY <1>2 DEF ReadTiv
    <2>2. ~(last_sidx >= tiv_idx)
        BY <1>2, <1>a DEF ReadTiv, MayFollow, TypeOK, tiv_idx
    <2>3. ~Counted /\ fh # NoHeader /\ fh.event \in Event
        BY <2>1, <2>2, <1>a DEF ControlInv, TypeOK, tiv_idx
    <2>4. expo[fh.event] = BaseExposure
        BY <2>1, <2>2, <2>3, <1>a DEF ArraysInv, ExposureReceived
    <2>5. expo'[fh.event] = AddExposure(BaseExposure, fh.output, x)
        BY <2>1, <2>3, <2>4, <1>a DEF TypeOK
    <2>6. AddExposure(BaseExposure, fh.output, expure_val)'
             = AddExposure(BaseExposure, fh.output, x)
        BY <2>1 DEF AddExposure, BaseExposure
    <2>7. ~Counted' /\ ExposureReceived'
        BY <2>1, <2>3 DEF Counted, ExposureReceived, tiv_idx
    <2>8. \A e \in Event : sent[e] = {} => e # fh.event
        BY <2>3, <1>a DEF ControlInv
    <2>9. \A e \in Event : e # fh.event => expo'[e] = expo[e]
        BY <2>1, <1>a DEF TypeOK
    <2>10. last_event_id # NoEvent /\ fh.event # last_event_id
             => sse' = expo'[last_event_id]
        BY <2>1, <2>9, <1>a DEF ArraysInv, TypeOK
    <2> QED BY <2>1, <2>5, <2>6, <2>7, <2>8, <2>9, <2>10, <1>a DEF ArraysInv
<1>3. ASSUME NEW k \in Sidx, NEW x \in LossAt[k], ReadRecord(k, x) PROVE ArraysInv'
    <2> DEFINE first == last_event_id = NoEvent
    <2>1. /\ pc = "record" /\ pc' = pc /\ fh' = fh /\ sent' = sent /\ co_to_s' = co_to_s
          /\ expo' = expo /\ last_event_id \in {fh.event, NoEvent}
          /\ last_event_id' = fh.event /\ last_output_id' = fh.output
          /\ sssl' = AddLoss(sssl, fh.output, k, x)
          /\ total' = [total EXCEPT ![fh.event] = AddLoss(total[fh.event], fh.output, k, x)]
          /\ sse' = IF first \/ fh.output # last_output_id
                      THEN AddExposure(IF first THEN ZeroSse ELSE sse, fh.output, expure_val)
                      ELSE sse
        BY <1>3 DEF ReadRecord, Accumulate, CurrentEvent, NewOutput, ClearedSse
    <2>2. ExposureReceived
        BY <1>3, <1>a, ExposureFirst DEF ReadRecord
    <2>3. fh # NoHeader /\ fh.event \in Event /\ fh.event # NoEvent
        BY <2>1, <1>a DEF ControlInv, TypeOK, NoEvent
    <2>4. Counted'
        BY <2>1 DEF Counted
    <2>5. sssl = total[fh.event]
        BY <2>1, <2>3, <1>a DEF ArraysInv
    <2>6. sssl' = total'[fh.event]
        BY <2>1, <2>3, <2>5, <1>a DEF TypeOK
    <2>7. sse' = expo[fh.event]
        <3>1. CASE Counted
            <4>1. ~first /\ fh.output = last_output_id
                BY <2>3, <3>1 DEF Counted
            <4> QED BY <2>1, <3>1, <4>1, <1>a DEF ArraysInv, Counted
        <3>2. CASE ~Counted
            <4>1. expo[fh.event] = AddExposure(BaseExposure, fh.output, expure_val)
                BY <2>2, <2>3, <3>2, <1>a DEF ArraysInv
            <4>2. first \/ fh.output # last_output_id
                BY <2>1, <3>2 DEF Counted
            <4>3. BaseExposure = IF first THEN ZeroSse ELSE sse
                BY <2>1, <2>3 DEF BaseExposure
            <4> QED BY <2>1, <4>1, <4>2, <4>3
        <3> QED BY <3>1, <3>2
    <2>8. \A e \in Event : sent[e] = {} => e # fh.event
        BY <2>3, <1>a DEF ControlInv
    <2>9. \A e \in Event : e # fh.event => total'[e] = total[e]
        BY <2>1, <1>a DEF TypeOK
    <2> QED BY <2>1, <2>3, <2>4, <2>6, <2>7, <2>8, <2>9, <1>a DEF ArraysInv
<1>4. ASSUME NEW k \in Sidx, NEW x \in LossAt[k], StartFlush(k, x) PROVE ArraysInv'
    <2>1. /\ pc = "record" /\ pc' = "flush" /\ fh' = fh /\ sent' = sent
          /\ co_to_s' = co_to_s /\ expo' = expo /\ sssl' = sssl /\ sse' = sse
          /\ last_event_id \notin {fh.event, NoEvent} /\ expure_val' = expure_val
          /\ last_event_id' = last_event_id /\ last_output_id' = last_output_id
          /\ rec' = [sidx |-> k, loss |-> x] /\ last_sidx' = k
          /\ total' = [total EXCEPT ![fh.event] = AddLoss(total[fh.event], fh.output, k, x)]
        BY <1>4 DEF StartFlush
    <2>2. ExposureReceived /\ ExposureReceived'
        BY <1>4, <2>1, <1>a, ExposureFirst DEF StartFlush, ExposureReceived, tiv_idx, Sidx,
                                              mean_idx
    <2>3. fh # NoHeader /\ fh.event \in Event /\ last_event_id \in Event
        BY <2>1, <1>a DEF ControlInv, TypeOK
    <2>4. ~Counted /\ ~Counted'
        BY <2>1 DEF Counted
    <2>5. total[fh.event] = ZeroSssl
        BY <2>1, <2>3, <1>a DEF ArraysInv
    <2>6. total'[fh.event] = AddLoss(ZeroSssl, fh.output, k, x)
        BY <2>1, <2>3, <2>5, <1>a DEF TypeOK
    <2>7. AddLoss(ZeroSssl, fh.output, k, x)
            = AddLoss(ZeroSssl, fh.output, rec.sidx, rec.loss)'
        <3>1. fh' = fh /\ co_to_s' = co_to_s /\ rec' = [sidx |-> k, loss |-> x]
            BY <2>1
        <3> QED BY <3>1 DEF AddLoss
    <2>8. AddExposure(BaseExposure, fh.output, expure_val)'
            = AddExposure(BaseExposure, fh.output, expure_val)
        BY <2>1 DEF AddExposure, BaseExposure
    <2>9. \A e \in Event : e # fh.event => total'[e] = total[e]
        BY <2>1, <1>a DEF TypeOK
    <2>10. \A e \in Event : sent[e] = {} => e # fh.event
        BY <2>3, <1>a DEF ControlInv
    <2>11. total'[fh'.event] = AddLoss(ZeroSssl, fh.output, rec.sidx, rec.loss)'
        BY <2>1, <2>6, <2>7
    <2>12. BaseExposure' = BaseExposure
        BY <2>1 DEF BaseExposure
    <2>13. \A e \in Event : sent'[e] = {} => total'[e] = ZeroSssl /\ expo'[e] = ZeroSse
        BY <2>1, <2>9, <2>10, <1>a DEF ArraysInv
    <2>14. sssl' = total'[last_event_id'] /\ sse' = expo'[last_event_id']
        BY <2>1, <2>3, <2>9, <1>a DEF ArraysInv
    <2>15. expo'[fh'.event] = AddExposure(BaseExposure, fh.output, expure_val)'
        BY <2>1, <2>2, <2>3, <2>4, <2>8, <1>a DEF ArraysInv
    <2> QED BY <2>1, <2>2, <2>3, <2>11, <2>13, <2>14, <2>15 DEF ArraysInv
<1>5. ASSUME NEW s \in SummarySet, NEW i \in SummaryId, OutputSummary(s, i)
      PROVE ArraysInv'
    <2>1. /\ pc' = pc /\ fh' = fh /\ rec' = rec /\ expure_val' = expure_val
          /\ last_event_id' = last_event_id /\ last_output_id' = last_output_id
          /\ sssl' = sssl /\ sse' = sse /\ co_to_s' = co_to_s
          /\ UNCHANGED historyVars
        BY <1>5 DEF OutputSummary
    <2> QED BY <2>1, <1>a, ArraysKept
<1>6. CASE EndFlush
    <2>1. /\ pc = "flush" /\ pc' = "record" /\ fh' = fh /\ sent' = sent
          /\ co_to_s' = co_to_s /\ expo' = expo /\ total' = total
          /\ last_event_id' = fh.event /\ last_output_id' = fh.output
          /\ sssl' = AddLoss(ZeroSssl, fh.output, rec.sidx, rec.loss)
          /\ sse' = AddExposure(ZeroSse, fh.output, expure_val)
        BY <1>6 DEF EndFlush, Accumulate, CurrentEvent, NewOutput, ClearedSssl,
                    ClearedSse, historyVars
    <2>2. /\ fh # NoHeader /\ fh.event # last_event_id /\ ExposureReceived
          /\ fh.event \in Event /\ fh.event # NoEvent
        BY <1>6, <1>a DEF EndFlush, ControlInv, TypeOK, NoEvent
    <2>3. ~Counted /\ BaseExposure = ZeroSse
        BY <2>2 DEF Counted, BaseExposure
    <2>4. sssl' = total[fh.event]
        BY <2>1, <2>2, <1>a DEF ArraysInv
    <2>5. sse' = expo[fh.event]
        BY <2>1, <2>2, <2>3, <1>a DEF ArraysInv
    <2>6. Counted'
        BY <2>1 DEF Counted
    <2> QED BY <2>1, <2>2, <2>4, <2>5, <2>6, <1>a DEF ArraysInv
<1>7. ASSUME \/ ReadTerminator \/ ReadEof \/ Finish PROVE ArraysInv'
    <2>1. /\ pc' # "flush" \/ pc # "flush"
          /\ UNCHANGED <<co_to_s, fh, rec, expure_val, last_event_id, last_output_id,
                         sssl, sse, historyVars>>
        BY <1>7 DEF ReadTerminator, ReadEof, Finish, codeVars, historyVars
    <2>2. fh # NoHeader => Counted
        BY <1>7, <1>a DEF ReadTerminator, ReadEof, Finish, ControlInv, TypeOK,
                          tiv_idx, mean_idx
    <2> QED BY <2>1, <2>2, <1>a DEF ArraysInv, Counted, historyVars, ExposureReceived,
                                    BaseExposure, AddExposure
<1>8. CASE UNCHANGED vars
    BY <1>8, <1>a, ArraysKept DEF vars, codeVars
<1> QED BY <1>1, <1>2, <1>3, <1>4, <1>5, <1>6, <1>7, <1>8 DEF Next

-----------------------------------------------------------------------------
(* The reports.  Every step other than OutputSummary leaves them alone, so  *)
(* it is enough that it moves no reported event back among the unreported   *)
(* ones and credits nothing to a reported event.                            *)

\* A step that writes nothing keeps the reports exact and complete if Past
\* means the same before and after it for the events that were met before,
\* and their accounts do not change.
LEMMA QuietStep ==
    ASSUME IInv, TypeOK', out' = out, co_to_s' = co_to_s,
           \A e \in Event : \A s \in SummarySet : \A i \in IdsOf(s) :
              sent[e] # {} /\ Past(e, s, i) =>
                 /\ Past(e, s, i)'
                 /\ sent'[e] # {} /\ total'[e] = total[e] /\ expo'[e] = expo[e],
           \A e \in Event : \A s \in SummarySet : \A i \in IdsOf(s) :
              sent'[e] # {} /\ Past(e, s, i)' => sent[e] # {} /\ Past(e, s, i)
    PROVE  BlocksInv' /\ CompleteInv' /\ ReportedOnce'
<1>a. TypeOK /\ BlocksInv /\ CompleteInv /\ ReportedOnce
    BY DEF IInv
<1>b. \A s \in SummarySet : IdsOf(s)' = IdsOf(s)
    BY DEF IdsOf
<1>1. ASSUME NEW s \in SummarySet, NEW n \in 1 .. Len(out[s]), NEW b, b = out[s][n]
      PROVE  Settled(s, b)'
    <2>1. b \in Block
        BY <1>1, <1>a DEF TypeOK
    <2>2. Settled(s, b)
        BY <1>1, <1>a DEF BlocksInv
    <2>3. /\ b.event \in Event /\ b.summary \in IdsOf(s)
          /\ sent[b.event] # {} /\ Past(b.event, s, b.summary)
        BY <2>1, <2>2 DEF Block, Settled
    <2>4. /\ Past(b.event, s, b.summary)' /\ sent'[b.event] # {}
          /\ total'[b.event] = total[b.event] /\ expo'[b.event] = expo[b.event]
        BY <2>3
    <2>5. Expected(b.event, s, b.summary)' = Expected(b.event, s, b.summary)
        BY <2>4 DEF Expected
    <2> QED BY <2>2, <2>3, <2>4, <2>5, <1>b DEF Settled
<1>2. BlocksInv'
    BY <1>1 DEF BlocksInv, Settled, Expected, Past, Reporting
<1>3. CompleteInv'
    <2> SUFFICES ASSUME NEW e \in Event, NEW s \in SummarySet, NEW i \in IdsOf(s),
                        sent'[e] # {}, Past(e, s, i)', Due(expo'[e][s][i])
                 PROVE  \E n \in 1 .. Len(out[s]) :
                            out[s][n].event = e /\ out[s][n].summary = i
        BY <1>b DEF CompleteInv, Due
    <2>1. sent[e] # {} /\ Past(e, s, i) /\ expo'[e] = expo[e]
        OBVIOUS
    <2> QED BY <2>1, <1>a DEF CompleteInv
<1>4. ReportedOnce'
    BY <1>a DEF ReportedOnce
<1> QED BY <1>2, <1>3, <1>4

\* One iteration of the report loop: the block appended is the one the event
\* calls for, no block of the event and summary was there, and afterwards
\* there is one if one is due.
LEMMA OutputStep ==
    ASSUME IInv, NEW s \in SummarySet, NEW i \in SummaryId, OutputSummary(s, i)
    PROVE  BlocksInv' /\ CompleteInv' /\ ReportedOnce'
<1> DEFINE b == BlockOf(flush.event, i, sssl[s][i], sse[s][i])
<1>a. TypeOK /\ ControlInv /\ ArraysInv /\ BlocksInv /\ CompleteInv /\ ReportedOnce
    BY DEF IInv
<1>1. /\ pc = "flush" /\ pc' = "flush" /\ <<s, i>> \in flush.todo
      /\ UNCHANGED <<co_to_s, fh, last_event_id, sent, total, expo>>
      /\ flush' = [flush EXCEPT !.todo = flush.todo \ {<<s, i>>}]
    BY DEF OutputSummary, Remaining, historyVars
<1>2. /\ flush.event = last_event_id /\ last_event_id \in Event
      /\ i \in IdsOf(s) /\ sent[last_event_id] # {}
      /\ Counted \/ fh.event # last_event_id
    BY <1>1, <1>a, ParameterAssumption DEF ControlInv, Visits, NoEvent
<1>3. sssl = total[last_event_id] /\ sse = expo[last_event_id]
    BY <1>2, <1>a, ParameterAssumption DEF ArraysInv, NoEvent
<1>4. b = Expected(last_event_id, s, i) /\ b.event = last_event_id /\ b.summary = i
    BY <1>2, <1>3 DEF Expected, BlockOf
<1> HIDE DEF b
<1>5. flush'.todo = flush.todo \ {<<s, i>>}
    BY <1>1, <1>a DEF TypeOK
<1>6. \A e, t, j : Past(e, t, j)' <=>
          Past(e, t, j) \/ (e = last_event_id /\ t = s /\ j = i)
    BY <1>1, <1>5 DEF Past, Reporting
<1>7. \A t : IdsOf(t)' = IdsOf(t)
    BY <1>1 DEF IdsOf
<1>8. \A e, t, j : Expected(e, t, j)' = Expected(e, t, j)
    BY <1>1 DEF Expected
<1>s. \A t \in SummarySet : \A c : Settled(t, c) => Settled(t, c)'
    BY <1>1, <1>6, <1>7, <1>8 DEF Settled
<1>9. CASE ~Due(sse[s][i])
    <2>1. out' = out
        BY <1>9 DEF OutputSummary
    <2>2. BlocksInv'
        <3>1. ASSUME NEW t \in SummarySet, NEW n \in 1 .. Len(out'[t]),
                     NEW c, c = out'[t][n]
              PROVE  Settled(t, c)'
            BY <1>s, <1>a, <2>1, <3>1 DEF BlocksInv
        <3> QED BY <3>1 DEF BlocksInv, Settled, Expected, Past, Reporting
    <2>3. CompleteInv'
        BY <1>1, <1>3, <1>6, <1>7, <1>9, <1>a, <2>1 DEF CompleteInv, Due
    <2> QED BY <2>1, <2>2, <2>3, <1>a DEF ReportedOnce
<1>10. CASE Due(sse[s][i])
    <2>1. out' = [out EXCEPT ![s] = Append(out[s], b)]
        BY <1>10 DEF OutputSummary, b
    <2>2. /\ \A t \in SummarySet \ {s} : out'[t] = out[t]
          /\ out[s] \in Seq(Block) /\ out'[s] = Append(out[s], b)
        BY <2>1, <1>a DEF TypeOK
    <2>3. /\ Len(out'[s]) = Len(out[s]) + 1 /\ Len(out[s]) \in Nat
          /\ \A n \in 1 .. Len(out[s]) : out'[s][n] = out[s][n]
          /\ out'[s][Len(out[s]) + 1] = b
        BY <2>2
    <2>4. \A n \in 1 .. Len(out'[s]) : n \in 1 .. Len(out[s]) \/ n = Len(out[s]) + 1
        BY <2>3
    <2>5. BlocksInv'
        <3>1. ASSUME NEW t \in SummarySet, NEW n \in 1 .. Len(out'[t]),
                     NEW c, c = out'[t][n]
              PROVE  Settled(t, c)'
            <4>1. CASE t # s \/ n \in 1 .. Len(out[s])
                <5>1. n \in 1 .. Len(out[t]) /\ out[t][n] = c
                    BY <2>2, <2>3, <3>1, <4>1
                <5> QED BY <5>1, <1>s, <1>a DEF BlocksInv
            <4>2. CASE t = s /\ n = Len(out[s]) + 1
                <5>1. c = b
                    BY <3>1, <4>2, <2>3
                <5>2. c.event = last_event_id /\ c.summary = i
                    BY <5>1, <1>4
                <5>3. c = Expected(c.event, t, c.summary)
                    BY <4>2, <5>1, <5>2, <1>4
                <5>4. Past(c.event, t, c.summary)'
                    BY <4>2, <5>2, <1>6
                <5>5. c.summary \in IdsOf(t) /\ sent[c.event] # {}
                    BY <4>2, <5>2, <1>2
                <5> QED BY <5>3, <5>4, <5>5, <1>1, <1>7, <1>8 DEF Settled
            <4> QED BY <2>4, <3>1, <4>1, <4>2
        <3> QED BY <3>1 DEF BlocksInv, Settled, Expected, Past, Reporting
    <2>6. CompleteInv'
        <3> SUFFICES ASSUME NEW e \in Event, NEW t \in SummarySet, NEW j \in IdsOf(t),
                            sent[e] # {}, Past(e, t, j)', Due(expo[e][t][j])
                     PROVE  \E n \in 1 .. Len(out'[t]) :
                                out'[t][n].event = e /\ out'[t][n].summary = j
            BY <1>1, <1>7 DEF CompleteInv, Due
        <3>1. CASE Past(e, t, j)
            <4>1. PICK n \in 1 .. Len(out[t]) : out[t][n].event = e /\ out[t][n].summary = j
                BY <3>1, <1>a DEF CompleteInv
            <4>2. n \in 1 .. Len(out'[t]) /\ out'[t][n] = out[t][n]
                BY <2>2, <2>3
            <4> QED BY <4>1, <4>2
        <3>2. CASE e = last_event_id /\ t = s /\ j = i
            <4>1. Len(out[s]) + 1 \in 1 .. Len(out'[s])
                BY <2>3
            <4> QED BY <3>2, <4>1, <2>3, <1>4
        <3> QED BY <3>1, <3>2, <1>6
    <2>7. \A n \in 1 .. Len(out[s]) :
             ~(out[s][n].event = b.event /\ out[s][n].summary = b.summary)
        <3>1. ~Past(last_event_id, s, i)
            BY <1>1 DEF Past
        <3> QED BY <3>1, <1>4, <1>a DEF BlocksInv, Settled
    <2>8. ReportedOnce'
        <3> SUFFICES ASSUME NEW t \in SummarySet, NEW m \in 1 .. Len(out'[t]),
                            NEW n \in 1 .. Len(out'[t]),
                            out'[t][m].event = out'[t][n].event,
                            out'[t][m].summary = out'[t][n].summary
                     PROVE  m = n
            BY DEF ReportedOnce
        <3>1. CASE t # s
            BY <3>1, <2>2, <1>a DEF ReportedOnce
        <3>2. CASE t = s
            <4>1. CASE m \in 1 .. Len(out[s]) /\ n \in 1 .. Len(out[s])
                <5>1. /\ out[s][m].event = out[s][n].event
                      /\ out[s][m].summary = out[s][n].summary
                    BY <3>2, <4>1, <2>3
                <5> QED BY <4>1, <5>1, <1>a DEF ReportedOnce
            <4>2. CASE m \in 1 .. Len(out[s]) /\ n = Len(out[s]) + 1
                BY <3>2, <4>2, <2>3, <2>7
            <4>3. CASE m = Len(out[s]) + 1 /\ n \in 1 .. Len(out[s])
                BY <3>2, <4>3, <2>3, <2>7
            <4>4. CASE m = Len(out[s]) + 1 /\ n = Len(out[s]) + 1
                BY <4>4
            <4> QED BY <3>2, <2>4, <4>1, <4>2, <4>3, <4>4
        <3> QED BY <3>1, <3>2
    <2> QED BY <2>5, <2>6, <2>8
<1> QED BY <1>9, <1>10

\* Every step keeps what IInv says of the blocks in the output.
LEMMA ReportsStep ==
    IInv /\ [Next]_vars => BlocksInv' /\ CompleteInv' /\ ReportedOnce'
<1> SUFFICES ASSUME IInv, [Next]_vars PROVE BlocksInv' /\ CompleteInv' /\ ReportedOnce'
    OBVIOUS
<1> USE ParameterAssumption
<1>a. TypeOK /\ ControlInv
    BY DEF IInv
<1>b. TypeOK'
    BY <1>a, TypeStep
<1>1. ASSUME NEW e \in Event, NEW o \in Output, ReadHeader(e, o)
      PROVE  BlocksInv' /\ CompleteInv' /\ ReportedOnce'
    <2>1. /\ pc = "header" /\ pc' = "record" /\ fh' = [event |-> e, output |-> o]
          /\ out' = out /\ total' = total /\ co_to_s' = co_to_s
          /\ last_event_id' = last_event_id
          /\ sent' = [sent EXCEPT ![e] = @ \cup {o}]
          /\ fh.event = e \/ sent[e] = {}
          /\ \A d \in Event \ {e} : expo'[d] = expo[d]
        BY <1>1, <1>a DEF ReadHeader, TypeOK
    <2>2. fh = NoHeader \/ fh.event = last_event_id
        BY <2>1, <1>a DEF ControlInv, Counted
    <2>3. fh = NoHeader => last_event_id = NoEvent /\ fh.event = NoEvent
                           /\ \A d \in Event : sent[d] = {}
        BY <1>a DEF ControlInv, NoHeader
    <2>4. \A d \in Event : d # e => (sent'[d] # {} <=> sent[d] # {})
        BY <2>1, <1>a DEF TypeOK
    <2>5. \A d, s, i : Past(d, s, i) <=> d \notin {last_event_id, fh.event}
        BY <2>1 DEF Past, Reporting
    <2>6. \A d, s, i : Past(d, s, i)' <=> d \notin {last_event_id, e}
        BY <2>1 DEF Past, Reporting
    <2>7. \A d \in Event : sent[d] # {} /\ d \notin {last_event_id, fh.event}
             => d # e
        BY <2>1
    <2>8. NoEvent \notin Event
        BY DEF NoEvent
    <2> HIDE DEF IInv
    <2>9. \A d \in Event : \A s \in SummarySet : \A i \in IdsOf(s) :
              sent[d] # {} /\ Past(d, s, i) =>
                 /\ Past(d, s, i)'
                 /\ sent'[d] # {} /\ total'[d] = total[d] /\ expo'[d] = expo[d]
        BY <2>1, <2>4, <2>5, <2>6, <2>7
    <2>10. \A d \in Event : \A s \in SummarySet : \A i \in IdsOf(s) :
              sent'[d] # {} /\ Past(d, s, i)' => sent[d] # {} /\ Past(d, s, i)
        BY <2>2, <2>3, <2>4, <2>5, <2>6, <2>8
    <2> QED BY <1>b, <2>1, <2>9, <2>10, QuietStep
<1>2. ASSUME NEW x \in LossAt[tiv_idx], ReadTiv(x)
      PROVE  BlocksInv' /\ CompleteInv' /\ ReportedOnce'
    <2>1. /\ pc = "record" /\ UNCHANGED <<pc, fh, out, total, co_to_s, last_event_id, sent, flush>>
          /\ \A d \in Event \ {fh.event} : expo'[d] = expo[d]
        BY <1>2, <1>a DEF ReadTiv, TypeOK
    <2>2. \A d, s, i : (Past(d, s, i) <=> Past(d, s, i)')
                       /\ (Past(d, s, i) => d # fh.event)
        BY <2>1 DEF Past, Reporting
    <2> QED BY <1>b, <2>1, <2>2, QuietStep
<1>3. ASSUME NEW k \in Sidx, NEW x \in LossAt[k], ReadRecord(k, x)
      PROVE  BlocksInv' /\ CompleteInv' /\ ReportedOnce'
    <2>1. /\ pc = "record" /\ UNCHANGED <<pc, fh, out, expo, co_to_s, sent, flush>>
          /\ last_event_id \in {fh.event, NoEvent} /\ last_event_id' = fh.event
          /\ \A d \in Event \ {fh.event} : total'[d] = total[d]
        BY <1>3, <1>a DEF ReadRecord, TypeOK, Accumulate, CurrentEvent
    <2>2. \A d \in Event : \A s, i : (Past(d, s, i) <=> Past(d, s, i)')
                       /\ (Past(d, s, i) => d # fh.event)
        BY <2>1 DEF Past, Reporting, NoEvent
    <2> QED BY <1>b, <2>1, <2>2, QuietStep
<1>4. ASSUME NEW k \in Sidx, NEW x \in LossAt[k], StartFlush(k, x)
      PROVE  BlocksInv' /\ CompleteInv' /\ ReportedOnce'
    <2>1. /\ pc = "record" /\ pc' = "flush"
          /\ UNCHANGED <<fh, out, expo, co_to_s, sent, last_event_id>>
          /\ flush' = [event |-> last_event_id, final |-> FALSE, todo |-> Visits]
          /\ \A d \in Event \ {fh.event} : total'[d] = total[d]
        BY <1>4, <1>a DEF StartFlush, TypeOK, SummedEvent
    <2>2. \A s \in SummarySet : \A i \in IdsOf(s) : <<s, i>> \in flush'.todo
        BY <2>1 DEF Visits, IdsOf
    <2>3. \A d \in Event : \A s \in SummarySet : \A i \in IdsOf(s) :
              (Past(d, s, i) <=> Past(d, s, i)') /\ (Past(d, s, i) => d # fh.event)
        BY <2>1, <2>2 DEF Past, Reporting
    <2> QED BY <1>b, <2>1, <2>3, QuietStep
<1>5. ASSUME NEW s \in SummarySet, NEW i \in SummaryId, OutputSummary(s, i)
      PROVE  BlocksInv' /\ CompleteInv' /\ ReportedOnce'
    BY <1>5, OutputStep
<1>6. CASE EndFlush
    <2>1. /\ pc = "flush" /\ pc' = "record" /\ flush.todo = {}
          /\ UNCHANGED <<fh, out, expo, total, co_to_s, sent>>
          /\ last_event_id' = fh.event
        BY <1>6 DEF EndFlush, Accumulate, CurrentEvent, historyVars
    <2>2. fh.event # last_event_id
        BY <1>6, <2>1, <1>a DEF EndFlush, ControlInv
    <2>3. \A d, s, i : Past(d, s, i) <=> Past(d, s, i)'
        BY <2>1, <2>2 DEF Past, Reporting
    <2> QED BY <1>b, <2>1, <2>3, QuietStep
<1>7. CASE ReadTerminator
    <2>1. \A d, s, i : Past(d, s, i) <=> Past(d, s, i)'
        BY <1>7 DEF ReadTerminator, Past, Reporting, codeVars
    <2> QED BY <1>7, <1>b, <2>1, QuietStep DEF ReadTerminator, codeVars, historyVars
<1>8. CASE ReadEof
    <2>1. /\ pc \in {"header", "record"}
          /\ UNCHANGED <<fh, out, expo, total, co_to_s, sent, last_event_id>>
        BY <1>8 DEF ReadEof, historyVars
    <2>2. CASE fh = NoHeader
        <3>1. \A d \in Event : sent[d] = {}
            BY <2>2, <1>a DEF ControlInv
        <3> QED BY <1>b, <2>1, <3>1, QuietStep
    <2>3. CASE fh # NoHeader
        <3>1. pc' = "flush" /\ flush' = [event |-> fh.event, final |-> TRUE, todo |-> Visits]
            BY <1>8, <2>3 DEF ReadEof, havedata
        <3>2. \A s \in SummarySet : \A i \in IdsOf(s) : <<s, i>> \in flush'.todo
            BY <3>1 DEF Visits, IdsOf
        <3>3. \A d \in Event : \A s \in SummarySet : \A i \in IdsOf(s) :
                  Past(d, s, i) <=> Past(d, s, i)'
            BY <2>1, <3>1, <3>2 DEF Past, Reporting
        <3> QED BY <1>b, <2>1, <3>3, QuietStep
    <2> QED BY <2>2, <2>3
<1>9. CASE Finish
    <2>1. \A d, s, i : Past(d, s, i) <=> Past(d, s, i)'
        BY <1>9 DEF Finish, Past, Reporting, codeVars
    <2> QED BY <1>9, <1>b, <2>1, QuietStep DEF Finish, codeVars, historyVars
<1>10. CASE UNCHANGED vars
    <2>1. \A d, s, i : Past(d, s, i) <=> Past(d, s, i)'
        BY <1>10 DEF vars, Past, Reporting, codeVars
    <2> QED BY <1>10, <1>b, <2>1, QuietStep DEF vars, codeVars, historyVars
<1> QED BY <1>1, <1>2, <1>3, <1>4, <1>5, <1>6, <1>7, <1>8, <1>9, <1>10 DEF Next

-----------------------------------------------------------------------------
\* Every variable keeps its type: in particular every row index and every
\* slot dosummary writes to is inside the allocated arrays.
THEOREM TypeCorrect == Spec => [](TypeOK /\ IInv)
<1>1. IInv /\ [Next]_vars => IInv'
    BY TypeStep, ControlStep, ArraysStep, ReportsStep DEF IInv
<1>2. IInv => TypeOK
    BY DEF IInv
<1> QED BY InitInv, <1>1, <1>2, PTL DEF Spec

\* Every block written holds exactly the losses and the exposure the stream
\* carried for its event and summary, although the arrays are shared by all
\* events (dosummary, outputsummaryset).
THEOREM Exactness == Spec => []ReportsAreExact
<1>1. IInv => ReportsAreExact
    BY DEF IInv, BlocksInv, Settled, ReportsAreExact
<1> QED BY TypeCorrect, <1>1, PTL

\* No event is reported twice for a summary.
THEOREM AtMostOnce == Spec => []ReportedOnce
<1>1. IInv => ReportedOnce
    BY DEF IInv
<1> QED BY TypeCorrect, <1>1, PTL

\* When the process ends, every event of the stream, the last one included,
\* has been reported for every summary that is due.
THEOREM Completeness == Spec => []NothingLost
<1>1. IInv => NothingLost
    <2> SUFFICES ASSUME IInv, pc = "done", NEW e \in Event, sent[e] # {},
                        NEW s \in SummarySet, NEW i \in IdsOf(s), Due(expo[e][s][i])
                 PROVE  \E n \in 1 .. Len(out[s]) :
                            out[s][n].event = e /\ out[s][n].summary = i
        BY DEF NothingLost
    <2>1. Counted /\ flush.todo = {}
        BY DEF IInv, ControlInv
    <2>2. Past(e, s, i)
        BY <2>1 DEF Past, Reporting, Counted
    <2> QED BY <2>2 DEF IInv, CompleteInv
<1> QED BY TypeCorrect, <1>1, PTL

-----------------------------------------------------------------------------
\* Appending a block and its line keeps a list of lines addressing its blocks.
LEMMA AppendAddresses ==
    ASSUME NEW L, NEW lines \in Seq(L), NEW B, NEW blocks \in Seq(B),
           NEW bytes, NEW l \in L, NEW c \in B,
           Addresses(lines, blocks, bytes), l.summary = c.summary, l.offset = bytes
    PROVE  Addresses(Append(lines, l), Append(blocks, c), bytes + BlockBytes(c))
<1> DEFINE N == Len(blocks)
           lines2 == Append(lines, l)
           blocks2 == Append(blocks, c)
<1>1. /\ N \in Nat /\ Len(lines) = N
      /\ \A n \in 1 .. N : /\ lines[n].summary = blocks[n].summary
                           /\ lines[n].offset = EndOf(lines, blocks, n - 1)
      /\ bytes = EndOf(lines, blocks, N)
    BY DEF Addresses
<1>2. /\ Len(lines2) = N + 1 /\ Len(blocks2) = N + 1
      /\ \A n \in 1 .. N : lines2[n] = lines[n] /\ blocks2[n] = blocks[n]
      /\ lines2[N + 1] = l /\ blocks2[N + 1] = c
    BY <1>1
<1> HIDE DEF N, lines2, blocks2
<1>3. \A n \in 0 .. N : EndOf(lines2, blocks2, n) = EndOf(lines, blocks, n)
    <2> TAKE n \in 0 .. N
    <2>1. n = 0 \/ (n # 0 /\ n \in 1 .. N)
        BY <1>1
    <2> QED BY <1>2, <2>1 DEF EndOf
<1>4. EndOf(lines2, blocks2, N + 1) = bytes + BlockBytes(c)
    <2>1. N + 1 # 0
        BY <1>1
    <2> QED BY <1>2, <2>1 DEF EndOf
<1>5. \A n \in 1 .. N + 1 : /\ lines2[n].summary = blocks2[n].summary
                            /\ lines2[n].offset = EndOf(lines2, blocks2, n - 1)
    <2> TAKE n \in 1 .. N + 1
    <2>1. CASE n = N + 1
        <3>1. n - 1 = N /\ N \in 0 .. N
            BY <1>1, <2>1
        <3> QED BY <1>1, <1>2, <1>3, <2>1, <3>1
    <2>2. CASE n # N + 1
        <3>1. n \in 1 .. N /\ n - 1 \in 0 .. N
            BY <1>1, <2>2
        <3> QED BY <1>1, <1>2, <1>3, <3>1
    <2> QED BY <2>1, <2>2
<1> QED BY <1>2, <1>4, <1>5 DEF Addresses, lines2, blocks2

\* offset_ advances by the bytes of the block just written.
LEMMA OffsetAdvances ==
    ASSUME NEW s \in SummarySet, NEW c, offset[s] \in Nat
    PROVE  OffsetAfter(s, c) = offset[s] + BlockBytes(c)
<1>1. IsFiniteSet(1 .. SampleSize)
    BY FS_Interval, ParameterAssumption
<1>2. IsFiniteSet((1 .. SampleSize) \cup {mean_idx})
    BY <1>1, FS_AddElement
<1>3. Written(c) \in SUBSET ((1 .. SampleSize) \cup {mean_idx})
    BY DEF Written, Reported
<1>4. Cardinality(Written(c)) \in Nat
    BY <1>2, <1>3, FS_Subset, FS_CardinalityType
<1> QED BY <1>4 DEF OffsetAfter, BlockBytes, HeaderBytes, RecBytes

\* Every line of the index file gives the summary of the block with the same
\* position and the byte at which it starts, the bytes of the terminator
\* included (outputsummaryset).
THEOREM IndexCorrect == Spec => []IndexAddressesBlocks
<1>1. Init => IndexAddressesBlocks
    BY DEF Init, IndexAddressesBlocks, Addresses, EndOf
<1>2. IndexAddressesBlocks /\ IInv /\ [Next]_vars => IndexAddressesBlocks'
    <2> SUFFICES ASSUME IndexAddressesBlocks, IInv, [Next]_vars
                 PROVE  IndexAddressesBlocks'
        OBVIOUS
    <2>0. TypeOK
        BY DEF IInv
    <2>1. ASSUME NEW s \in SummarySet, NEW i \in SummaryId, OutputSummary(s, i),
                 Due(sse[s][i])
          PROVE  IndexAddressesBlocks'
        <3>0. PICK c : c = BlockOf(flush.event, i, sssl[s][i], sse[s][i])
            OBVIOUS
        <3>1. PICK l : l = [summary |-> i, offset |-> offset[s]]
            OBVIOUS
        <3>2. /\ out' = [out EXCEPT ![s] = Append(out[s], c)]
              /\ idx' = [idx EXCEPT ![s] = Append(idx[s], l)]
              /\ offset' = [offset EXCEPT ![s] = OffsetAfter(s, c)]
            BY <2>1, <3>0, <3>1 DEF OutputSummary
        <3>3. /\ c.summary = i /\ l.summary = i /\ l.offset = offset[s]
              /\ l \in [summary : SummaryId, offset : Nat]
            BY <2>0, <3>0, <3>1 DEF BlockOf, TypeOK
        <3>4. OffsetAfter(s, c) = offset[s] + BlockBytes(c)
            BY <2>0, OffsetAdvances DEF TypeOK
        <3>7. c \in Block
            <4>1. flush.event \in Event /\ i \in SummaryId \ {0}
                BY <2>1 DEF OutputSummary, IInv, ControlInv, Visits, IdsOf
            <4>2. sssl[s][i] \in [Slot -> Nat] /\ sse[s][i] \in Nat
                BY <2>0 DEF TypeOK, LossTable, ExposureTable
            <4> QED BY <3>0, <4>1, <4>2, BlockType
        <3>5. Addresses(idx'[s], out'[s], offset'[s])
            <4>1. /\ out'[s] = Append(out[s], c) /\ idx'[s] = Append(idx[s], l)
                  /\ offset'[s] = offset[s] + BlockBytes(c)
                BY <2>0, <3>2, <3>4 DEF TypeOK
            <4>2. /\ idx[s] \in Seq([summary : SummaryId, offset : Nat])
                  /\ out[s] \in Seq(Block)
                BY <2>0 DEF TypeOK
            <4>3. Addresses(idx[s], out[s], offset[s])
                BY DEF IndexAddressesBlocks
            <4>4. Addresses(Append(idx[s], l), Append(out[s], c), offset[s] + BlockBytes(c))
                <5>1. l.summary = c.summary
                    BY <3>3
                <5>2. l.offset = offset[s] /\ l \in [summary : SummaryId, offset : Nat]
                    BY <3>3
                <5> QED BY <3>7, <4>2, <4>3, <5>1, <5>2, AppendAddresses, Zenon
            <4> QED BY <4>1, <4>4
        <3>6. ASSUME NEW t \in SummarySet, t # s
              PROVE  Addresses(idx'[t], out'[t], offset'[t])
            <4>1. out'[t] = out[t] /\ idx'[t] = idx[t] /\ offset'[t] = offset[t]
                BY <2>0, <3>2, <3>6 DEF TypeOK
            <4> QED BY <4>1 DEF IndexAddressesBlocks
        <3> QED BY <3>5, <3>6 DEF IndexAddressesBlocks
    <2>2. ASSUME UNCHANGED <<out, idx, offset>> PROVE IndexAddressesBlocks'
        BY <2>2 DEF IndexAddressesBlocks
    <2>3. ASSUME NEW s \in SummarySet, NEW i \in SummaryId, OutputSummary(s, i)
          PROVE  IndexAddressesBlocks'
        BY <2>1, <2>2, <2>3 DEF OutputSummary
    <2>4. ASSUME ~\E s \in SummarySet, i \in SummaryId : OutputSummary(s, i)
          PROVE  UNCHANGED <<out, idx, offset>>
        BY <2>4 DEF Next, ReadHeader, ReadTiv, ReadRecord, StartFlush, EndFlush,
                    ReadTerminator, ReadEof, Finish, vars, codeVars
    <2> QED BY <2>2, <2>3, <2>4
<1> QED BY TypeCorrect, <1>1, <1>2, PTL DEF Spec

------------------------------------------------------------------------------
(* summarycalc implements the ledger of SummaryReport, for every stream and *)
(* every xref: one array per summary set, reused for every event, does what *)
(* an account per event would.  Every step of the process is a step of the  *)
(* ledger or changes nothing the ledger knows; the inductive invariant of   *)
(* SummaryCalc gives what the guards of the ledger ask for.                 *)
StartedEvents == {e \in Event : sent[e] # {}}
ReportedBlocks == [s \in SummarySet |-> {out[s][n] : n \in 1 .. Len(out[s])}]

\* Before the final report the events other than the one being read are closed.
LEMMA WhileReading ==
    ASSUME ~flush.final, pc # "done"
    PROVE  ClosedEvents = {e \in StartedEvents : e # fh.event}
BY DEF ClosedEvents, StartedEvents

\* A step after which every event is as started and as closed as before.
LEMMA SameEvents ==
    ASSUME sent' = sent, fh' = fh, flush'.final = flush.final,
           pc # "done", pc' # "done"
    PROVE  /\ ClosedEvents' = ClosedEvents /\ StartedEvents' = StartedEvents
           /\ (pc' = "done") = (pc = "done")
BY DEF ClosedEvents, StartedEvents

\* The reported blocks depend on the output alone.
LEMMA SameBlocks == ASSUME out' = out PROVE ReportedBlocks' = ReportedBlocks
BY DEF ReportedBlocks

\* What the ledger sees of a state.
LEMMA Stutters ==
    ASSUME co_to_s' = co_to_s, total' = total, expo' = expo,
           StartedEvents' = StartedEvents, ClosedEvents' = ClosedEvents,
           ReportedBlocks' = ReportedBlocks, (pc' = "done") = (pc = "done")
    PROVE  UNCHANGED Ledger!vars
BY DEF Ledger!vars, StartedEvents, ReportedBlocks

\* Code and ledger enter an amount in the same way, in different tables.
LEMMA SameEntries ==
    /\ \A a, o, k, x : AddLoss(a, o, k, x) = Ledger!Credited(a, o, k, x)
    /\ \A a, o, x : AddExposure(a, o, x) = Ledger!Exposed(a, o, x)
BY DEF AddLoss, AddExposure, Ledger!Credited, Ledger!Exposed

-----------------------------------------------------------------------------
\* The initial states are those of the ledger.
LEMMA InitRefines == Init => Ledger!Init
<1> SUFFICES ASSUME Init PROVE Ledger!Init
    OBVIOUS
<1>1. co_to_s \in [SummarySet -> [Output -> Ledger!SummaryId]]
    BY DEF Init, Xref, SummaryId, Ledger!SummaryId
<1>2. StartedEvents = {} /\ ClosedEvents = {}
    BY DEF Init, StartedEvents, ClosedEvents
<1>3. ReportedBlocks = [s \in SummarySet |-> {}]
    BY DEF Init, ReportedBlocks
<1>4. /\ total = [e \in Event |-> [s \in SummarySet |->
                     [i \in Ledger!SummaryId |-> [k \in Ledger!Slot |-> 0]]]]
      /\ expo = [e \in Event |-> [s \in SummarySet |-> [i \in Ledger!SummaryId |-> 0]]]
    BY DEF Init, ZeroSssl, ZeroSse, ZeroRow, SummaryId, Slot, Ledger!SummaryId, Ledger!Slot
<1>5. (pc = "done") = FALSE
    BY DEF Init
<1> QED BY <1>1, <1>2, <1>3, <1>4, <1>5 DEF Ledger!Init, StartedEvents, ReportedBlocks

\* A header opens an account, adds the exposure of a coverage to the open
\* one, or changes nothing.
LEMMA HeaderRefines ==
    ASSUME IInv, NEW e \in Event, NEW o \in Output, ReadHeader(e, o)
    PROVE  [Ledger!Next]_Ledger!vars
<1>1. /\ pc = "header" /\ pc' = "record" /\ fh'.event = e /\ ~flush.final /\ flush' = flush
      /\ sent \in [Event -> SUBSET Output] /\ sent' = [sent EXCEPT ![e] = @ \cup {o}]
      /\ co_to_s' = co_to_s /\ total' = total /\ out' = out
      /\ expo' = IF CoverageStream THEN [expo EXCEPT ![e] = AddExposure(expo[e], o, Tiv[o])] ELSE expo
      /\ fh.event = e \/ sent[e] = {}
    BY DEF ReadHeader, IInv, ControlInv, TypeOK
<1>2. /\ ClosedEvents = {d \in StartedEvents : d # fh.event}
      /\ ClosedEvents' = {d \in StartedEvents' : d # e}
    BY <1>1, WhileReading DEF ClosedEvents, StartedEvents
<1>3. StartedEvents' = StartedEvents \cup {e} /\ ReportedBlocks' = ReportedBlocks
    BY <1>1 DEF StartedEvents, ReportedBlocks
<1>4. (pc' = "done") = (pc = "done") /\ pc # "done"
    BY <1>1
<1>5. CASE sent[e] = {}
  <2>1. e \notin StartedEvents /\ ClosedEvents' = StartedEvents
      BY <1>2, <1>3, <1>5 DEF StartedEvents
  <2>2. \/ expo' = expo
        \/ CoverageStream /\ expo' = [expo EXCEPT ![e] = Ledger!Exposed(expo[e], o, Tiv[o])]
      BY <1>1, SameEntries
  <2>3. Ledger!Start(e)
      BY <1>1, <1>3, <1>4, <2>1, <2>2 DEF Ledger!Start, StartedEvents, ReportedBlocks
  <2> QED BY <1>4, <2>3 DEF Ledger!Next
<1>6. CASE sent[e] # {}
  <2>1. e \in StartedEvents \ ClosedEvents /\ StartedEvents' = StartedEvents
        /\ ClosedEvents' = ClosedEvents
      BY <1>1, <1>2, <1>3, <1>6 DEF StartedEvents
  <2>2. CASE ~CoverageStream
      BY <1>1, <1>3, <1>4, <2>1, <2>2, Stutters
  <2>3. CASE CoverageStream
    <3>1. expo' = [expo EXCEPT ![e] = Ledger!Exposed(expo[e], o, Tiv[o])]
        BY <1>1, <2>3, SameEntries
    <3>2. Ledger!Credit(e, o)
        BY <1>1, <1>3, <1>4, <2>1, <3>1 DEF Ledger!Credit, StartedEvents, ReportedBlocks
    <3> QED BY <1>4, <3>2 DEF Ledger!Next
  <2> QED BY <2>2, <2>3
<1> QED BY <1>5, <1>6

\* The block being read is of an event that is open in the ledger.
LEMMA OpenAccount ==
    ASSUME IInv, pc = "record"
    PROVE  /\ fh.event \in StartedEvents \ ClosedEvents /\ fh.event \in Event
           /\ fh.output \in Output /\ ~flush.final
<1>1. fh # NoHeader /\ ~flush.final /\ fh.output \in sent[fh.event]
    BY DEF IInv, ControlInv
<1>2. fh.event \in Event /\ fh.output \in Output
    BY <1>1 DEF IInv, TypeOK
<1> QED BY <1>1, <1>2, WhileReading DEF StartedEvents

\* An exposure that is read is a step of the ledger.
LEMMA TivRefines ==
    ASSUME IInv, NEW x \in LossAt[tiv_idx], ReadTiv(x)
    PROVE  [Ledger!Next]_Ledger!vars
<1>1. /\ pc = "record" /\ pc' = pc /\ fh' = fh /\ sent' = sent /\ flush' = flush
      /\ co_to_s' = co_to_s /\ total' = total /\ out' = out
      /\ expo' = [expo EXCEPT ![fh.event] = AddExposure(expo[fh.event], fh.output, x)]
    BY DEF ReadTiv
<1>2. /\ fh.event \in StartedEvents \ ClosedEvents /\ fh.event \in Event /\ fh.output \in Output
    BY <1>1, OpenAccount
<1>3. /\ ClosedEvents' = ClosedEvents /\ StartedEvents' = StartedEvents
      /\ (pc' = "done") = (pc = "done") /\ ReportedBlocks' = ReportedBlocks
    BY <1>1, SameEvents, SameBlocks
<1>4. expo' = [expo EXCEPT ![fh.event] = Ledger!Exposed(expo[fh.event], fh.output, x)]
    BY <1>1, SameEntries
<1>5. x \in LossAt[-3] \cup {Tiv[fh.output]}
    BY DEF tiv_idx
<1>6. Ledger!Credit(fh.event, fh.output)
    BY <1>1, <1>2, <1>3, <1>4, <1>5 DEF Ledger!Credit, StartedEvents, ReportedBlocks
<1> QED BY <1>1, <1>2, <1>6 DEF Ledger!Next

\* A loss is credited when it arrives, whether dosummary adds it at once or
\* sets it aside until the event before it is reported.
LEMMA LossRefines ==
    ASSUME IInv, NEW k \in Sidx, NEW x \in LossAt[k], ReadRecord(k, x) \/ StartFlush(k, x)
    PROVE  [Ledger!Next]_Ledger!vars
<1>1. /\ pc = "record" /\ pc' # "done" /\ fh' = fh /\ sent' = sent
      /\ co_to_s' = co_to_s /\ expo' = expo /\ out' = out
      /\ k # tiv_idx /\ flush'.final = flush.final
      /\ total' = [total EXCEPT ![fh.event] = AddLoss(total[fh.event], fh.output, k, x)]
  <2>1. pc = "record" /\ ~flush.final /\ flush.final \in BOOLEAN
      BY OpenAccount DEF ReadRecord, StartFlush, IInv, TypeOK
  <2>2. CASE ReadRecord(k, x)
      BY <2>1, <2>2 DEF ReadRecord
  <2>3. CASE StartFlush(k, x)
    <3>1. flush'.final = FALSE
        BY <2>3 DEF StartFlush
    <3> QED BY <2>1, <2>3, <3>1 DEF StartFlush
  <2> QED BY <2>2, <2>3
<1>2. /\ fh.event \in StartedEvents \ ClosedEvents /\ fh.event \in Event /\ fh.output \in Output
    BY <1>1, OpenAccount
<1>3. /\ ClosedEvents' = ClosedEvents /\ StartedEvents' = StartedEvents
      /\ (pc' = "done") = (pc = "done") /\ ReportedBlocks' = ReportedBlocks
    BY <1>1, SameEvents, SameBlocks
<1>4. total' = [total EXCEPT ![fh.event] = Ledger!Credited(total[fh.event], fh.output, k, x)]
    BY <1>1, SameEntries
<1>5. k \in Ledger!Kept \cup {-2}
    BY <1>1, ParameterAssumption DEF Sidx, tiv_idx, mean_idx, Ledger!Kept
<1>6. Ledger!Credit(fh.event, fh.output)
    BY <1>1, <1>2, <1>3, <1>4, <1>5 DEF Ledger!Credit, StartedEvents, ReportedBlocks
<1> QED BY <1>1, <1>2, <1>6 DEF Ledger!Next

-----------------------------------------------------------------------------
\* The block the ledger publishes is the one the code writes.
LEMMA SameReport ==
    ASSUME NEW e, NEW s, NEW i
    PROVE  /\ Ledger!Report(e, s, i) = Expected(e, s, i)
           /\ Ledger!Due(e, s, i) <=> Due(expo[e][s][i])
BY DEF Ledger!Report, Expected, BlockOf, Reported, Ledger!Kept, mean_idx, NotWritten,
       Ledger!Due, Due

\* The index lists the summaries that the ledger has in use.
LEMMA SameIds ==
    ASSUME NEW s \in SummarySet, NEW i \in SummaryId
    PROVE  Ledger!InUse(s, i) <=> i \in IdsOf(s)
BY ParameterAssumption DEF Ledger!InUse, IdsOf, SummaryId

\* A summary that is put out is a step of the ledger.
LEMMA OutputRefines ==
    ASSUME IInv, NEW s \in SummarySet, NEW i \in SummaryId, OutputSummary(s, i)
    PROVE  [Ledger!Next]_Ledger!vars
<1> DEFINE e == last_event_id
           b == BlockOf(flush.event, i, sssl[s][i], sse[s][i])
<1>1. /\ pc = "flush" /\ pc' = pc /\ fh' = fh /\ sent' = sent /\ flush'.final = flush.final
      /\ co_to_s' = co_to_s /\ total' = total /\ expo' = expo
      /\ <<s, i>> \in flush.todo /\ flush.todo \subseteq Visits
      /\ e \in Event /\ flush.event = e /\ fh # NoHeader
      /\ IF flush.final THEN Counted ELSE fh.event # e
    BY DEF OutputSummary, IInv, ControlInv, TypeOK, historyVars
<1>2. /\ ClosedEvents' = ClosedEvents /\ StartedEvents' = StartedEvents
      /\ (pc' = "done") = (pc = "done")
    BY <1>1, SameEvents
<1>3. CASE ~Due(sse[s][i])
  <2>1. out' = out
      BY <1>3 DEF OutputSummary
  <2> QED BY <1>1, <1>2, <2>1, SameBlocks, Stutters
<1>4. CASE Due(sse[s][i])
  <2>1. sse = expo[e] /\ sssl = total[e]
      BY <1>1, ParameterAssumption DEF IInv, ArraysInv, NoEvent
  <2>2. b = Ledger!Report(e, s, i) /\ Ledger!Due(e, s, i)
      BY <1>1, <1>4, <2>1, SameReport DEF Expected
  <2>3. Ledger!InUse(s, i)
      BY <1>1, SameIds DEF Visits
  <2>4. e \in ClosedEvents
    <3>1. sent[e] # {}
        BY <1>1, ParameterAssumption DEF IInv, ControlInv, NoEvent
    <3> QED BY <1>1, <3>1 DEF ClosedEvents
  <2>5. ~\E c \in ReportedBlocks[s] : c.event = e /\ c.summary = i
    <3> SUFFICES ASSUME NEW n \in 1 .. Len(out[s]), out[s][n].event = e, out[s][n].summary = i
                 PROVE  FALSE
        BY DEF ReportedBlocks
    <3>1. Past(e, s, i)
        BY DEF IInv, BlocksInv, Settled
    <3> QED BY <1>1, <3>1 DEF Past
  <2>6. ReportedBlocks' = [ReportedBlocks EXCEPT ![s] = @ \cup {Ledger!Report(e, s, i)}]
    <3>1. out' = [out EXCEPT ![s] = Append(@, b)]
        BY <1>4 DEF OutputSummary
    <3>2. out \in [SummarySet -> Seq(Block)]
        BY DEF IInv, TypeOK
    <3> HIDE DEF b
    <3>3. {Append(out[s], b)[n] : n \in 1 .. Len(Append(out[s], b))}
             = {out[s][n] : n \in 1 .. Len(out[s])} \cup {b}
      <4> DEFINE old == out[s]
                 T == Block \cup {b}
      <4>1. old \in Seq(T) /\ b \in T
          BY <3>2
      <4> HIDE DEF old, T
      <4>2. /\ Len(old) \in Nat /\ Len(Append(old, b)) = Len(old) + 1
            /\ Append(old, b)[Len(old) + 1] = b
            /\ \A n \in 1 .. Len(old) : Append(old, b)[n] = old[n]
          BY <4>1
      <4>3. \A n \in 1 .. Len(Append(old, b)) : n \in 1 .. Len(old) \/ n = Len(old) + 1
          BY <4>2
      <4>4. \A c : (\E n \in 1 .. Len(Append(old, b)) : c = Append(old, b)[n])
                      <=> (\E n \in 1 .. Len(old) : c = old[n]) \/ c = b
          BY <4>2, <4>3
      <4> QED BY <4>4 DEF old
    <3>4. ReportedBlocks' = [ReportedBlocks EXCEPT ![s] = @ \cup {b}]
        BY <3>1, <3>2, <3>3 DEF ReportedBlocks
    <3> QED BY <2>2, <3>4
  <2>7. Ledger!Publish(e, s, i)
      BY <1>1, <1>2, <2>2, <2>3, <2>4, <2>5, <2>6
         DEF Ledger!Publish, StartedEvents, ReportedBlocks
  <2> QED BY <1>1, <2>7 DEF Ledger!Next, SummaryId, Ledger!SummaryId
<1> QED BY <1>3, <1>4

\* The end of the stream closes the last event; without any, all is done.
LEMMA EofRefines ==
    ASSUME IInv, ReadEof
    PROVE  [Ledger!Next]_Ledger!vars
<1>1. /\ pc # "done" /\ fh' = fh /\ sent' = sent /\ out' = out
      /\ co_to_s' = co_to_s /\ total' = total /\ expo' = expo
    BY DEF ReadEof, historyVars
<1>2. StartedEvents' = StartedEvents /\ ReportedBlocks' = ReportedBlocks
    BY <1>1, SameBlocks DEF StartedEvents
<1>3. CASE havedata
  <2>1. pc' = "flush" /\ flush'.final = TRUE
      BY <1>3 DEF ReadEof
  <2>2. ClosedEvents' = StartedEvents /\ (pc' = "done") = (pc = "done")
      BY <1>1, <2>1 DEF ClosedEvents, StartedEvents
  <2>3. Ledger!Close
      BY <1>1, <1>2, <2>2 DEF Ledger!Close, StartedEvents, ReportedBlocks
  <2> QED BY <1>1, <2>3 DEF Ledger!Next
<1>4. CASE ~havedata
  <2>1. pc' = "done" /\ \A e \in Event : sent[e] = {}
      BY <1>4 DEF ReadEof, havedata, IInv, ControlInv
  <2>2. StartedEvents = {} /\ ClosedEvents = {} /\ ClosedEvents' = {}
      BY <1>1, <2>1 DEF ClosedEvents, StartedEvents
  <2>3. (pc' = "done") = TRUE
      BY <2>1
  <2>4. Ledger!Stop
      BY <1>1, <1>2, <2>2, <2>3 DEF Ledger!Stop, StartedEvents, ReportedBlocks
  <2> QED BY <1>1, <2>4 DEF Ledger!Next
<1> QED BY <1>3, <1>4

\* The final report is complete: nothing due is missing in the ledger.
LEMMA FinishRefines ==
    ASSUME IInv, Finish
    PROVE  [Ledger!Next]_Ledger!vars
<1>1. /\ pc = "flush" /\ pc' = "done" /\ flush.final /\ flush.todo = {} /\ Counted
      /\ fh' = fh /\ sent' = sent /\ out' = out /\ flush' = flush
      /\ co_to_s' = co_to_s /\ total' = total /\ expo' = expo
    BY DEF Finish, IInv, ControlInv, codeVars, historyVars
<1>2. /\ StartedEvents' = StartedEvents /\ ReportedBlocks' = ReportedBlocks
      /\ ClosedEvents = StartedEvents /\ ClosedEvents' = ClosedEvents
    BY <1>1, SameBlocks DEF StartedEvents, ClosedEvents
<1>3. (pc' = "done") = TRUE
    BY <1>1
<1>4. ASSUME NEW e \in StartedEvents, NEW s \in SummarySet, NEW i \in Ledger!SummaryId,
             Ledger!InUse(s, i), Ledger!Due(e, s, i)
      PROVE  Ledger!Report(e, s, i) \in ReportedBlocks[s]
  <2>1. e \in Event /\ sent[e] # {} /\ i \in SummaryId
      BY DEF StartedEvents, SummaryId, Ledger!SummaryId
  <2>2. i \in IdsOf(s) /\ Due(expo[e][s][i])
      BY <1>4, <2>1, SameIds, SameReport
  <2>3. Past(e, s, i)
      BY <1>1 DEF Past, Reporting, Counted
  <2>4. PICK n \in 1 .. Len(out[s]) : out[s][n].event = e /\ out[s][n].summary = i
      BY <2>1, <2>2, <2>3 DEF IInv, CompleteInv
  <2>5. out[s][n] = Ledger!Report(e, s, i)
      BY <2>4, SameReport DEF IInv, BlocksInv, Settled
  <2> QED BY <2>5 DEF ReportedBlocks
<1>5. Ledger!Stop
    BY <1>1, <1>2, <1>3, <1>4 DEF Ledger!Stop, StartedEvents, ReportedBlocks
<1> QED BY <1>1, <1>5 DEF Ledger!Next

\* Neither the terminator of a block nor the resumption of the record that
\* was set aside is anything to the ledger.
LEMMA HiddenSteps ==
    ASSUME IInv, EndFlush \/ ReadTerminator \/ UNCHANGED vars
    PROVE  UNCHANGED Ledger!vars
<1>1. CASE EndFlush
  <2>1. /\ pc = "flush" /\ pc' = "record" /\ fh' = fh /\ sent' = sent /\ out' = out
        /\ co_to_s' = co_to_s /\ total' = total /\ expo' = expo
        /\ flush'.final = FALSE /\ ~flush.final /\ flush.final \in BOOLEAN
      BY <1>1 DEF EndFlush, NoFlush, historyVars, IInv, TypeOK
  <2>2. flush'.final = flush.final
      BY <2>1
  <2> QED BY <2>1, <2>2, SameEvents, SameBlocks, Stutters
<1>2. CASE ReadTerminator
  <2>1. /\ pc # "done" /\ pc' # "done" /\ fh' = fh /\ sent' = sent /\ out' = out
        /\ co_to_s' = co_to_s /\ total' = total /\ expo' = expo /\ flush' = flush
      BY <1>2 DEF ReadTerminator, codeVars, historyVars
  <2> QED BY <2>1, SameEvents, SameBlocks, Stutters
<1>3. CASE UNCHANGED vars
  <2>1. /\ ClosedEvents' = ClosedEvents /\ StartedEvents' = StartedEvents
        /\ (pc' = "done") = (pc = "done") /\ ReportedBlocks' = ReportedBlocks
      BY <1>3 DEF vars, codeVars, historyVars, ClosedEvents, StartedEvents, ReportedBlocks
  <2> QED BY <1>3, <2>1, Stutters DEF vars, historyVars
<1> QED BY <1>1, <1>2, <1>3

\* Every step is one of the ledger or a stutter.
LEMMA StepRefines == IInv /\ [Next]_vars => [Ledger!Next]_Ledger!vars
<1> SUFFICES ASSUME IInv, [Next]_vars PROVE [Ledger!Next]_Ledger!vars
    OBVIOUS
<1>1. CASE Next
    BY <1>1, HeaderRefines, TivRefines, LossRefines, OutputRefines, EofRefines,
       FinishRefines, HiddenSteps DEF Next
<1>2. CASE UNCHANGED vars
    BY <1>2, HiddenSteps
<1> QED BY <1>1, <1>2

(* summarycalc (dosummary, outputsummary and the loops that call them)      *)
(* implements the ledger: it publishes a block only for an event of which   *)
(* nothing more will come, with the amounts of that event's own account,    *)
(* never twice, and ends only when nothing due is missing.                  *)
THEOREM Refinement == Spec => ImplementsLedger
<1>1. Init => Ledger!Init
    BY InitRefines
<1>2. IInv /\ [Next]_vars => [Ledger!Next]_Ledger!vars
    BY StepRefines
<1> QED BY <1>1, <1>2, TypeCorrect, PTL DEF Spec, ImplementsLedger, Ledger!Spec
=============================================================================
