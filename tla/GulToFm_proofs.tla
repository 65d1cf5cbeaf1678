--------------------------- MODULE GulToFm_proofs ---------------------------
(* The writer, for every buffer size, record size and number of events,     *)
(* items and samples: the buffer is never overrun, and the blocks of the    *)
(* stream are separated by terminators.  IInv says of the records written   *)
(* so far, with those in the buffer, that headers and terminators           *)
(* alternate, that there is none exactly while no header has been written,  *)
(* and that the last one is not a terminator.                               *)
(*                                                                          *)
(* Both processes, for every interleaving: what fmcalc calculates for an    *)
(* event is what gulcalc produced for it.  CInv says of the stream that it  *)
(* carries the losses produced so far, each in its block, and of fmcalc     *)
(* what FmEvents_proofs says of it on such a stream.                        *)
EXTENDS GulToFm, SequenceTheorems, TLAPS

-----------------------------------------------------------------------------
(* The writer                                                               *)

Token == {Header(e, i) : e \in Events, i \in Items}
            \cup {Record(s, Loss(e, i, s)) : e \in Events, i \in Items, s \in Sidx}
            \cup {Terminator}

Closed(s) == \A p \in 1 .. Len(s) : IsHeader(s[p]) <=> p = 1 \/ s[p - 1] = Terminator

\* A stream to which the next block or record can be added.
Extendable(s) == Closed(s) /\ (s # <<>> => s[Len(s)] # Terminator)

\* A stream with one word more, and with those of one call.
With(s, t) == s \o <<t>>
WithCall(s, e, i, n) == s \o Added(e, i, n)

Bound == bufoffset \in Nat /\ bufoffset <= BufSize + Spare

Blocks ==
    /\ written \in Seq(Token) /\ buf \in Seq(Token)
    /\ isFirst \in BOOLEAN
    /\ open \in BOOLEAN
    /\ lastheader \in {<<0, 0>>} \cup (Events \X Items)
    /\ isFirst <=> lastheader = <<0, 0>>
    /\ Extendable(Stream)
    /\ open => (isFirst <=> Stream = <<>>)

IInv == Bound /\ Blocks

-----------------------------------------------------------------------------
\* Headers, records and terminators cannot be mistaken for each other.
LEMMA Tokens ==
    ASSUME NEW e \in Events, NEW i \in Items, NEW s \in Sidx
    PROVE  /\ Header(e, i) \in Token /\ IsHeader(Header(e, i))
           /\ Header(e, i) # Terminator
           /\ Record(s, Loss(e, i, s)) \in Token /\ ~IsHeader(Record(s, Loss(e, i, s)))
           /\ Record(s, Loss(e, i, s)) # Terminator
           /\ Terminator \in Token /\ ~IsHeader(Terminator)
<1>1. s # 0 /\ s \in Int
    BY WriterAssumption DEF Sidx
<1>2. Header(e, i) \in Token /\ Record(s, Loss(e, i, s)) \in Token /\ Terminator \in Token
    BY DEF Token
<1>3. IsHeader(Header(e, i)) /\ ~IsHeader(Record(s, Loss(e, i, s))) /\ ~IsHeader(Terminator)
    BY DEF IsHeader, Header, Record, Terminator
<1>4. Record(s, Loss(e, i, s)) # Terminator
    BY <1>1 DEF Record, Terminator
<1> QED BY <1>2, <1>3, <1>4

\* One more token on a closed stream.
LEMMA AddToken ==
    ASSUME NEW s \in Seq(Token), NEW t \in Token, Closed(s),
           IsHeader(t) <=> s = <<>> \/ s[Len(s)] = Terminator,
           NEW r, r = With(s, t)
    PROVE  Closed(r) /\ r \in Seq(Token) /\ r # <<>> /\ r[Len(r)] = t
<1>1. /\ r \in Seq(Token) /\ Len(r) = Len(s) + 1 /\ r[Len(r)] = t
      /\ Len(s) \in Nat
      /\ \A p \in 1 .. Len(s) : r[p] = s[p]
    BY DEF With
<1>2. s = <<>> <=> Len(s) = 0
    OBVIOUS
<1>3. ASSUME NEW p \in 1 .. Len(r)
      PROVE  IsHeader(r[p]) <=> p = 1 \/ r[p - 1] = Terminator
    <2>1. CASE p = Len(s) + 1
        <3>1. r[p] = t /\ (p = 1 <=> s = <<>>)
            BY <2>1, <1>1, <1>2
        <3>2. p # 1 => r[p - 1] = s[Len(s)]
            BY <2>1, <1>1
        <3> QED BY <3>1, <3>2
    <2>2. CASE p \in 1 .. Len(s)
        <3>1. r[p] = s[p] /\ (p # 1 => r[p - 1] = s[p - 1])
            BY <2>2, <1>1
        <3>2. IsHeader(s[p]) <=> p = 1 \/ s[p - 1] = Terminator
            BY <2>2 DEF Closed
        <3> QED BY <3>1, <3>2
    <2> QED BY <1>1, <2>1, <2>2
<1>4. Closed(r)
    BY <1>3 DEF Closed
<1>5. r # <<>>
    BY <1>1
<1> QED BY <1>1, <1>4, <1>5

\* What one call adds to a stream, word by word.
LEMMA AddedWords ==
    ASSUME NEW s \in Seq(Token), isFirst \in BOOLEAN,
           NEW e \in Events, NEW i \in Items, NEW n \in Sidx,
           <<e, i>> = lastheader => ~isFirst
    PROVE  LET h == Header(e, i)
               r == Record(n, Loss(e, i, n))
           IN
           /\ Added(e, i, n) \in Seq(Token)
           /\ <<e, i>> = lastheader => WithCall(s, e, i, n) = With(s, r)
           /\ <<e, i>> # lastheader /\ isFirst => WithCall(s, e, i, n) = With(With(s, h), r)
           /\ <<e, i>> # lastheader /\ ~isFirst =>
                  WithCall(s, e, i, n) = With(With(With(s, Terminator), h), r)
<1> DEFINE h == Header(e, i)
           r == Record(n, Loss(e, i, n))
           t == Terminator
<1>1. h \in Token /\ r \in Token /\ t \in Token
    BY Tokens
<1>2. /\ Added(e, i, n) = IF <<e, i>> = lastheader THEN (<<>> \o <<>>) \o <<r>>
                          ELSE IF isFirst THEN (<<>> \o <<h>>) \o <<r>>
                          ELSE (<<t>> \o <<h>>) \o <<r>>
    BY DEF Added
<1> HIDE DEF h, r, t
<1>3. <<t>> \in Seq(Token) /\ <<h>> \in Seq(Token) /\ <<r>> \in Seq(Token)
    BY <1>1
<1>4. CASE <<e, i>> = lastheader
    <2>1. Added(e, i, n) = <<r>>
        BY <1>2, <1>3, <1>4
    <2> QED BY <1>3, <1>4, <2>1 DEF With, WithCall, h, r
<1>5. CASE <<e, i>> # lastheader /\ isFirst
    <2>1. Added(e, i, n) = <<h>> \o <<r>>
        BY <1>2, <1>3, <1>5
    <2>2. s \o (<<h>> \o <<r>>) = (s \o <<h>>) \o <<r>> /\ <<h>> \o <<r>> \in Seq(Token)
        BY <1>3, ConcatAssociative, ConcatProperties
    <2> QED BY <1>5, <2>1, <2>2 DEF With, WithCall, h, r
<1>6. CASE <<e, i>> # lastheader /\ ~isFirst
    <2>1. Added(e, i, n) = (<<t>> \o <<h>>) \o <<r>>
        BY <1>2, <1>6
    <2>2. <<t>> \o <<h>> \in Seq(Token)
        BY <1>3, ConcatProperties
    <2>3. s \o ((<<t>> \o <<h>>) \o <<r>>) = (s \o (<<t>> \o <<h>>)) \o <<r>>
        BY <1>3, <2>2, ConcatAssociative
    <2>4. s \o (<<t>> \o <<h>>) = (s \o <<t>>) \o <<h>>
        BY <1>3, ConcatAssociative
    <2>5. (<<t>> \o <<h>>) \o <<r>> \in Seq(Token)
        BY <1>3, <2>2, ConcatProperties
    <2> QED BY <1>6, <2>1, <2>3, <2>4, <2>5 DEF With, WithCall, h, r, t
<1> QED BY <1>4, <1>5, <1>6

\* What one call adds leaves the stream extendable.
LEMMA AddCall ==
    ASSUME NEW s \in Seq(Token), Extendable(s),
           isFirst \in BOOLEAN, isFirst <=> lastheader = <<0, 0>>,
           isFirst <=> s = <<>>,
           NEW e \in Events, NEW i \in Items, NEW n \in Sidx,
           NEW z, z = WithCall(s, e, i, n)
    PROVE  z \in Seq(Token) /\ Extendable(z) /\ z # <<>>
<1> DEFINE h == Header(e, i)
           r == Record(n, Loss(e, i, n))
           t == Terminator
<1>1. /\ h \in Token /\ IsHeader(h) /\ h # t
      /\ r \in Token /\ ~IsHeader(r) /\ r # t
      /\ t \in Token /\ ~IsHeader(t)
    BY Tokens
<1>2. <<e, i>> = lastheader => ~isFirst
    BY WriterAssumption
<1>3. /\ <<e, i>> = lastheader => z = With(s, r)
      /\ <<e, i>> # lastheader /\ isFirst => z = With(With(s, h), r)
      /\ <<e, i>> # lastheader /\ ~isFirst => z = With(With(With(s, t), h), r)
    BY <1>2, AddedWords
<1>4. Closed(s) /\ (s # <<>> => s[Len(s)] # t)
    BY DEF Extendable
<1> HIDE DEF h, r
\* The record goes behind a header or a record.
<1>5. ASSUME NEW s1 \in Seq(Token), Closed(s1), s1 # <<>>, s1[Len(s1)] # t, z = With(s1, r)
      PROVE  z \in Seq(Token) /\ Extendable(z) /\ z # <<>>
    BY <1>1, <1>5, AddToken DEF Extendable
<1>6. CASE <<e, i>> = lastheader
    BY <1>2, <1>3, <1>4, <1>5, <1>6
<1>7. CASE <<e, i>> # lastheader /\ isFirst
    <2>1. PICK s1 : s1 = With(s, h)
        OBVIOUS
    <2>2. Closed(s1) /\ s1 \in Seq(Token) /\ s1 # <<>> /\ s1[Len(s1)] = h
        BY <1>1, <1>4, <1>7, <2>1, AddToken
    <2>3. z = With(s1, r)
        BY <1>3, <1>7, <2>1
    <2> QED BY <1>1, <1>5, <2>2, <2>3
<1>8. CASE <<e, i>> # lastheader /\ ~isFirst
    <2>1. PICK s1 : s1 = With(s, t)
        OBVIOUS
    <2>2. Closed(s1) /\ s1 \in Seq(Token) /\ s1 # <<>> /\ s1[Len(s1)] = t
        BY <1>1, <1>4, <1>8, <2>1, AddToken
    <2>3. PICK s2 : s2 = With(s1, h)
        OBVIOUS
    <2>4. Closed(s2) /\ s2 \in Seq(Token) /\ s2 # <<>> /\ s2[Len(s2)] = h
        BY <1>1, <2>2, <2>3, AddToken
    <2>5. z = With(s2, r)
        BY <1>3, <1>8, <2>1, <2>3
    <2> QED BY <1>1, <1>5, <2>4, <2>5
<1> QED BY <1>6, <1>7, <1>8

-----------------------------------------------------------------------------
\* IInv holds before the first call.
LEMMA InitHolds == WriterInit => IInv
<1> SUFFICES ASSUME WriterInit PROVE IInv
    OBVIOUS
<1> USE DEF WriterInit
<1>1. Bound
    BY WriterAssumption DEF Bound
<1>2. written \in Seq(Token) /\ buf \in Seq(Token) /\ Stream = <<>>
    BY DEF Stream
<1>3. Extendable(Stream)
    BY <1>2 DEF Extendable, Closed
<1> QED BY <1>1, <1>2, <1>3 DEF IInv, Blocks

\* A call of itemoutputgul extends the stream, written out or not.
LEMMA StreamAdded ==
    ASSUME IInv, open, NEW e \in Events, NEW i \in Items, NEW n \in Sidx,
           itemoutputgul(e, i, n)
    PROVE  /\ Stream \in Seq(Token) /\ Stream' = WithCall(Stream, e, i, n)
           /\ written' \in Seq(Token) /\ buf' \in Seq(Token)
<1> DEFINE a == Added(e, i, n)
           w == IF Full THEN written \o buf ELSE written
           b == IF Full THEN <<>> ELSE buf
<1>1. written' = w /\ buf' = b \o a /\ open' = open
    BY DEF itemoutputgul
<1>2. /\ written \in Seq(Token) /\ buf \in Seq(Token) /\ Stream = written \o buf
      /\ isFirst \in BOOLEAN /\ (<<e, i>> = lastheader => ~isFirst)
    BY WriterAssumption DEF IInv, Blocks, Stream
<1>3. w \in Seq(Token) /\ b \in Seq(Token)
    BY <1>2, ConcatProperties
<1>4. w \o b = Stream
    <2>1. CASE Full
        BY <2>1, <1>2, ConcatProperties, ConcatEmptySeq
    <2>2. CASE ~Full
        BY <2>2, <1>2
    <2> QED BY <2>1, <2>2
<1>5. Stream \in Seq(Token)
    BY <1>2, ConcatProperties
<1>6. a \in Seq(Token)
    BY <1>2, <1>5, AddedWords
<1>7. Stream' = w \o (b \o a)
    BY <1>1 DEF Stream
<1> HIDE DEF w, b, a
<1>8. b \o a \in Seq(Token)
    BY <1>3, <1>6, ConcatProperties
<1>9. w \o (b \o a) = (w \o b) \o a
    BY <1>3, <1>6, ConcatAssociative
<1>10. Stream' = WithCall(Stream, e, i, n)
    BY <1>4, <1>7, <1>9, Zenon DEF WithCall, a
<1>11. written' \in Seq(Token)
    BY <1>1, <1>3, Zenon
<1>12. buf' \in Seq(Token)
    BY <1>1, <1>8, Zenon
<1> QED BY <1>5, <1>10, <1>11, <1>12, Zenon

\* A call of itemoutputgul keeps IInv.
LEMMA PutHolds ==
    ASSUME IInv, open, NEW e \in Events, NEW i \in Items, NEW n \in Sidx,
           itemoutputgul(e, i, n)
    PROVE  IInv'
<1>1. open' = open /\ lastheader' = <<e, i>> /\ isFirst' = FALSE
    BY DEF itemoutputgul
<1>2. bufoffset \in Nat /\ bufoffset <= BufSize + Spare
    BY DEF IInv, Bound
<1>3. Bound'
    <2>1. /\ AddedSize(e, i) \in Nat /\ AddedSize(e, i) <= Spare + 1
        BY WriterAssumption, RoomAssumption DEF AddedSize
    <2>2. bufoffset' = (IF Full THEN 0 ELSE bufoffset) + AddedSize(e, i)
        BY DEF itemoutputgul
    <2>3. CASE Full
        BY <2>1, <2>2, <2>3, WriterAssumption DEF Bound
    <2>4. CASE ~Full
        BY <2>1, <2>2, <2>4, <1>2, WriterAssumption DEF Bound, Full
    <2> QED BY <2>3, <2>4
<1>4. /\ Stream \in Seq(Token) /\ Stream' = WithCall(Stream, e, i, n)
      /\ written' \in Seq(Token) /\ buf' \in Seq(Token)
    BY StreamAdded
<1>5. Extendable(Stream') /\ Stream' # <<>>
    BY <1>4, AddCall DEF IInv, Blocks
<1>6. Blocks'
    <2>1. <<e, i>> # <<0, 0>> /\ <<e, i>> \in Events \X Items
        BY WriterAssumption
    <2>2. Extendable(Stream)'
        BY <1>5 DEF Extendable, Closed, IsHeader, Terminator, Record, NoLoss
    <2>3. (isFirst \in BOOLEAN)' /\ (open \in BOOLEAN)' /\ ~isFirst'
        BY <1>1
    <2> QED BY <2>1, <2>2, <2>3, <1>1, <1>4, <1>5 DEF Blocks, Token
<1> QED BY <1>3, <1>6 DEF IInv

\* The last write, of what is left in the buffer, keeps IInv.
LEMMA FinalHolds == IInv /\ FinalWrite => IInv'
<1> SUFFICES ASSUME IInv, FinalWrite PROVE IInv'
    OBVIOUS
<1>1. /\ open /\ written' = written \o buf /\ ~open' /\ open' \in BOOLEAN
      /\ buf' = buf /\ bufoffset' = bufoffset
      /\ lastheader' = lastheader /\ isFirst' = isFirst
    BY DEF FinalWrite
<1>2. Stream' = Stream
    BY <1>1 DEF Stream
<1>3. written' \in Seq(Token)
    BY <1>1, ConcatProperties DEF IInv, Blocks
<1>4. Extendable(Stream)'
    BY <1>2 DEF IInv, Blocks, Extendable, Closed, IsHeader, Terminator, Record, NoLoss
<1> QED BY <1>1, <1>3, <1>4 DEF IInv, Bound, Blocks, Token

\* Every step of the writer keeps IInv.
LEMMA StepHolds == IInv /\ [WriterNext \/ WriterStopped]_wvars => IInv'
<1> SUFFICES ASSUME IInv, [WriterNext \/ WriterStopped]_wvars PROVE IInv'
    OBVIOUS
<1>1. CASE Put
    <2>1. PICK e \in Events, i \in Items, n \in Sidx : itemoutputgul(e, i, n)
        BY <1>1 DEF Put
    <2>2. open
        BY <1>1 DEF Put
    <2> QED BY <2>1, <2>2, PutHolds
<1>2. CASE FinalWrite
    BY <1>2, FinalHolds
<1>3. CASE UNCHANGED wvars
    <2>1. /\ Stream' = Stream /\ written' = written /\ buf' = buf /\ open' = open
          /\ bufoffset' = bufoffset /\ lastheader' = lastheader /\ isFirst' = isFirst
        BY <1>3 DEF wvars, Stream
    <2> QED BY <2>1 DEF IInv, Bound, Blocks, Extendable, Closed, Token
<1> QED BY <1>1, <1>2, <1>3 DEF WriterNext, WriterStopped

\* IInv is an invariant of the writer.
LEMMA InductiveInvariant == WriterSpec => []IInv
<1> QED BY InitHolds, StepHolds, PTL DEF WriterSpec

(* For every buffer size: itemoutputgul never writes behind the allocated   *)
(* buffer, provided the spare room holds what RoomAssumption says.          *)
THEOREM NoOverrun == WriterSpec => []BufferBound
<1>1. IInv => BufferBound
    BY DEF IInv, Bound, BufferBound
<1> QED BY <1>1, InductiveInvariant, PTL

(* For every position at which the buffer is written out: the headers of    *)
(* the stream stand at its beginning and after the terminators.             *)
THEOREM BlocksSeparated == WriterSpec => []BlocksClosed
<1>1. IInv => BlocksClosed
    BY DEF IInv, Blocks, Extendable, Closed, BlocksClosed
<1> QED BY <1>1, InductiveInvariant, PTL

(* The types of the writer's state.                                         *)
THEOREM TypeCorrect == WriterSpec => []TypeOK
<1>1. IInv => TypeOK
    BY DEF IInv, Bound, Blocks, TypeOK
<1> QED BY <1>1, InductiveInvariant, PTL

-----------------------------------------------------------------------------
(* The writer and the reader                                                *)

FmP == INSTANCE FmEvents_proofs WITH
    stream <- written, closed <- ~open, isOldGULStreamType_ <- FALSE

Losses == Events \X Items \X Sidx

\* The blocks of stream s are those of B, in the order of their events.
Begins(s, B) ==
    /\ \A h, k \in FmP!Heads(s) : h < k => s[h][2] <= s[k][2]
    /\ \A h \in FmP!Heads(s) : <<s[h][2], s[h][3]>> \in B

\* The records of stream s are the losses of P, each in its block.
Carries(s, P) ==
    /\ \A l \in P : \E x \in 1 .. Len(s) : FmP!IsLoss(s, x, l[1], l[2], l[3])
    /\ \A x \in FmP!Records(s) : s[x] # Terminator =>
           s[x][3] \in P /\ FmP!IsLoss(s, x, s[x][3][1], s[x][3][2], s[x][3][3])

Core(s, P, B) ==
    /\ s \in Seq(Token) /\ FmP!Framed(s, -3)
    /\ Begins(s, B) /\ Carries(s, P) /\ P \subseteq Losses

\* The last block is that of event e and item i, its last record of sample x.
LastBlock(s, e, i, x) ==
    LET h == FmP!HeadOf(s, Len(s)) IN
    /\ s # <<>> /\ s[h][2] = e /\ s[h][3] = i
    /\ \A q \in h + 1 .. Len(s) : s[q][2] \in Sidx /\ s[q][2] <= x
HasOpened(s) == \E q \in FmP!HeadOf(s, Len(s)) + 1 .. Len(s) : s[q][2] = -3

\* The stream holds the losses produced so far, those of the last block last.
Begun == {<<put[n][1], put[n][2]>> : n \in 1 .. Len(put)}
Ends(s, l, B) ==
    /\ LastBlock(s, l[1], l[2], l[3]) /\ HasOpened(s)
    /\ \A b \in B : b[1] <= l[1]
WInv ==
    /\ ExposureFirst
    /\ put \in Seq(Losses)
    /\ Core(Stream, Produced, Begun)
    /\ put = <<>> => Stream = <<>> /\ lastheader = <<0, 0>>
    /\ put # <<>> => LET l == put[Len(put)] IN
           lastheader = <<l[1], l[2]>> /\ Ends(Stream, l, Begun)

\* The two processes, and the pipe between them.
CInv ==
    /\ IInv /\ WInv /\ FmP!IInv /\ FmP!MatrixInv
    /\ pc = "done" => ~open

\* What FmSeesGul says of one call of dofm.
Seen(c) ==
    /\ LossesIn(c) = {l \in ProducedOf(c.event) : l[3] # -2}
    /\ \A r \in Fm!Row, k \in 1 .. Len(c.items) :
           c.guls[r][k] \in {NoLoss, Loss(c.event, c.items[k], SidxOf(r))}

\* Stream r is s with one word more, t.
Longer(r, s, t) ==
    /\ r \in Seq(Token) /\ s \in Seq(Token) /\ Len(s) \in Nat /\ Len(r) = Len(s) + 1
    /\ r[Len(s) + 1] = t
    /\ \A p \in 1 .. Len(s) : r[p] = s[p]
    /\ FmP!Extends(r, s)

\* What is said of the losses of s holds in r, which is longer.
Keeps(r, s, P) ==
    /\ \A l \in P : \E x \in 1 .. Len(s) : FmP!IsLoss(r, x, l[1], l[2], l[3])
    /\ \A x \in FmP!Records(s) : r[x] # Terminator =>
           r[x][3] \in P /\ FmP!IsLoss(r, x, r[x][3][1], r[x][3][2], r[x][3][3])

-----------------------------------------------------------------------------
(* The stream as gulcalc extends it, word by word.                          *)
LEMMA Words ==
    ASSUME NEW s \in Seq(Token), NEW t \in Token
    PROVE  Longer(With(s, t), s, t)
<1> DEFINE r == With(s, t)
<1>1. /\ r \in Seq(Token) /\ Len(s) \in Nat /\ Len(r) = Len(s) + 1
      /\ r[Len(s) + 1] = t
      /\ \A p \in 1 .. Len(s) : r[p] = s[p]
    BY DEF With
<1> HIDE DEF r
<1>2. FmP!Extends(r, s)
    BY <1>1 DEF FmP!Extends
<1> QED BY <1>1, <1>2 DEF Longer, r

\* The words of a stream: which are headers, and what they carry.
LEMMA Kinds ==
    ASSUME NEW e \in Events, NEW i \in Items, NEW x \in Sidx
    PROVE  /\ Header(e, i) \in Token /\ FmP!IsHeader(Header(e, i))
           /\ Header(e, i)[2] = e /\ Header(e, i)[3] = i
           /\ Record(x, Loss(e, i, x)) \in Token /\ ~FmP!IsHeader(Record(x, Loss(e, i, x)))
           /\ Record(x, Loss(e, i, x))[2] = x /\ Record(x, Loss(e, i, x))[3] = <<e, i, x>>
           /\ Record(x, Loss(e, i, x)) # Terminator
           /\ Terminator \in Token /\ ~FmP!IsHeader(Terminator) /\ Terminator[2] = 0
           /\ x \in -3 .. SampleSize /\ x # 0 /\ e \in Nat
<1>1. x \in -3 .. SampleSize /\ x # 0 /\ e \in Nat
    BY WriterAssumption DEF Sidx
<1>2. Header(e, i) \in Token /\ Record(x, Loss(e, i, x)) \in Token /\ Terminator \in Token
    BY DEF Token
<1>3. /\ FmP!IsHeader(Header(e, i)) /\ ~FmP!IsHeader(Record(x, Loss(e, i, x)))
      /\ ~FmP!IsHeader(Terminator)
    BY DEF FmP!IsHeader, Header, Record, Terminator
<1>4. /\ Header(e, i)[2] = e /\ Header(e, i)[3] = i
      /\ Record(x, Loss(e, i, x))[2] = x /\ Record(x, Loss(e, i, x))[3] = <<e, i, x>>
      /\ Terminator[2] = 0
    BY DEF Header, Record, Loss, Terminator
<1>5. Record(x, Loss(e, i, x)) # Terminator
    BY <1>1, <1>4
<1> QED BY <1>1, <1>2, <1>3, <1>4, <1>5

\* What is said of a stream's losses stays true of a longer one.
LEMMA StillCarries ==
    ASSUME NEW s, FmP!Framed(s, -3), NEW P, Carries(s, P), NEW t, NEW r, Longer(r, s, t)
    PROVE  Keeps(r, s, P)
<1>1. /\ r \in Seq(Token) /\ s \in Seq(Token) /\ FmP!Extends(r, s)
      /\ \A p \in 1 .. Len(s) : r[p] = s[p]
    BY DEF Longer
<1>2. \A p \in 1 .. Len(s) : \A e, i, x : FmP!IsLoss(r, p, e, i, x) <=> FmP!IsLoss(s, p, e, i, x)
    BY <1>1, WriterAssumption, FmP!SameBlocks
<1>3. ASSUME NEW l \in P
      PROVE  \E x \in 1 .. Len(s) : FmP!IsLoss(r, x, l[1], l[2], l[3])
    BY <1>2 DEF Carries
<1>4. ASSUME NEW x \in FmP!Records(s), r[x] # Terminator
      PROVE  r[x][3] \in P /\ FmP!IsLoss(r, x, r[x][3][1], r[x][3][2], r[x][3][3])
    <2>1. x \in 1 .. Len(s) /\ r[x] = s[x]
        BY <1>1 DEF FmP!Records
    <2>2. s[x][3] \in P /\ FmP!IsLoss(s, x, s[x][3][1], s[x][3][2], s[x][3][3])
        BY <1>4, <2>1 DEF Carries
    <2> QED BY <1>2, <2>1, <2>2
<1> QED BY <1>3, <1>4 DEF Keeps

\* Where its last word stands: it begins a block, or belongs to the last one.
LEMMA LastWord ==
    ASSUME NEW s, FmP!Framed(s, -3), NEW t, NEW r, Longer(r, s, t)
    PROVE  /\ FmP!IsHeader(t) =>
                  /\ FmP!Heads(r) = FmP!Heads(s) \cup {Len(r)} /\ FmP!Records(r) = FmP!Records(s)
                  /\ FmP!HeadOf(r, Len(r)) = Len(r)
           /\ ~FmP!IsHeader(t) =>
                  /\ FmP!Heads(r) = FmP!Heads(s) /\ FmP!Records(r) = FmP!Records(s) \cup {Len(r)}
                  /\ s # <<>> => FmP!HeadOf(r, Len(r)) = FmP!HeadOf(s, Len(s))
<1>1. PICK n \in Nat : n = Len(s) /\ Len(r) = n + 1 /\ r[n + 1] = t
    BY DEF Longer
<1>2. r \in Seq(Token) /\ s \in Seq(Token) /\ FmP!Extends(r, s)
    BY DEF Longer
<1>3. s # <<>> => n # 0
    BY <1>1, <1>2
<1>4. FmP!IsHeader(t) =>
          /\ FmP!Heads(r) = FmP!Heads(s) \cup {n + 1} /\ FmP!Records(r) = FmP!Records(s)
          /\ FmP!HeadOf(r, n + 1) = n + 1
    BY <1>1, <1>2, WriterAssumption, FmP!OneWordMore
<1>5. ~FmP!IsHeader(t) =>
          /\ FmP!Heads(r) = FmP!Heads(s) /\ FmP!Records(r) = FmP!Records(s) \cup {n + 1}
          /\ n # 0 => FmP!HeadOf(r, n + 1) = FmP!HeadOf(s, n)
    BY <1>1, <1>2, WriterAssumption, FmP!OneWordMore
<1> QED BY <1>1, <1>3, <1>4, <1>5

\* A stream stays framed with a word that may follow.
LEMMA StillFramed ==
    ASSUME NEW s, FmP!Framed(s, -3), NEW t, NEW r, Longer(r, s, t),
           FmP!IsHeader(t)
               <=> s = <<>> \/ (~FmP!IsHeader(s[Len(s)]) /\ s[Len(s)][2] = 0),
           FmP!IsHeader(t) => \A h \in FmP!Heads(s) : ~(s[h][2] = t[2] /\ s[h][3] = t[3]),
           ~FmP!IsHeader(t) =>
               LET h == FmP!HeadOf(s, Len(s)) IN
               /\ t[2] \in -3 .. SampleSize
               /\ t[2] = -3 => t[3] = <<s[h][2], s[h][3], -3>>
               /\ t[2] >= -1 => t[2] = -3 \/ \E q \in h + 1 .. Len(s) : s[q][2] = -3
               /\ \A q \in h + 1 .. Len(s) : s[q][2] # t[2]
    PROVE  FmP!Framed(r, -3)
<1>1. PICK n \in Nat : n = Len(s) /\ Len(r) = n + 1 /\ t = r[n + 1]
    BY DEF Longer
<1>2. r \in Seq(Token) /\ s \in Seq(Token) /\ FmP!Extends(r, s) /\ SampleSize \in Nat
    BY WriterAssumption DEF Longer
<1>3. s = <<>> <=> n = 0
    BY <1>1, <1>2
<1>4. ~FmP!IsHeader(t) =>
          LET h == FmP!HeadOf(s, n) IN
          /\ t[2] \in -3 .. SampleSize
          /\ t[2] = FmP!tiv_idx => t[3] = FmP!gettiv(s[h][2], s[h][3])
          /\ t[2] >= FmP!mean_idx => t[2] = -3 \/ \E q \in h + 1 .. n : s[q][2] = -3
          /\ \A q \in h + 1 .. n : s[q][2] # t[2]
    BY <1>1 DEF FmP!tiv_idx, FmP!mean_idx, FmP!gettiv
<1>5. FmP!IsHeader(t) <=> n = 0 \/ (~FmP!IsHeader(s[n]) /\ s[n][2] = 0)
    BY <1>1, <1>3
<1>6. FmP!Continues(s, n, t, -3)
    BY <1>1, <1>4, <1>5 DEF FmP!Continues
<1> QED BY <1>1, <1>2, <1>6, FmP!FramedMore

\* A header begins the block of an item that has none.
LEMMA AddHeader ==
    ASSUME NEW s, NEW P, NEW B \in SUBSET (Events \X Items), Core(s, P, B),
           NEW e \in Events, NEW i \in Items, <<e, i>> \notin B, \A b \in B : b[1] <= e,
           s = <<>> \/ s[Len(s)] = Terminator,
           NEW r, r = With(s, Header(e, i))
    PROVE  Core(r, P, B \cup {<<e, i>>}) /\ LastBlock(r, e, i, -4)
<1>1. PICK x : x \in Sidx
    BY WriterAssumption DEF Sidx
<1>2. PICK t : t = Header(e, i)
    OBVIOUS
<1>3. /\ t \in Token /\ FmP!IsHeader(t) /\ t[2] = e /\ t[3] = i /\ e \in Nat
      /\ ~FmP!IsHeader(Terminator) /\ Terminator[2] = 0 /\ SampleSize \in Nat
    BY <1>1, <1>2, Kinds, WriterAssumption
<1>4. s \in Seq(Token) /\ FmP!Framed(s, -3) /\ Begins(s, B) /\ Carries(s, P) /\ P \subseteq Losses
    BY DEF Core
<1>5. Longer(r, s, t)
    BY <1>2, <1>3, <1>4, Words
<1>6. PICK n : n = Len(s)
    OBVIOUS
<1>7. /\ n \in Nat /\ Len(r) = n + 1 /\ r[n + 1] = t /\ r \in Seq(Token)
      /\ FmP!Extends(r, s) /\ \A p \in 1 .. n : r[p] = s[p]
    BY <1>5, <1>6 DEF Longer
<1>8. \A h \in FmP!Heads(s) : h \in 1 .. n /\ r[h] = s[h]
    BY <1>6, <1>7 DEF FmP!Heads
<1>9. FmP!Framed(r, -3)
    <2>1. s = <<>> \/ (~FmP!IsHeader(s[Len(s)]) /\ s[Len(s)][2] = 0)
        BY <1>3
    <2>2. \A h \in FmP!Heads(s) : ~(s[h][2] = t[2] /\ s[h][3] = t[3])
        BY <1>3, <1>4 DEF Begins
    <2> QED BY <1>3, <1>4, <1>5, <2>1, <2>2, StillFramed
<1>10. /\ FmP!Heads(r) = FmP!Heads(s) \cup {n + 1} /\ FmP!Records(r) = FmP!Records(s)
       /\ FmP!HeadOf(r, n + 1) = n + 1
    BY <1>3, <1>4, <1>5, <1>7, LastWord
<1>11. Begins(r, B \cup {<<e, i>>})
    <2>1. \A h \in FmP!Heads(s) : <<s[h][2], s[h][3]>> \in B
        BY <1>4 DEF Begins
    <2>2. \A h \in FmP!Heads(s) : s[h][2] <= e
        <3>1. \A a, c : <<a, c>> \in B => a <= e
            OBVIOUS
        <3> QED BY <2>1, <3>1, Zenon
    <2>3. \A h, k \in FmP!Heads(s) : h < k => s[h][2] <= s[k][2]
        BY <1>4 DEF Begins
    <2>4. r[n + 1][2] = e /\ r[n + 1][3] = i
        BY <1>3, <1>7
    <2>5. ASSUME NEW h \in FmP!Heads(r), NEW k \in FmP!Heads(r), h < k
          PROVE  r[h][2] <= r[k][2]
        <3>1. h \in FmP!Heads(s)
            BY <1>7, <1>8, <1>10, <2>5
        <3>2. CASE k \in FmP!Heads(s)
            <4>1. s[h][2] <= s[k][2]
                BY <2>3, <2>5, <3>1, <3>2
            <4> QED BY <1>8, <3>1, <3>2, <4>1
        <3>3. CASE k = n + 1
            BY <1>8, <2>2, <2>4, <3>1, <3>3
        <3> QED BY <1>10, <3>2, <3>3
    <2>6. ASSUME NEW h \in FmP!Heads(r)
          PROVE  <<r[h][2], r[h][3]>> \in B \cup {<<e, i>>}
        <3>1. CASE h \in FmP!Heads(s)
            BY <1>8, <2>1, <3>1
        <3>2. CASE h = n + 1
            BY <2>4, <3>2
        <3> QED BY <1>10, <3>1, <3>2
    <2> QED BY <2>5, <2>6 DEF Begins
<1>12. Carries(r, P)
    <2>1. Keeps(r, s, P)
        BY <1>4, <1>5, StillCarries
    <2>2. 1 .. Len(s) \subseteq 1 .. Len(r)
        BY <1>6, <1>7
    <2> QED BY <1>10, <2>1, <2>2 DEF Carries, Keeps
<1>13. LastBlock(r, e, i, -4)
    <2>1. r # <<>> /\ FmP!HeadOf(r, Len(r)) = n + 1 /\ (n + 1) + 1 .. Len(r) = {}
        BY <1>7, <1>10
    <2>2. r[n + 1][2] = e /\ r[n + 1][3] = i
        BY <1>3, <1>7
    <2> QED BY <2>1, <2>2 DEF LastBlock
<1> QED BY <1>4, <1>7, <1>9, <1>11, <1>12, <1>13 DEF Core

\* A word that belongs to the last block.
LEMMA AddWord ==
    ASSUME NEW s, NEW P, NEW B, Core(s, P, B), NEW e, NEW i, NEW y, LastBlock(s, e, i, y),
           NEW t \in Token, ~FmP!IsHeader(t), t[2] \in -3 .. SampleSize,
           t[2] = -3 \/ HasOpened(s), t[2] = -3 => t[3] = <<e, i, -3>>,
           \A q \in FmP!HeadOf(s, Len(s)) + 1 .. Len(s) : s[q][2] # t[2],
           NEW r, r = With(s, t)
    PROVE  /\ Longer(r, s, t) /\ FmP!Framed(r, -3) /\ Begins(r, B) /\ Keeps(r, s, P)
           /\ FmP!Records(r) = FmP!Records(s) \cup {Len(r)}
           /\ FmP!HeadOf(r, Len(r)) = FmP!HeadOf(s, Len(s))
           /\ FmP!HeadOf(s, Len(s)) \in 1 .. Len(s)
<1>1. s \in Seq(Token) /\ FmP!Framed(s, -3) /\ Begins(s, B) /\ Carries(s, P)
    BY DEF Core
<1>2. Longer(r, s, t)
    BY <1>1, Words
<1>3. PICK h : h = FmP!HeadOf(s, Len(s))
    OBVIOUS
<1>4. /\ s # <<>> /\ s[h][2] = e /\ s[h][3] = i
      /\ \A q \in h + 1 .. Len(s) : s[q][2] \in Sidx /\ s[q][2] # t[2]
    BY <1>3 DEF LastBlock
<1>5. Len(s) \in 1 .. Len(s) /\ Len(s) \in Nat
    BY <1>1, <1>4
<1>6. h \in FmP!Heads(s) /\ h \in 1 .. Len(s)
    BY <1>1, <1>3, <1>5, WriterAssumption, FmP!Heading
<1>7. FmP!IsHeader(s[Len(s)]) \/ s[Len(s)][2] # 0
    <2>1. CASE h = Len(s)
        BY <1>6, <2>1 DEF FmP!Heads
    <2>2. CASE h # Len(s)
        <3>1. Len(s) \in h + 1 .. Len(s)
            BY <1>5, <1>6, <2>2
        <3>2. 0 \notin Sidx
            BY WriterAssumption DEF Sidx
        <3> QED BY <1>4, <3>1, <3>2
    <2> QED BY <2>1, <2>2
<1>8. t[2] = -3 \/ \E q \in h + 1 .. Len(s) : s[q][2] = -3
    BY <1>3 DEF HasOpened
<1>9. FmP!Framed(r, -3)
    BY <1>1, <1>2, <1>3, <1>4, <1>7, <1>8, StillFramed
<1>10. /\ FmP!Heads(r) = FmP!Heads(s) /\ FmP!Records(r) = FmP!Records(s) \cup {Len(r)}
       /\ FmP!HeadOf(r, Len(r)) = h
    BY <1>1, <1>2, <1>3, <1>4, LastWord
<1>11. Begins(r, B)
    <2>1. \A k \in FmP!Heads(s) : r[k] = s[k]
        BY <1>2 DEF Longer, FmP!Heads
    <2> QED BY <1>1, <1>10, <2>1 DEF Begins
<1>12. Keeps(r, s, P)
    BY <1>1, <1>2, StillCarries
<1> QED BY <1>2, <1>3, <1>6, <1>9, <1>10, <1>11, <1>12

\* A terminator ends the last block and changes no loss.
LEMMA AddEnd ==
    ASSUME NEW s, NEW P, NEW B, Core(s, P, B), NEW e, NEW i, NEW y, LastBlock(s, e, i, y),
           HasOpened(s), NEW r, r = With(s, Terminator)
    PROVE  Core(r, P, B) /\ r # <<>> /\ r[Len(r)] = Terminator
<1>1. PICK t : t = Terminator
    OBVIOUS
<1>2. t \in Token /\ ~FmP!IsHeader(t) /\ t[2] = 0 /\ 0 \in -3 .. SampleSize
    BY <1>1, WriterAssumption DEF Token, FmP!IsHeader, Terminator, Record
<1>3. \A q \in FmP!HeadOf(s, Len(s)) + 1 .. Len(s) : s[q][2] # 0
    <2>1. 0 \notin Sidx
        BY WriterAssumption DEF Sidx
    <2> QED BY <2>1 DEF LastBlock
<1>4. /\ Longer(r, s, t) /\ FmP!Framed(r, -3) /\ Begins(r, B) /\ Keeps(r, s, P)
      /\ FmP!Records(r) = FmP!Records(s) \cup {Len(r)}
    BY <1>1, <1>2, <1>3, AddWord
<1>5. r \in Seq(Token) /\ Len(s) \in Nat /\ Len(r) = Len(s) + 1 /\ r[Len(r)] = t
    BY <1>4 DEF Longer
<1>6. Carries(r, P)
    <2>1. 1 .. Len(s) \subseteq 1 .. Len(r)
        BY <1>5
    <2> QED BY <1>1, <1>4, <1>5, <2>1 DEF Carries, Keeps
<1>7. r # <<>>
    BY <1>5
<1> QED BY <1>1, <1>4, <1>5, <1>6, <1>7 DEF Core

\* A record adds its loss to the last block.
LEMMA AddRecord ==
    ASSUME NEW s, NEW P, NEW B, Core(s, P, B),
           NEW e \in Events, NEW i \in Items, NEW x \in Sidx,
           NEW y \in Int, LastBlock(s, e, i, y), y < x, x = -3 \/ HasOpened(s),
           NEW r, r = With(s, Record(x, Loss(e, i, x)))
    PROVE  Core(r, P \cup {<<e, i, x>>}, B) /\ LastBlock(r, e, i, x) /\ HasOpened(r)
<1>1. PICK t : t = Record(x, Loss(e, i, x))
    OBVIOUS
<1>2. /\ t \in Token /\ ~FmP!IsHeader(t) /\ t[2] = x /\ t[3] = <<e, i, x>> /\ t # Terminator
      /\ x \in -3 .. SampleSize
    BY <1>1, Kinds
<1>3. PICK h : h = FmP!HeadOf(s, Len(s))
    OBVIOUS
<1>4. /\ s # <<>> /\ s[h][2] = e /\ s[h][3] = i
      /\ \A q \in h + 1 .. Len(s) : s[q][2] \in Sidx /\ s[q][2] <= y
    BY <1>3 DEF LastBlock
<1>5. \A z \in Sidx : z \in Int
    BY WriterAssumption DEF Sidx
<1>6. \A q \in h + 1 .. Len(s) : s[q][2] # x /\ s[q][2] <= x
    BY <1>4, <1>5
<1>7. /\ Longer(r, s, t) /\ FmP!Framed(r, -3) /\ Begins(r, B) /\ Keeps(r, s, P)
      /\ FmP!Records(r) = FmP!Records(s) \cup {Len(r)}
      /\ FmP!HeadOf(r, Len(r)) = h /\ h \in 1 .. Len(s)
    BY <1>1, <1>2, <1>3, <1>6, AddWord
<1>8. PICK n \in Nat : /\ n = Len(s) /\ Len(r) = n + 1 /\ r[n + 1] = t /\ r \in Seq(Token)
                       /\ \A p \in 1 .. n : r[p] = s[p]
    BY <1>7 DEF Longer
<1>9. h \in 1 .. n /\ r[h] = s[h]
    BY <1>7, <1>8
<1>10. FmP!IsLoss(r, n + 1, e, i, x)
    BY <1>2, <1>4, <1>7, <1>8, <1>9 DEF FmP!IsLoss
<1>11. Carries(r, P \cup {<<e, i, x>>})
    <2>1. ASSUME NEW l \in P \cup {<<e, i, x>>}
          PROVE  \E p \in 1 .. Len(r) : FmP!IsLoss(r, p, l[1], l[2], l[3])
        <3>1. CASE l \in P
            BY <1>7, <1>8, <3>1 DEF Keeps
        <3>2. CASE l = <<e, i, x>>
            BY <1>8, <1>10, <3>2
        <3> QED BY <3>1, <3>2
    <2>2. ASSUME NEW p \in FmP!Records(r), r[p] # Terminator
          PROVE  /\ r[p][3] \in P \cup {<<e, i, x>>}
                 /\ FmP!IsLoss(r, p, r[p][3][1], r[p][3][2], r[p][3][3])
        <3>1. CASE p \in FmP!Records(s)
            BY <1>7, <2>2, <3>1 DEF Keeps
        <3>2. CASE p = n + 1
            <4>1. PICK l : l = <<e, i, x>>
                OBVIOUS
            <4>2. r[p][3] = l /\ l[1] = e /\ l[2] = i /\ l[3] = x /\ l \in P \cup {l}
                BY <1>2, <1>8, <3>2, <4>1
            <4> QED BY <1>10, <3>2, <4>1, <4>2
        <3> QED BY <1>7, <1>8, <3>1, <3>2
    <2> QED BY <2>1, <2>2 DEF Carries
<1>12. ASSUME NEW q \in h + 1 .. n + 1
       PROVE  r[q][2] \in Sidx /\ r[q][2] <= x
    <2>1. CASE q = n + 1
        BY <1>2, <1>8, <2>1
    <2>2. CASE q # n + 1
        <3>1. q \in h + 1 .. n /\ r[q] = s[q]
            BY <1>8, <1>9, <2>2
        <3> QED BY <1>4, <1>6, <1>8, <3>1
    <2> QED BY <2>1, <2>2
<1>13. LastBlock(r, e, i, x)
    <2>1. r # <<>> /\ r[h][2] = e /\ r[h][3] = i
        BY <1>4, <1>8, <1>9
    <2> QED BY <1>7, <1>8, <1>12, <2>1 DEF LastBlock
<1>14. HasOpened(r)
    <2>1. CASE x = -3
        <3>1. n + 1 \in h + 1 .. n + 1 /\ r[n + 1][2] = -3
            BY <1>2, <1>8, <1>9, <2>1
        <3> QED BY <1>7, <1>8, <3>1 DEF HasOpened
    <2>2. CASE HasOpened(s)
        <3>1. PICK q \in h + 1 .. n : s[q][2] = -3
            BY <1>3, <1>8, <2>2 DEF HasOpened
        <3>2. q \in h + 1 .. n + 1 /\ r[q] = s[q]
            BY <1>8, <1>9
        <3> QED BY <1>7, <1>8, <3>1, <3>2 DEF HasOpened
    <2> QED BY <2>1, <2>2
<1>15. P \cup {<<e, i, x>>} \subseteq Losses
    BY DEF Core, Losses
<1> QED BY <1>7, <1>8, <1>11, <1>13, <1>14, <1>15 DEF Core

-----------------------------------------------------------------------------
(* What the writer knows of its stream.                                     *)
LEMMA FirstOfLead ==
    ASSUME WInv
    PROVE  Min(Lead) = -3
<1>1. -3 \in Lead /\ \A y \in Lead : y \in Int /\ -3 <= y
    BY WriterAssumption DEF WInv, ExposureFirst
<1>2. Min(Lead) \in Lead /\ \A y \in Lead : Min(Lead) <= y
    BY <1>1 DEF Min
<1> QED BY <1>1, <1>2

\* The event and the sample of a loss are numbers.
LEMMA OfLoss ==
    ASSUME NEW l \in Losses
    PROVE  l[1] \in Nat /\ l[3] \in Int
<1>1. l[1] \in Events /\ l[3] \in Sidx
    BY DEF Losses
<1>2. (\A e \in Events : e \in Nat) /\ \A x \in Sidx : x \in Int
    BY WriterAssumption DEF Sidx
<1> QED BY <1>1, <1>2, Zenon

\* The losses and blocks of a history of losses.
LEMMA OneMoreLoss ==
    ASSUME put \in Seq(Losses), NEW e \in Events, NEW i \in Items, NEW x \in Sidx,
           put' = Append(put, <<e, i, x>>)
    PROVE  /\ put' \in Seq(Losses) /\ put' # <<>> /\ put'[Len(put')] = <<e, i, x>>
           /\ Produced' = Produced \cup {<<e, i, x>>}
           /\ Begun' = Begun \cup {<<e, i>>}
           /\ Begun \in SUBSET (Events \X Items)
           /\ put = <<>> => Begun = {}
<1> DEFINE l == <<e, i, x>>
<1>1. l \in Losses /\ l[1] = e /\ l[2] = i
    BY DEF Losses
<1> HIDE DEF l
<1>2. PICK n \in Nat : n = Len(put)
    OBVIOUS
<1>3. /\ put' \in Seq(Losses) /\ Len(put') = n + 1 /\ put'[n + 1] = l
      /\ \A m \in 1 .. n : put'[m] = put[m]
    BY <1>1, <1>2 DEF l
<1>4. \A m : m \in 1 .. n + 1 <=> m \in 1 .. n \/ m = n + 1
    BY <1>2
<1>5. Produced' = Produced \cup {l}
    <2>1. Produced' = {put'[m] : m \in 1 .. n + 1} /\ Produced = {put[m] : m \in 1 .. n}
        BY <1>2, <1>3 DEF Produced
    <2> QED BY <1>3, <1>4, <2>1
<1>6. Begun' = Begun \cup {<<e, i>>}
    <2>1. /\ Begun' = {<<put'[m][1], put'[m][2]>> : m \in 1 .. n + 1}
          /\ Begun = {<<put[m][1], put[m][2]>> : m \in 1 .. n}
        BY <1>2, <1>3 DEF Begun
    <2> QED BY <1>1, <1>3, <1>4, <2>1
<1>7. Begun \in SUBSET (Events \X Items)
    <2>1. \A m \in 1 .. n : put[m] \in Losses
        BY <1>2
    <2> QED BY <1>2, <2>1 DEF Begun, Losses
<1>8. put' # <<>> /\ (put = <<>> => Begun = {})
    BY <1>2, <1>3 DEF Begun
<1> QED BY <1>3, <1>5, <1>6, <1>7, <1>8 DEF l

\* A stream with the block and the record that a call adds.
LEMMA CallAdds ==
    ASSUME IInv, WInv, open, NEW e \in Events, NEW i \in Items, NEW x \in Sidx,
           Follows(e, i, x), NEW r, r = WithCall(Stream, e, i, x),
           NEW P, P = Produced, NEW B \in SUBSET (Events \X Items), B = Begun
    PROVE  /\ Core(r, P \cup {<<e, i, x>>}, B \cup {<<e, i>>})
           /\ LastBlock(r, e, i, x) /\ HasOpened(r)
           /\ \A b \in B \cup {<<e, i>>} : b[1] <= e
<1> DEFINE h == Header(e, i)
           w == Record(x, Loss(e, i, x))
<1>1. PICK s : s = Stream
    OBVIOUS
<1>2. /\ s \in Seq(Token) /\ isFirst \in BOOLEAN /\ (isFirst <=> lastheader = <<0, 0>>)
      /\ (isFirst <=> s = <<>>) /\ <<e, i>> # <<0, 0>> /\ e \in Nat
    BY <1>1, WriterAssumption DEF IInv, Blocks, WInv, Core
<1>3. /\ <<e, i>> = lastheader => r = With(s, w)
      /\ <<e, i>> # lastheader /\ isFirst => r = With(With(s, h), w)
      /\ <<e, i>> # lastheader /\ ~isFirst => r = With(With(With(s, Terminator), h), w)
    BY <1>1, <1>2, AddedWords
<1>4. Core(s, P, B) /\ put \in Seq(Losses)
    BY <1>1 DEF WInv
<1>5. x \in Int /\ -4 < x /\ -4 \in Int
    BY WriterAssumption DEF Sidx
<1> HIDE DEF h, w
\* A new block begins with the exposure.
<1>6. ASSUME NEW s1, Core(s1, P, B), s1 = <<>> \/ s1[Len(s1)] = Terminator,
             <<e, i>> \notin B, \A b \in B : b[1] <= e, x = -3, r = With(With(s1, h), w)
      PROVE  /\ Core(r, P \cup {<<e, i, x>>}, B \cup {<<e, i>>})
             /\ LastBlock(r, e, i, x) /\ HasOpened(r)
    <2>1. PICK s2 : s2 = With(s1, h)
        OBVIOUS
    <2>2. PICK B2 : B2 = B \cup {<<e, i>>}
        OBVIOUS
    <2>3. Core(s2, P, B2) /\ LastBlock(s2, e, i, -4)
        BY <1>6, <2>1, <2>2, AddHeader DEF h
    <2>4. r = With(s2, w) /\ x = -3
        BY <1>6, <2>1
    <2>5. Core(r, P \cup {<<e, i, x>>}, B2) /\ LastBlock(r, e, i, x) /\ HasOpened(r)
        BY <1>5, <2>3, <2>4, AddRecord DEF w
    <2> QED BY <2>2, <2>5
<1>7. CASE put = <<>>
    <2>1. x = -3 /\ s = <<>> /\ lastheader = <<0, 0>> /\ B = {}
        BY <1>1, <1>7, FirstOfLead DEF Follows, WInv, Begun
    <2>2. r = With(With(s, h), w)
        BY <1>2, <1>3, <2>1
    <2>3. \A b \in B \cup {<<e, i>>} : b[1] <= e
        BY <1>2, <2>1
    <2> QED BY <1>4, <1>6, <2>1, <2>2, <2>3
<1>8. CASE put # <<>>
    <2>1. PICK l : l = put[Len(put)]
        OBVIOUS
    <2>2. l \in Losses /\ l = Last(put)
        <3>1. put[Len(put)] \in Losses
            BY <1>4, <1>8
        <3> QED BY <2>1, <3>1 DEF Last
    <2>3. l[1] \in Nat /\ l[3] \in Int
        BY <2>2, OfLoss
    <2>4. lastheader = <<l[1], l[2]>> /\ Ends(s, l, B)
        BY <1>1, <1>8, <2>1 DEF WInv
    <2>5. LastBlock(s, l[1], l[2], l[3]) /\ HasOpened(s) /\ \A b \in B : b[1] <= l[1]
        BY <2>4 DEF Ends
    <2>6. \/ e = l[1] /\ i = l[2] /\ l[3] < x
          \/ x = -3 /\ l[1] <= e /\ <<e, i>> \notin B
        BY <1>5, <1>8, <2>2, <2>3, FirstOfLead DEF Follows, Begun
    <2>7. \A b \in B : b[1] \in Nat
        BY WriterAssumption
    <2>8. \A b \in B \cup {<<e, i>>} : b[1] <= e
        BY <1>2, <2>3, <2>5, <2>6, <2>7
    <2>9. lastheader \in B
        <3>1. Len(put) \in 1 .. Len(put)
            BY <1>4, <1>8
        <3> QED BY <2>1, <2>4, <3>1 DEF Begun
    <2>10. CASE e = l[1] /\ i = l[2] /\ l[3] < x
        <3>1. r = With(s, w) /\ B \cup {<<e, i>>} = B
            BY <1>3, <2>4, <2>9, <2>10
        <3>2. /\ Core(r, P \cup {<<e, i, x>>}, B) /\ LastBlock(r, e, i, x) /\ HasOpened(r)
            <4>1. LastBlock(s, e, i, l[3]) /\ HasOpened(s) /\ l[3] < x /\ l[3] \in Int
                BY <2>3, <2>5, <2>10
            <4>2. r = With(s, Record(x, Loss(e, i, x))) /\ Core(s, P, B)
                BY <1>4, <3>1 DEF w
            <4> QED BY <4>1, <4>2, AddRecord
        <3> QED BY <2>8, <3>1, <3>2
    <2>11. CASE x = -3 /\ l[1] <= e /\ <<e, i>> \notin B
        <3>1. <<e, i>> # lastheader /\ ~isFirst
            <4>1. s # <<>>
                BY <2>5 DEF LastBlock
            <4>2. ~isFirst
                BY <1>2, <4>1
            <4> QED BY <2>9, <2>11, <4>2
        <3>2. PICK s1 : s1 = With(s, Terminator)
            OBVIOUS
        <3>3. r = With(With(s1, h), w)
            BY <1>3, <3>1, <3>2
        <3>4. Core(s1, P, B) /\ s1[Len(s1)] = Terminator
            BY <1>4, <2>5, <3>2, AddEnd
        <3>5. \A b \in B : b[1] <= e
            BY <2>8
        <3> QED BY <1>6, <2>8, <2>11, <3>3, <3>4, <3>5
    <2> QED BY <2>6, <2>10, <2>11
<1> QED BY <1>7, <1>8

\* A call of itemoutputgul keeps WInv.
LEMMA WriterPut ==
    ASSUME IInv, WInv, open, NEW e \in Events, NEW i \in Items, NEW x \in Sidx,
           Follows(e, i, x), itemoutputgul(e, i, x)
    PROVE  WInv'
<1>1. Stream' = WithCall(Stream, e, i, x)
    BY StreamAdded
<1>2. put' = Append(put, <<e, i, x>>) /\ lastheader' = <<e, i>>
    BY DEF itemoutputgul
<1>3. PICK l : l = <<e, i, x>>
    OBVIOUS
<1>4. l[1] = e /\ l[2] = i /\ l[3] = x
    BY <1>3
<1>5. /\ put' \in Seq(Losses) /\ put' # <<>> /\ put'[Len(put')] = l
      /\ Produced' = Produced \cup {l} /\ Begun' = Begun \cup {<<e, i>>}
      /\ Begun \in SUBSET (Events \X Items)
    BY <1>2, <1>3, OneMoreLoss DEF WInv
<1>6. /\ Core(Stream', Produced', Begun')
      /\ LastBlock(Stream', e, i, x) /\ HasOpened(Stream')
      /\ \A b \in Begun' : b[1] <= e
    BY <1>1, <1>3, <1>5, CallAdds
<1>7. Ends(Stream', l, Begun')
    BY <1>4, <1>6 DEF Ends
<1> QED BY <1>2, <1>4, <1>5, <1>6, <1>7 DEF WInv

\* WInv depends on the stream and on what was put into it.
LEMMA WriterSame ==
    ASSUME WInv, Stream' = Stream, UNCHANGED <<put, lastheader>>
    PROVE  WInv'
<1>1. Produced' = Produced /\ Begun' = Begun
    BY DEF Produced, Begun
<1> QED BY <1>1 DEF WInv

-----------------------------------------------------------------------------
(* The part of the stream that has been written out.                        *)
LEMMA Longest ==
    ASSUME NEW a \in Seq(Token), NEW b \in Seq(Token)
    PROVE  a \o b \in Seq(Token) /\ FmP!Extends(a \o b, a) /\ FmP!Extends(a, a)
<1> DEFINE c == a \o b
<1>1. /\ c \in Seq(Token) /\ Len(a) \in Nat /\ Len(a) <= Len(c)
      /\ \A p \in 1 .. Len(a) : c[p] = a[p]
    BY ConcatProperties
<1> HIDE DEF c
<1>2. FmP!Extends(c, a) /\ FmP!Extends(a, a)
    BY <1>1 DEF FmP!Extends
<1> QED BY <1>1, <1>2 DEF c

\* A step of the writer only adds to what was written and to the stream.
LEMMA WrittenOut ==
    ASSUME IInv, WriterNext
    PROVE  /\ written' \in Seq(Token) /\ FmP!Extends(written', written)
           /\ Stream' \in Seq(Token) /\ FmP!Extends(Stream', written')
<1>1. written \in Seq(Token) /\ buf \in Seq(Token)
    BY DEF IInv, Blocks
<1>2. IInv'
    BY StepHolds
<1>3. written' \in Seq(Token) /\ buf' \in Seq(Token)
    BY <1>2 DEF IInv, Blocks, Token
<1>4. written' = written \/ written' = written \o buf
    BY DEF WriterNext, Put, FinalWrite, itemoutputgul
<1>5. Stream' = written' \/ Stream' = written' \o buf'
    BY DEF Stream
<1>6. FmP!Extends(written', written)
    BY <1>1, <1>4, Longest
<1>7. Stream' \in Seq(Token) /\ FmP!Extends(Stream', written')
    BY <1>3, <1>5, Longest
<1> QED BY <1>3, <1>6, <1>7

\* A beginning of a stream of gulcalc is one that fmcalc can read.
LEMMA Readable ==
    ASSUME NEW s, NEW P, NEW B \in SUBSET (Events \X Items), Core(s, P, B),
           NEW w \in Seq(Token), FmP!Extends(s, w)
    PROVE  /\ w \in Seq(FmP!Range(w)) /\ FmP!Grouped(w) /\ FmP!Framed(w, -3)
<1>1. s \in Seq(Token) /\ FmP!Framed(s, -3) /\ Begins(s, B) /\ SampleSize \in Nat
    BY WriterAssumption DEF Core
<1>2. w \in Seq(FmP!Range(w))
    BY WriterAssumption, FmP!OwnRange
<1>3. FmP!Framed(w, -3)
    BY <1>1, FmP!FramedBefore
<1>4. \A h \in FmP!Heads(w) : h \in FmP!Heads(s) /\ s[h] = w[h] /\ h \in Nat
    <2>1. FmP!Heads(w) = {p \in FmP!Heads(s) : p <= Len(w)}
        BY <1>1, FmP!SameBlocks
    <2>2. \A h \in FmP!Heads(w) : h \in 1 .. Len(w)
        BY DEF FmP!Heads
    <2> QED BY <2>1, <2>2 DEF FmP!Extends
<1>5. \A h \in FmP!Heads(w) : w[h][2] \in Nat
    <2>1. \A a, c : <<a, c>> \in B => a \in Nat
        BY WriterAssumption
    <2>2. \A h \in FmP!Heads(s) : <<s[h][2], s[h][3]>> \in B
        BY <1>1 DEF Begins
    <2>3. \A h \in FmP!Heads(s) : s[h][2] \in Nat
        BY <2>1, <2>2, Zenon
    <2> QED BY <1>4, <2>3
<1>6. \A h, k \in FmP!Heads(w) : h < k => w[h][2] <= w[k][2]
    <2>1. \A h, k \in FmP!Heads(s) : h < k => s[h][2] <= s[k][2]
        BY <1>1 DEF Begins
    <2> QED BY <1>4, <2>1
<1>7. FmP!Grouped(w)
    <2>1. ASSUME NEW p \in FmP!Heads(w), NEW q \in FmP!Heads(w), NEW r \in FmP!Heads(w),
                 p < q, q < r, w[p][2] = w[r][2]
          PROVE  w[q][2] = w[p][2]
        BY <1>5, <1>6, <2>1
    <2> QED BY <1>5, <2>1 DEF FmP!Grouped
<1> QED BY <1>2, <1>3, <1>7

-----------------------------------------------------------------------------
(* The steps of the two processes.                                          *)
LEMMA SameReader ==
    /\ Fm!ReaderInit => FmP!ReaderInit
    /\ Fm!ReadHeader => FmP!ReadHeader
    /\ Fm!EndAtHeader => FmP!EndAtHeader
    /\ Fm!EndAtRecord => FmP!EndAtRecord
    /\ Fm!ReadRecord => FmP!ReadRecord
<1>1. Fm!ReaderInit => FmP!ReaderInit
    BY DEF Fm!ReaderInit, FmP!ReaderInit, Fm!Row, FmP!Row
<1> USE DEF Fm!Row, FmP!Row, Fm!dofm, FmP!dofm, Fm!NextRecord, FmP!NextRecord,
    Fm!Available, FmP!Available, Fm!EndOfFile, FmP!EndOfFile, Fm!IsHeader, FmP!IsHeader
<1>2. Fm!ReadHeader => FmP!ReadHeader
    BY Zenon DEF Fm!ReadHeader, FmP!ReadHeader
<1>3. Fm!EndAtHeader => FmP!EndAtHeader
    BY Zenon DEF Fm!EndAtHeader, FmP!EndAtHeader
<1>4. Fm!EndAtRecord => FmP!EndAtRecord
    BY Zenon DEF Fm!EndAtRecord, FmP!EndAtRecord
<1>5. Fm!ReadRecord => FmP!ReadRecord
    BY Zenon DEF Fm!ReadRecord, FmP!ReadRecord, Fm!OpensItem, FmP!OpensItem,
       Fm!Resized, FmP!Resized, Fm!gettiv, FmP!gettiv, Fm!Put, FmP!Put, Fm!EndsBlock,
       FmP!EndsBlock, Fm!RowOf, FmP!RowOf, Fm!mean_idx, FmP!mean_idx, Fm!tiv_idx, FmP!tiv_idx,
       Fm!NoLoss, FmP!NoLoss
<1> QED BY <1>1, <1>2, <1>3, <1>4, <1>5

\* Without a step of the writer, its stream stays as it is.
LEMMA StreamHoldsStill == UNCHANGED wvars => UNCHANGED <<Stream, put, lastheader>>
BY DEF wvars, Stream

\* A step of fmcalc keeps CInv.
LEMMA ReaderStep ==
    ASSUME CInv, FmReads
    PROVE  CInv'
<1>1. UNCHANGED wvars /\ UNCHANGED <<written, open>>
    BY DEF FmReads, wvars
<1>2. IInv' /\ WInv'
    <2>1. UNCHANGED <<Stream, put, lastheader>>
        BY <1>1, StreamHoldsStill
    <2> QED BY <1>1, <2>1, StepHolds, WriterSame DEF CInv
<1>3. UNCHANGED <<written, ~open, FALSE>>
    BY <1>1
<1>4. \/ FmP!ReadHeader
      \/ FmP!EndAtHeader \/ FmP!EndAtRecord
      \/ FmP!ReadRecord
    BY SameReader DEF FmReads, Fm!ReaderNext
<1>5. FmP!IInv'
    BY <1>3, <1>4, WriterAssumption, FmP!ReadHeaderStep, FmP!EndStep, FmP!ReadRecordStep DEF CInv
<1>6. FmP!MatrixInv'
    BY <1>3, <1>4, WriterAssumption, FmP!MatrixHeader, FmP!MatrixEnd, FmP!MatrixRecord DEF CInv
<1>7. pc' = "done" => ~open'
    <2>1. pc' = "done" => FmP!EndOfFile
        BY <1>4 DEF FmP!ReadHeader, FmP!EndAtHeader, FmP!EndAtRecord, FmP!ReadRecord
    <2> QED BY <1>1, <2>1 DEF FmP!EndOfFile
<1> QED BY <1>2, <1>5, <1>6, <1>7 DEF CInv

\* A step of gulcalc keeps CInv.
LEMMA WriterStep ==
    ASSUME CInv, Gul
    PROVE  CInv'
<1>1. WriterNext /\ UNCHANGED readervars /\ open
    BY DEF Gul, WriterNext, Put, FinalWrite
<1>2. IInv'
    BY <1>1, StepHolds DEF CInv
<1>3. WInv'
    <2>1. CASE Put
        BY <1>1, <2>1, WriterPut DEF CInv, Put
    <2>2. CASE FinalWrite
        <3>1. Stream' = Stream /\ UNCHANGED <<put, lastheader>>
            BY <2>2 DEF FinalWrite, Stream
        <3> QED BY <3>1, WriterSame DEF CInv
    <2> QED BY <1>1, <2>1, <2>2 DEF WriterNext
<1>4. /\ written' \in Seq(Token) /\ FmP!Extends(written', written)
      /\ Stream' \in Seq(Token) /\ FmP!Extends(Stream', written')
    BY <1>1, WrittenOut DEF CInv
<1>5. Core(Stream', Produced', Begun') /\ Begun' \in SUBSET (Events \X Items)
    <2>1. Core(Stream', Produced', Begun') /\ put' \in Seq(Losses)
        BY <1>3 DEF WInv, Losses
    <2>2. \A n \in 1 .. Len(put') : put'[n] \in Losses
        BY <2>1
    <2>3. \A l \in Losses : <<l[1], l[2]>> \in Events \X Items
        BY DEF Losses
    <2>4. Begun' = {<<put'[n][1], put'[n][2]>> : n \in 1 .. Len(put')}
        BY DEF Begun
    <2> QED BY <2>1, <2>2, <2>3, <2>4
<1>6. /\ written' \in Seq(FmP!Range(written')) /\ FmP!Grouped(written')
      /\ FmP!Framed(written', FmP!Opening)
    <2>1. FmP!Opening = -3
        BY DEF FmP!Opening, FmP!tiv_idx
    <2> QED BY <1>4, <1>5, <2>1, Readable
<1>7. pc # "done"
    BY <1>1 DEF CInv
<1>8. UNCHANGED FmP!rvars /\ FALSE' = FALSE
    BY <1>1 DEF readervars, FmP!rvars
<1>9. FmP!IInv' /\ FmP!MatrixInv'
    BY <1>4, <1>6, <1>7, <1>8, WriterAssumption, FmP!StreamGrows DEF CInv
<1>10. pc' # "done"
    BY <1>1, <1>7 DEF readervars
<1> QED BY <1>2, <1>3, <1>9, <1>10 DEF CInv

\* A step of neither keeps CInv.
LEMMA BothStill ==
    ASSUME CInv, UNCHANGED vars
    PROVE  CInv'
<1>1. UNCHANGED wvars /\ UNCHANGED <<written, open, pc>>
    BY DEF vars, wvars, readervars
<1>2. IInv' /\ WInv'
    <2>1. UNCHANGED <<Stream, put, lastheader>>
        BY <1>1, StreamHoldsStill
    <2> QED BY <1>1, <2>1, StepHolds, WriterSame DEF CInv
<1>3. UNCHANGED FmP!svars
    BY DEF vars, wvars, readervars, FmP!svars, FmP!rvars
<1>4. FmP!IInv' /\ FmP!MatrixInv'
    BY <1>3, WriterAssumption, FmP!StutterStep, FmP!MatrixStutter DEF CInv
<1> QED BY <1>1, <1>2, <1>4 DEF CInv

\* CInv holds before either has run.
LEMMA BothInit == ExposureFirst /\ Init => CInv
<1> SUFFICES ASSUME ExposureFirst, Init PROVE CInv
    OBVIOUS
<1>1. /\ written = <<>> /\ buf = <<>> /\ put = <<>> /\ lastheader = <<0, 0>> /\ pc = "header"
      /\ Fm!ReaderInit /\ open
    BY DEF Init, WriterInit, Fm!ReaderInit
<1>2. IInv
    BY InitHolds DEF Init
<1>3. Stream = <<>>
    BY <1>1 DEF Stream
<1>4. FmP!Heads(<<>>) = {} /\ FmP!Records(<<>>) = {} /\ FmP!Opening = -3
    BY DEF FmP!Heads, FmP!Records, FmP!Opening, FmP!tiv_idx
<1>5. FmP!Framed(<<>>, -3) /\ FmP!Grouped(<<>>)
    BY <1>4 DEF FmP!Framed, FmP!Grouped
<1>6. WInv
    <2>1. Produced = {} /\ Begun = {}
        BY <1>1 DEF Produced, Begun
    <2>2. Core(<<>>, {}, {})
        BY <1>4, <1>5 DEF Core, Begins, Carries
    <2> QED BY <1>1, <1>3, <2>1, <2>2 DEF WInv
<1>7. FmP!Start
    <2>1. <<>> \in Seq(FmP!Range(<<>>)) /\ FALSE \in BOOLEAN
        OBVIOUS
    <2> QED BY <1>1, <1>4, <1>5, <2>1, SameReader DEF FmP!Start
<1>8. FmP!IInv /\ FmP!MatrixInv
    BY <1>7, WriterAssumption, FmP!InitHolds, FmP!MatrixInit
<1> QED BY <1>1, <1>2, <1>6, <1>8 DEF CInv

\* CInv is an invariant of the two processes.
LEMMA BothInvariant == ExposureFirst /\ Spec => []CInv
<1>1. CInv /\ [Next]_vars => CInv'
    BY ReaderStep, WriterStep, BothStill DEF Next, Ended
<1> QED BY <1>1, BothInit, PTL DEF Spec

-----------------------------------------------------------------------------
(* What fmcalc makes of the stream.                                         *)

\* A record of the stream is the loss its place says.
LEMMA LossAt ==
    ASSUME NEW s, NEW P, NEW B, Core(s, P, B),
           NEW p, NEW e, NEW i, NEW x, x # 0, FmP!IsLoss(s, p, e, i, x)
    PROVE  s[p][3] = <<e, i, x>> /\ s[p][3] \in P
<1>1. p \in FmP!Records(s) /\ s[p] # Terminator
    BY DEF FmP!IsLoss, Terminator, Record
<1>2. PICK l : l = s[p][3]
    OBVIOUS
<1>3. l \in P /\ FmP!IsLoss(s, p, l[1], l[2], l[3])
    BY <1>1, <1>2 DEF Core, Carries
<1>4. l[1] = e /\ l[2] = i /\ l[3] = x
    BY <1>3 DEF FmP!IsLoss
<1>5. l \in Losses
    BY <1>3 DEF Core
<1>6. l = <<l[1], l[2], l[3]>>
    BY <1>5 DEF Losses
<1> QED BY <1>2, <1>3, <1>4, <1>6

\* The rows of the matrix, and the samples in them.
LEMMA Rows ==
    /\ \A r \in FmP!Row : r # 0 => FmP!SidxOf(r) \in -1 .. SampleSize /\ FmP!SidxOf(r) # 0
    /\ FmP!SidxOf(0) = -3 /\ 0 \in FmP!Row
    /\ \A x \in Sidx : x # -2 => \E r \in FmP!Row : FmP!SidxOf(r) = x
<1> USE WriterAssumption DEF FmP!Row, FmP!SidxOf, FmP!tiv_idx, FmP!mean_idx
<1>1. \A r \in FmP!Row : r # 0 => FmP!SidxOf(r) \in -1 .. SampleSize /\ FmP!SidxOf(r) # 0
    OBVIOUS
<1>2. FmP!SidxOf(0) = -3 /\ FmP!SidxOf(1) = -1 /\ 0 \in FmP!Row /\ 1 \in FmP!Row
    OBVIOUS
<1>3. \A x \in 1 .. SampleSize : x + 1 \in FmP!Row /\ FmP!SidxOf(x + 1) = x
    OBVIOUS
<1>4. \A x \in Sidx : x = -3 \/ x = -2 \/ x = -1 \/ x \in 1 .. SampleSize
    BY DEF Sidx
<1> QED BY <1>1, <1>2, <1>3, <1>4, Zenon

\* A cell is zero, or the loss of its item and sample.
LEMMA CellSeen ==
    ASSUME NEW s, NEW P, NEW B, Core(s, P, B),
           NEW e, NEW its, NEW rows, NEW n, FmP!Holds(s, -3, e, its, rows, n),
           NEW r \in FmP!Row, NEW k \in 1 .. Len(its)
    PROVE  \/ rows[r][k] = NoLoss
           \/ rows[r][k] = <<e, its[k], FmP!SidxOf(r)>> /\ rows[r][k] \in P
<1>1. CASE r = 0
    <2>1. PICK p : FmP!IsLoss(s, p, e, its[k], -3)
        BY DEF FmP!Holds, FmP!Opened
    <2>2. <<e, its[k], -3>> \in P
        BY <2>1, LossAt
    <2>3. rows[0][k] = <<e, its[k], -3>>
        BY DEF FmP!Holds, FmP!gettiv, FmP!tiv_idx
    <2> QED BY <1>1, <2>2, <2>3, Rows
<1>2. CASE r # 0
    <2>1. FmP!Cell(s, e, its[k], r, n, rows[r][k])
        BY <1>2 DEF FmP!Holds
    <2>2. CASE \E p \in 1 .. n : FmP!IsLoss(s, p, e, its[k], FmP!SidxOf(r))
        <3>1. PICK p \in 1 .. n : FmP!IsLoss(s, p, e, its[k], FmP!SidxOf(r))
            BY <2>2
        <3>2. rows[r][k] = s[p][3]
            BY <2>1, <3>1 DEF FmP!Cell
        <3>3. FmP!SidxOf(r) # 0
            BY <1>2, Rows
        <3> QED BY <3>1, <3>2, <3>3, LossAt
    <2>3. CASE \A p \in 1 .. n : ~FmP!IsLoss(s, p, e, its[k], FmP!SidxOf(r))
        BY <2>1, <2>3 DEF FmP!Cell, FmP!NoLoss, NoLoss
    <2> QED BY <2>2, <2>3
<1> QED BY <1>1, <1>2

\* A loss of the event is in a cell, when all its records have been read.
LEMMA LossSeen ==
    ASSUME NEW s, NEW P, NEW B, Core(s, P, B),
           NEW e, NEW its, NEW rows, NEW n \in Nat, FmP!Holds(s, -3, e, its, rows, n),
           \A p \in FmP!Records(s) : s[FmP!HeadOf(s, p)][2] = e => p \in 1 .. n,
           NEW l \in P, l[1] = e, l[3] # -2
    PROVE  \E r \in FmP!Row, k \in 1 .. Len(its) : rows[r][k] = l
<1>1. PICK i \in Items, x \in Sidx : l = <<e, i, x>>
    <2>1. l \in Losses
        BY DEF Core
    <2>2. l = <<l[1], l[2], l[3]>> /\ l[2] \in Items /\ l[3] \in Sidx
        BY <2>1 DEF Losses
    <2> QED BY <2>2
<1>2. x # -2 /\ l[2] = i /\ l[3] = x
    BY <1>1
<1>3. PICK p : FmP!IsLoss(s, p, e, i, x)
    BY <1>2 DEF Core, Carries
<1>4. p \in FmP!Records(s) /\ p \in 1 .. n
    BY <1>3 DEF FmP!IsLoss
<1>5. x \in -3 .. SampleSize /\ x # 0
    BY WriterAssumption DEF Sidx
<1>6. PICK q \in 1 .. n : FmP!IsLoss(s, q, e, i, -3)
    <2>1. CASE x = -3
        BY <1>3, <1>4, <2>1
    <2>2. CASE x # -3
        <3>1. x \in Int /\ x >= -1 /\ s \in Seq(Token) /\ FmP!Framed(s, -3)
            BY <1>2, <1>5, <2>2, WriterAssumption DEF Core
        <3>2. PICK q \in 1 .. p : FmP!IsLoss(s, q, e, i, -3)
            BY <1>3, <3>1, WriterAssumption, FmP!OpenedBefore
        <3>3. q \in 1 .. n
            BY <1>4
        <3> QED BY <3>2, <3>3
    <2> QED BY <2>1, <2>2
<1>7. PICK k \in 1 .. Len(its) : its[k] = i
    BY <1>6 DEF FmP!Holds, FmP!Opened, FmP!IsLoss
<1>8. PICK r \in FmP!Row : FmP!SidxOf(r) = x
    BY <1>2, Rows
<1>9. CASE r = 0
    BY <1>1, <1>7, <1>8, <1>9, Rows DEF FmP!Holds, FmP!gettiv, FmP!tiv_idx
<1>10. CASE r # 0
    <2>1. FmP!Cell(s, e, i, r, n, rows[r][k])
        BY <1>7, <1>10 DEF FmP!Holds
    <2>2. rows[r][k] = s[p][3]
        BY <1>3, <1>4, <1>8, <2>1 DEF FmP!Cell
    <2>3. s[p][3] = l
        BY <1>1, <1>3, <1>5, LossAt
    <2> QED BY <2>2, <2>3
<1> QED BY <1>9, <1>10

\* A call of dofm has the losses that were produced for its event.
LEMMA CallSeen ==
    ASSUME CInv, NEW n \in 1 .. Len(calculated)
    PROVE  Seen(calculated[n])
<1> DEFINE s == Stream
           e == calculated[n].event
           its == calculated[n].items
           rows == calculated[n].guls
<1>1. Core(s, Produced, Begun) /\ Produced \in SUBSET Losses /\ Begun \in SUBSET (Events \X Items)
    <2>1. \A m \in 1 .. Len(put) : put[m] \in Losses
        BY DEF CInv, WInv
    <2>2. \A l \in Losses : <<l[1], l[2]>> \in Events \X Items
        BY DEF Losses
    <2>3. Produced \in SUBSET Losses /\ Begun \in SUBSET (Events \X Items)
        BY <2>1, <2>2 DEF Produced, Begun
    <2> QED BY <2>3 DEF CInv, WInv
<1>2. s \in Seq(Token) /\ FmP!Framed(s, -3)
    BY <1>1 DEF Core
<1>3. /\ written \in Seq(Token) /\ FmP!Extends(s, written) /\ FmP!Opening = -3
      /\ ~open => s = written
    <2>1. written \in Seq(Token) /\ buf \in Seq(Token)
        BY DEF CInv, IInv, Blocks
    <2>2. s = written \/ s = written \o buf
        BY DEF Stream
    <2>3. FmP!Extends(s, written)
        BY <2>1, <2>2, Longest
    <2> QED BY <2>1, <2>3 DEF Stream, FmP!Opening, FmP!tiv_idx
<1>4. FmP!Extends(s, s)
    BY <1>2, Longest
<1>5. FmP!Grouped(s)
    BY <1>1, <1>2, <1>4, Readable
<1> HIDE DEF s
<1>6. pos \in 0 .. Len(written) /\ pos \in Nat
    BY <1>3 DEF CInv, FmP!IInv, FmP!Types
<1>7. FmP!Holds(s, -3, e, its, rows, pos)
    <2>1. FmP!Holds(written, -3, e, its, rows, pos)
        BY <1>3 DEF CInv, FmP!MatrixInv, FmP!Earlier
    <2> QED BY <1>2, <1>3, <1>6, <2>1, WriterAssumption, FmP!HoldsLonger
<1>8. \A p \in FmP!Records(s) : s[FmP!HeadOf(s, p)][2] = e => p \in 1 .. pos
    <2>1. e \in FmP!Calculated
        BY DEF FmP!Calculated
    <2>2. FmP!IInv /\ (pc = "done" => s = written)
        BY <1>3 DEF CInv
    <2> QED BY <1>2, <1>3, <1>5, <2>1, <2>2, WriterAssumption, FmP!AllRead
<1> HIDE DEF e, its, rows
<1>9. \A r \in FmP!Row, k \in 1 .. Len(its) :
          \/ rows[r][k] = NoLoss
          \/ rows[r][k] = <<e, its[k], FmP!SidxOf(r)>> /\ rows[r][k] \in Produced
    BY <1>1, <1>7, CellSeen
<1>10. \A l \in Produced : l[1] = e /\ l[3] # -2 =>
           \E r \in FmP!Row, k \in 1 .. Len(its) : rows[r][k] = l
    BY <1>1, <1>6, <1>7, <1>8, LossSeen
<1>11. \A r \in FmP!Row : FmP!SidxOf(r) # -2
    BY Rows
<1>12. \A l \in Produced : l # NoLoss
    BY <1>1 DEF Losses, NoLoss
<1>13. Fm!Row = FmP!Row /\ \A r \in FmP!Row : SidxOf(r) = FmP!SidxOf(r)
    BY DEF Fm!Row, FmP!Row, SidxOf, FmP!SidxOf, FmP!tiv_idx, FmP!mean_idx
<1>14. \A v : v \in LossesIn(calculated[n]) <=>
               v # NoLoss /\ \E r \in FmP!Row, k \in 1 .. Len(its) : v = rows[r][k]
    BY <1>13 DEF LossesIn, its, rows
<1>15. \A v : v \in LossesIn(calculated[n]) <=> v \in Produced /\ v[1] = e /\ v[3] # -2
    BY <1>9, <1>10, <1>11, <1>12, <1>14
<1>16. LossesIn(calculated[n]) = {l \in ProducedOf(e) : l[3] # -2}
    BY <1>15 DEF ProducedOf
<1>17. \A r \in Fm!Row, k \in 1 .. Len(its) :
           rows[r][k] \in {NoLoss, Loss(e, its[k], SidxOf(r))}
    BY <1>9, <1>13 DEF Loss
<1> QED BY <1>16, <1>17 DEF Seen, e, its, rows

\* CInv says what FmSeesGul says.
LEMMA SeenByFm ==
    ASSUME CInv
    PROVE  FmSeesGul
<1>1. \A n \in 1 .. Len(calculated) : Seen(calculated[n])
    BY CallSeen
<1> QED BY <1>1 DEF FmSeesGul, Seen

(* Where blocks begin with the exposure (gulcalc -i or -a): what fmcalc     *)
(* calculates for an event is what gulcalc produced for it,                 *)
(* whatever the size of the buffer, wherever it was written out, and        *)
(* however far fmcalc is behind.                                            *)
THEOREM SeesWhatWasProduced == ExposureFirst /\ Spec => []FmSeesGul
BY BothInvariant, SeenByFm, PTL
=============================================================================
