-------------------------- MODULE FmEvents_proofs --------------------------
(* For every stream whose blocks are grouped by event, of any length and    *)
(* however it ends: fmcalc calculates no event twice and, when it ends, has *)
(* calculated every event of the stream; and the matrix it gives to dofm    *)
(* holds the losses of the event, each in its cell, and zeros elsewhere.    *)
(*                                                                          *)
(* The three calls of dofm know only last_event_id.  The inductive          *)
(* invariant IInv says what that one variable stands for: every event read  *)
(* so far is either last_event_id or was given up for it, and those given   *)
(* up are exactly the ones calculated.  MatrixInv says of the matrix that   *)
(* it holds what the part of the stream read so far says of its event.      *)
EXTENDS FmEvents, SequenceTheorems, FiniteSetTheorems, WellFoundedInduction, TLAPS

svars == <<stream, closed, isOldGULStreamType_, rvars>>

Calculated == {calculated[n].event : n \in 1 .. Len(calculated)}
Seen == {stream[p][2] : p \in {q \in Headers : q <= pos}}

Types ==
    /\ stream \in Seq(Range(stream)) /\ Grouped(stream) /\ Framed(stream, Opening)
    /\ isOldGULStreamType_ \in BOOLEAN
    /\ pos \in 0 .. Len(stream)
    /\ pc \in {"header", "record", "done"}
    /\ last_event_id \in Nat \cup {-1}
    /\ calculated \in Seq(Range(calculated))

Start ==
    /\ stream \in Seq(Range(stream)) /\ Grouped(stream) /\ Framed(stream, Opening)
    /\ isOldGULStreamType_ \in BOOLEAN /\ ReaderInit

\* last_event_id is the event of the last header read.
LastRead ==
    /\ last_event_id = -1 => Seen = {}
    /\ last_event_id # -1 => last_event_id \in Seen
    /\ \A p \in Headers : p <= pos /\ stream[p][2] # last_event_id =>
           \E q \in Headers : p < q /\ q <= pos /\ stream[q][2] = last_event_id
    /\ pc = "record" => last_event_id # -1

Distinct == \A m, n \in 1 .. Len(calculated) : m < n => calculated[m].event # calculated[n].event

Given ==
    /\ pc # "done" => Calculated = Seen \ {last_event_id}
    /\ pc = "done" => pos = Len(stream) /\ Calculated = Seen

IInv == Types /\ LastRead /\ Distinct /\ Given

\* Record p of stream s is the loss of item i in event e with sample index x.
Records(s) == (1 .. Len(s)) \ Heads(s)
IsLoss(s, p, e, i, x) ==
    p \in Records(s) /\ s[p][2] = x /\ s[HeadOf(s, p)][2] = e /\ s[HeadOf(s, p)][3] = i
SidxOf(r) == IF r = 0 THEN tiv_idx ELSE IF r = 1 THEN mean_idx ELSE r - 1

\* A list of items and a matrix hold what the first n words of a stream say of
\* an event: the items opened, each once, their exposures and losses, and zero
\* where there is no record.
Shape(its, rows) ==
    /\ its \in Seq(Range(its))
    /\ rows = [r \in Row |-> rows[r]]
    /\ \A r \in Row : rows[r] \in Seq(Range(rows[r])) /\ Len(rows[r]) = Len(its)
Opened(s, opening, e, its, n) ==
    /\ \A j, k \in 1 .. Len(its) : its[j] = its[k] => j = k
    /\ \A k \in 1 .. Len(its) : \E p \in 1 .. n : IsLoss(s, p, e, its[k], opening)
    /\ \A p \in Records(s) : p <= n /\ s[p][2] = opening /\ s[HeadOf(s, p)][2] = e =>
           \E k \in 1 .. Len(its) : its[k] = s[HeadOf(s, p)][3]
Cell(s, e, i, r, n, v) ==
    /\ \A p \in 1 .. n : IsLoss(s, p, e, i, SidxOf(r)) => v = s[p][3]
    /\ (\A p \in 1 .. n : ~IsLoss(s, p, e, i, SidxOf(r))) => v = NoLoss
Holds(s, opening, e, its, rows, n) ==
    /\ Shape(its, rows)
    /\ Opened(s, opening, e, its, n)
    /\ \A k \in 1 .. Len(its) : rows[0][k] = gettiv(e, its[k])
    /\ \A r \in Row \ {0}, k \in 1 .. Len(its) : Cell(s, e, its[k], r, n, rows[r][k])

\* Word t can follow the n words of a framed stream s.
Continues(s, n, t, opening) ==
    /\ IsHeader(t) <=> n = 0 \/ (~IsHeader(s[n]) /\ s[n][2] = 0)
    /\ IsHeader(t) => \A h \in Heads(s) : ~(s[h][2] = t[2] /\ s[h][3] = t[3])
    /\ ~IsHeader(t) =>
           LET h == HeadOf(s, n) IN
           /\ t[2] \in -3 .. SampleSize
           /\ t[2] = tiv_idx => t[3] = gettiv(s[h][2], s[h][3])
           /\ t[2] >= mean_idx => t[2] = opening \/ \E q \in h + 1 .. n : s[q][2] = opening
           /\ \A q \in h + 1 .. n : s[q][2] # t[2]

\* Stream s begins with w.
Extends(s, w) == Len(w) <= Len(s) /\ \A p \in 1 .. Len(w) : s[p] = w[p]

\* The parts of Put and Resized that change one row.
SetAt(w, k, v) == [w EXCEPT ![k] = v]
Widened(w) == w \o <<NoLoss>>

\* A matrix gets a column k: the exposure, the loss of the record that opens
\* the item, if that is its mean, and zeros.
Widens(its, rows, next, k, o, tiv, loss) ==
    /\ next = [r \in Row |-> next[r]]
    /\ \A r \in Row :
          /\ next[r] \in Seq(Range(next[r])) /\ Len(next[r]) = k
          /\ next[r][k] = IF r = 0 THEN tiv ELSE IF SidxOf(r) = o THEN loss ELSE NoLoss
          /\ \A j \in 1 .. Len(its) : next[r][j] = rows[r][j]

\* Cell k of row r is set.
Sets(its, rows, next, r, k, loss) ==
    /\ next = [x \in Row |-> next[x]] /\ \A x \in Row : x # r => next[x] = rows[x]
    /\ next[r] \in Seq(Range(next[r])) /\ Len(next[r]) = Len(its)
    /\ next[r][k] = loss
    /\ \A j \in 1 .. Len(its) : j # k => next[r][j] = rows[r][j]

\* The matrix is that of the event being read, gh the header of its block and
\* current_item_index its item, once it is opened; what dofm was given remains
\* true of the event when more of the stream is read.
Matrix == Holds(stream, Opening, last_event_id, items, event_guls, pos)
Current ==
    pc = "record" =>
        /\ pos \in 1 .. Len(stream)
        /\ gh = <<stream[HeadOf(stream, pos)][2], stream[HeadOf(stream, pos)][3]>>
        /\ gh[1] = last_event_id
        /\ \A k \in 1 .. Len(items) : items[k] = gh[2] => current_item_index = k
Earlier ==
    \A n \in 1 .. Len(calculated) :
        LET c == calculated[n] IN Holds(stream, Opening, c.event, c.items, c.guls, pos)

MatrixInv == Matrix /\ Current /\ Earlier

-----------------------------------------------------------------------------
(* The least and the greatest number of a set.                              *)
LEMMA LeastOf ==
    ASSUME NEW T, T \subseteq Nat, T # {}
    PROVE  \E x \in T : \A y \in T : x <= y
<1> DEFINE R == OpToRel(<, Nat)
<1>1. IsWellFoundedOn(R, Nat)
    BY NatLessThanWellFounded
<1>3. \A x, y \in Nat : x < y => <<x, y>> \in R
    BY DEF OpToRel
<1> HIDE DEF R
<1>2. PICK x \in T : \A y \in T : <<y, x>> \notin R
    BY <1>1, WFMin
<1>4. ASSUME NEW y \in T PROVE x <= y
    <2>1. x \in Nat /\ y \in Nat
        BY <1>2
    <2>2. ~(y < x)
        BY <1>2, <1>3, <2>1
    <2> QED BY <2>1, <2>2
<1> QED BY <1>2, <1>4

\* Max of numbers from 1 to n.
LEMMA MaxOf ==
    ASSUME NEW n \in Nat, NEW T, T \subseteq 1 .. n, T # {}
    PROVE  /\ Max(T) \in T /\ \A y \in T : y <= Max(T)
<1> DEFINE D == {n - y : y \in T}
<1>1. \A y \in T : y \in Int /\ n - y \in Nat
    OBVIOUS
<1>2. D \subseteq Nat
    BY <1>1
<1>3. D # {}
    <2>1. PICK y : y \in T
        OBVIOUS
    <2> QED BY <2>1
<1>4. PICK x \in D : \A z \in D : x <= z
    <2> HIDE DEF D
    <2> QED BY <1>2, <1>3, LeastOf
<1>5. PICK m \in T : x = n - m
    BY <1>4
<1>6. ASSUME NEW z \in T PROVE m >= z
    <2>1. n - m <= n - z
        BY <1>4, <1>5
    <2> QED BY <1>1, <2>1
<1>7. \E y \in T : \A z \in T : y >= z
    BY <1>5, <1>6
<1>8. Max(T) \in T /\ \A z \in T : Max(T) >= z
    BY <1>7 DEF Max
<1> QED BY <1>1, <1>8
-----------------------------------------------------------------------------
(* Sequences.                                                               *)
LEMMA OwnRange ==
    ASSUME NEW U, NEW q \in Seq(U)
    PROVE  q \in Seq(Range(q))
<1>1. \A j \in 1 .. Len(q) : q[j] \in Range(q)
    BY DOMAIN q = 1 .. Len(q) DEF Range
<1> QED BY <1>1

\* A row with one column more.
LEMMA WidenedIs ==
    ASSUME NEW w, w \in Seq(Range(w)), NEW q, q = Widened(w)
    PROVE  /\ q \in Seq(Range(q)) /\ Len(w) \in Nat /\ Len(q) = Len(w) + 1
           /\ q[Len(w) + 1] = NoLoss
           /\ \A j \in 1 .. Len(w) : q[j] = w[j]
<1> DEFINE U == Range(w) \cup {NoLoss}
<1>1. Range(w) \subseteq U /\ NoLoss \in U
    OBVIOUS
<1> HIDE DEF U
<1>2. w \in Seq(U) /\ Len(w) \in Nat
    BY <1>1
<1>3. q = Append(w, NoLoss)
    BY <1>1, <1>2, AppendIsConcat DEF Widened
<1>4. /\ q \in Seq(U) /\ Len(q) = Len(w) + 1 /\ q[Len(w) + 1] = NoLoss
      /\ \A j \in 1 .. Len(w) : q[j] = w[j]
    BY <1>1, <1>2, <1>3, AppendProperties
<1> QED BY <1>2, <1>4, OwnRange

\* A row with one cell set.
LEMMA SetAtIs ==
    ASSUME NEW w, w \in Seq(Range(w)), NEW k \in 1 .. Len(w), NEW v,
           NEW q, q = SetAt(w, k, v)
    PROVE  /\ q \in Seq(Range(q)) /\ Len(q) = Len(w) /\ q[k] = v
           /\ \A j \in 1 .. Len(w) : j # k => q[j] = w[j]
<1> DEFINE U == Range(w) \cup {v}
<1>1. Range(w) \subseteq U /\ v \in U
    OBVIOUS
<1> HIDE DEF U
<1>2. w \in Seq(U)
    BY <1>1
<1>3. /\ q \in Seq(U) /\ Len(q) = Len(w)
      /\ \A j \in 1 .. Len(w) : q[j] = IF j = k THEN v ELSE w[j]
    BY <1>1, <1>2, ExceptSeq DEF SetAt
<1>4. q[k] = v /\ \A j \in 1 .. Len(w) : j # k => q[j] = w[j]
    BY <1>3, Zenon
<1>5. q \in Seq(Range(q))
    BY <1>3, OwnRange, Zenon
<1> QED BY <1>3, <1>4, <1>5

-----------------------------------------------------------------------------
(* Blocks of a stream.                                                      *)
LEMMA Heading ==
    ASSUME NEW S, NEW s \in Seq(S), NEW o, Framed(s, o), NEW p \in 1 .. Len(s)
    PROVE  /\ HeadOf(s, p) \in Heads(s) /\ HeadOf(s, p) \in 1 .. p
           /\ \A q \in Heads(s) : q <= p => q <= HeadOf(s, p)
           /\ p \in Heads(s) => HeadOf(s, p) = p
           /\ p \in Records(s) => p - 1 \in 1 .. Len(s) /\ HeadOf(s, p - 1) = HeadOf(s, p)
<1> DEFINE T(n) == {q \in Heads(s) : q <= n}
<1>1. Len(s) \in Nat /\ Heads(s) \subseteq 1 .. Len(s)
    BY DEF Heads
<1>2. 1 \in Heads(s)
    BY <1>1 DEF Framed, Heads
<1>3. T(p) \subseteq 1 .. p /\ T(p) # {}
    BY <1>1, <1>2
<1>4. HeadOf(s, p) \in T(p) /\ \A q \in T(p) : q <= HeadOf(s, p)
    <2> HIDE DEF T
    <2>1. Max(T(p)) \in T(p) /\ \A q \in T(p) : q <= Max(T(p))
        BY <1>1, <1>3, MaxOf
    <2> QED BY <2>1 DEF HeadOf, T
<1>5. p \in Heads(s) => HeadOf(s, p) = p
    BY <1>1, <1>3, <1>4
<1>6. ASSUME p \in Records(s)
      PROVE  p - 1 \in 1 .. Len(s) /\ HeadOf(s, p - 1) = HeadOf(s, p)
    <2>1. p # 1 /\ p \notin Heads(s)
        BY <1>2, <1>6 DEF Records
    <2>2. T(p - 1) = T(p)
        BY <1>1, <2>1
    <2>3. HeadOf(s, p - 1) = Max(T(p - 1)) /\ HeadOf(s, p) = Max(T(p))
        BY DEF HeadOf
    <2>4. p - 1 \in 1 .. Len(s)
        BY <1>1, <2>1
    <2> HIDE DEF T
    <2> QED BY <2>2, <2>3, <2>4
<1> QED BY <1>3, <1>4, <1>5, <1>6

\* A stream has one record at most for an event, an item and a sample index.
LEMMA OneRecord ==
    ASSUME NEW S, NEW s \in Seq(S), NEW o, Framed(s, o), NEW e, NEW i, NEW x,
           NEW p, NEW q, IsLoss(s, p, e, i, x), IsLoss(s, q, e, i, x)
    PROVE  p = q
<1>1. /\ Len(s) \in Nat /\ p \in 1 .. Len(s) /\ q \in 1 .. Len(s)
      /\ p \in Records(s) /\ q \in Records(s)
    BY DEF IsLoss, Records
<1>2. /\ HeadOf(s, p) \in Heads(s) /\ HeadOf(s, q) \in Heads(s)
      /\ HeadOf(s, p) \in 1 .. p /\ HeadOf(s, q) \in 1 .. q
    BY <1>1, Heading
<1>3. HeadOf(s, p) = HeadOf(s, q)
    BY <1>2 DEF IsLoss, Framed
<1>4. HeadOf(s, p) # p /\ HeadOf(s, q) # q
    BY <1>1, <1>2 DEF Records
<1>5. \A m, n \in Records(s) :
          HeadOf(s, m) + 1 <= n /\ n <= m - 1 => s[n][2] # s[m][2]
    BY DEF Framed, Records
<1>6. ~(p < q) /\ ~(q < p)
    BY <1>1, <1>2, <1>3, <1>4, <1>5 DEF IsLoss
<1> QED BY <1>1, <1>6

\* A loss comes after the record that opens its item.
LEMMA OpenedBefore ==
    ASSUME NEW S, NEW s \in Seq(S), NEW o, Framed(s, o), NEW e, NEW i, NEW x \in Int, x >= -1,
           NEW p, IsLoss(s, p, e, i, x)
    PROVE  \E q \in 1 .. p : IsLoss(s, q, e, i, o)
<1>1. /\ Len(s) \in Nat /\ p \in 1 .. Len(s) /\ p \in Records(s)
      /\ Heads(s) \subseteq 1 .. Len(s)
    BY DEF IsLoss, Records, Heads
<1>2. /\ HeadOf(s, p) \in 1 .. p
      /\ \A q \in Heads(s) : q <= p => q <= HeadOf(s, p)
    BY <1>1, Heading
<1>3. PICK q \in HeadOf(s, p) + 1 .. p : s[q][2] = o
    BY <1>1 DEF Framed, IsLoss, Records, mean_idx
<1>4. q \in 1 .. p /\ q \in Records(s)
    BY <1>1, <1>2 DEF Records
<1>5. {m \in Heads(s) : m <= q} = {m \in Heads(s) : m <= p}
    BY <1>1, <1>2, <1>4
<1>6. HeadOf(s, q) = HeadOf(s, p)
    BY <1>5 DEF HeadOf
<1> QED BY <1>3, <1>4, <1>6 DEF IsLoss

-----------------------------------------------------------------------------
(* A stream and its beginning.                                              *)
LEMMA SameBlocks ==
    ASSUME NEW S, NEW s \in Seq(S), NEW R, NEW w \in Seq(R), Extends(s, w),
           NEW o, Framed(s, o) \/ Framed(w, o)
    PROVE  /\ Heads(w) = {p \in Heads(s) : p <= Len(w)}
           /\ Records(w) = {p \in Records(s) : p <= Len(w)}
           /\ \A p \in 1 .. Len(w) :
                  /\ HeadOf(w, p) = HeadOf(s, p) /\ HeadOf(s, p) \in 1 .. p
                  /\ HeadOf(s, p) \in 1 .. Len(w)
           /\ \A p \in 1 .. Len(w) : \A e, i, x : IsLoss(s, p, e, i, x) <=> IsLoss(w, p, e, i, x)
<1>1. Len(s) \in Nat /\ Len(w) \in Nat /\ Len(w) <= Len(s) /\ \A p \in 1 .. Len(w) : s[p] = w[p]
    BY DEF Extends
<1>2. Heads(w) = {p \in Heads(s) : p <= Len(w)}
    BY <1>1 DEF Heads, IsHeader
<1>3. ASSUME NEW p \in 1 .. Len(w)
      PROVE  /\ HeadOf(w, p) = HeadOf(s, p) /\ HeadOf(s, p) \in 1 .. p
             /\ HeadOf(s, p) \in 1 .. Len(w)
    <2>1. {q \in Heads(w) : q <= p} = {q \in Heads(s) : q <= p}
        BY <1>1, <1>2 DEF Heads
    <2>2. HeadOf(w, p) = HeadOf(s, p)
        BY <2>1 DEF HeadOf
    <2>3. HeadOf(s, p) \in 1 .. p
        <3>1. p \in 1 .. Len(s)
            BY <1>1
        <3> QED BY <2>2, <3>1, Heading
    <2> QED BY <1>1, <2>2, <2>3
<1>4. Records(w) = {p \in Records(s) : p <= Len(w)}
    BY <1>1, <1>2 DEF Records
<1>5. ASSUME NEW p \in 1 .. Len(w), NEW e, NEW i, NEW x
      PROVE  IsLoss(s, p, e, i, x) <=> IsLoss(w, p, e, i, x)
    <2>1. s[p] = w[p] /\ s[HeadOf(s, p)] = w[HeadOf(w, p)]
        BY <1>1, <1>3
    <2>2. p \in Records(s) <=> p \in Records(w)
        BY <1>4
    <2> QED BY <2>1, <2>2 DEF IsLoss
<1> QED BY <1>2, <1>3, <1>4, <1>5

\* What was written of a framed stream is framed.
LEMMA FramedBefore ==
    ASSUME NEW S, NEW s \in Seq(S), NEW R, NEW w \in Seq(R), Extends(s, w), NEW o, Framed(s, o)
    PROVE  Framed(w, o)
<1>1. Len(s) \in Nat /\ Len(w) \in Nat /\ Len(w) <= Len(s) /\ \A p \in 1 .. Len(w) : s[p] = w[p]
    BY DEF Extends
<1>2. Heads(w) = {p \in Heads(s) : p <= Len(w)}
    BY SameBlocks
<1>3. ASSUME NEW p \in 1 .. Len(w)
      PROVE  IsHeader(w[p]) <=> p = 1 \/ (~IsHeader(w[p - 1]) /\ w[p - 1][2] = 0)
    <2>1. s[p] = w[p] /\ (p # 1 => s[p - 1] = w[p - 1]) /\ p \in 1 .. Len(s)
        BY <1>1
    <2>2. IsHeader(s[p]) <=> p = 1 \/ (~IsHeader(s[p - 1]) /\ s[p - 1][2] = 0)
        BY <2>1 DEF Framed
    <2> QED BY <2>1, <2>2
<1>4. ASSUME NEW p \in Heads(w), NEW q \in Heads(w), w[p][2] = w[q][2], w[p][3] = w[q][3]
      PROVE  p = q
    <2>1. p \in Heads(s) /\ q \in Heads(s) /\ s[p] = w[p] /\ s[q] = w[q]
        BY <1>1, <1>2 DEF Heads
    <2> QED BY <1>4, <2>1 DEF Framed
<1>5. ASSUME NEW p \in (1 .. Len(w)) \ Heads(w)
      PROVE  LET h == HeadOf(w, p) IN
             /\ w[p][2] \in -3 .. SampleSize
             /\ w[p][2] = tiv_idx => w[p][3] = gettiv(w[h][2], w[h][3])
             /\ w[p][2] >= mean_idx => \E q \in h + 1 .. p : w[q][2] = o
             /\ \A q \in h + 1 .. p - 1 : w[q][2] # w[p][2]
    <2> DEFINE h == HeadOf(s, p)
    <2>1. HeadOf(w, p) = h /\ h \in 1 .. p
        BY SameBlocks
    <2>2. \A q \in h .. p : q \in 1 .. Len(w) /\ s[q] = w[q]
        BY <1>1, <2>1
    <2>3. p \in (1 .. Len(s)) \ Heads(s) /\ s[p] = w[p] /\ s[h] = w[h]
        BY <1>1, <1>2, <2>1, <2>2
    <2>4. /\ s[p][2] \in -3 .. SampleSize
          /\ s[p][2] = tiv_idx => s[p][3] = gettiv(s[h][2], s[h][3])
          /\ s[p][2] >= mean_idx => \E q \in h + 1 .. p : s[q][2] = o
          /\ \A q \in h + 1 .. p - 1 : s[q][2] # s[p][2]
        BY <2>3 DEF Framed
    <2>5. h + 1 .. p \subseteq h .. p /\ h + 1 .. p - 1 \subseteq h .. p
        BY <2>1
    <2> QED BY <2>1, <2>2, <2>3, <2>4, <2>5
<1> QED BY <1>3, <1>4, <1>5 DEF Framed

\* A stream gets a word more.
LEMMA OneWordMore ==
    ASSUME NEW S, NEW s \in Seq(S), NEW R, NEW r \in Seq(R), Extends(r, s), NEW o, Framed(s, o),
           NEW n \in Nat, n = Len(s), Len(r) = n + 1
    PROVE  /\ IsHeader(r[n + 1]) =>
                  /\ Heads(r) = Heads(s) \cup {n + 1} /\ Records(r) = Records(s)
                  /\ HeadOf(r, n + 1) = n + 1
           /\ ~IsHeader(r[n + 1]) =>
                  /\ Heads(r) = Heads(s) /\ Records(r) = Records(s) \cup {n + 1}
                  /\ n # 0 => HeadOf(r, n + 1) = HeadOf(s, n)
<1>1. \A p \in 1 .. n + 1 : p \in 1 .. n \/ p = n + 1
    OBVIOUS
<1>2. /\ Heads(s) = {p \in Heads(r) : p <= n} /\ Records(s) = {p \in Records(r) : p <= n}
      /\ Heads(r) \subseteq 1 .. n + 1 /\ Records(r) = (1 .. n + 1) \ Heads(r)
      /\ n + 1 \in Heads(r) <=> IsHeader(r[n + 1])
    <2>1. /\ Heads(s) = {p \in Heads(r) : p <= Len(s)}
          /\ Records(s) = {p \in Records(r) : p <= Len(s)}
        BY SameBlocks
    <2>2. /\ Heads(r) \subseteq 1 .. n + 1 /\ Records(r) = (1 .. n + 1) \ Heads(r)
          /\ n + 1 \in Heads(r) <=> IsHeader(r[n + 1])
        BY DEF Heads, Records
    <2> QED BY <2>1, <2>2
<1>3. CASE IsHeader(r[n + 1])
    <2>1. Heads(r) = Heads(s) \cup {n + 1} /\ Records(r) = Records(s)
        BY <1>1, <1>2, <1>3
    <2> DEFINE T == {q \in Heads(r) : q <= n + 1}
    <2>2. T \subseteq 1 .. n + 1 /\ n + 1 \in T
        BY <1>2, <1>3
    <2> HIDE DEF T
    <2>3. Max(T) \in T /\ \A y \in T : y <= Max(T)
        <3>1. n + 1 \in Nat /\ T # {}
            BY <2>2
        <3> QED BY <2>2, <3>1, MaxOf
    <2>4. Max(T) \in 1 .. n + 1 /\ n + 1 <= Max(T)
        BY <2>2, <2>3
    <2>5. HeadOf(r, n + 1) = n + 1
        BY <2>4 DEF HeadOf, T
    <2> QED BY <1>3, <2>1, <2>5
<1>4. CASE ~IsHeader(r[n + 1])
    <2>1. Heads(r) = Heads(s) /\ Records(r) = Records(s) \cup {n + 1}
        BY <1>1, <1>2, <1>4
    <2>2. {q \in Heads(r) : q <= n + 1} = {q \in Heads(s) : q <= n}
        BY <1>2, <2>1
    <2> QED BY <1>4, <2>1, <2>2 DEF HeadOf
<1> QED BY <1>3, <1>4

\* A framed stream stays so with a word that may follow.
LEMMA FramedMore ==
    ASSUME NEW S, NEW s \in Seq(S), NEW R, NEW r \in Seq(R), Extends(r, s), NEW o, Framed(s, o),
           NEW n \in Nat, n = Len(s), Len(r) = n + 1, NEW t, t = r[n + 1], Continues(s, n, t, o)
    PROVE  Framed(r, o)
<1> USE DEF Continues
<1>1. \A p \in 1 .. n + 1 : p \in 1 .. n \/ p = n + 1
    OBVIOUS
<1>2. \A p \in 1 .. n : r[p] = s[p]
    BY DEF Extends
<1>3. /\ \A p \in 1 .. n : HeadOf(s, p) = HeadOf(r, p) /\ HeadOf(r, p) \in 1 .. p
      /\ Heads(s) = {p \in Heads(r) : p <= n}
    <2>1. /\ \A p \in 1 .. Len(s) : HeadOf(s, p) = HeadOf(r, p) /\ HeadOf(r, p) \in 1 .. p
          /\ Heads(s) = {p \in Heads(r) : p <= Len(s)}
        BY SameBlocks
    <2> QED BY <2>1
<1>4. ASSUME NEW p \in 1 .. Len(r)
      PROVE  IsHeader(r[p]) <=> p = 1 \/ (~IsHeader(r[p - 1]) /\ r[p - 1][2] = 0)
    <2>1. CASE p = n + 1
        <3>1. n # 0 => r[p - 1] = s[n] /\ p # 1
            BY <1>2, <2>1
        <3> QED BY <2>1, <3>1
    <2>2. CASE p \in 1 .. n
        <3>1. r[p] = s[p] /\ (p # 1 => r[p - 1] = s[p - 1])
            BY <1>2, <2>2
        <3> QED BY <2>2, <3>1 DEF Framed
    <2> QED BY <1>1, <2>1, <2>2
<1>5. ASSUME NEW p \in Heads(r), NEW q \in Heads(r), r[p][2] = r[q][2], r[p][3] = r[q][3]
      PROVE  p = q
    <2>1. \A h \in Heads(r) : (h \in Heads(s) /\ r[h] = s[h]) \/ (h = n + 1 /\ IsHeader(t))
        BY <1>1, <1>2, <1>3 DEF Heads
    <2>2. CASE p \in Heads(s) /\ q \in Heads(s)
        <3>1. r[p] = s[p] /\ r[q] = s[q]
            BY <1>2, <1>3, <2>2 DEF Heads
        <3> QED BY <1>5, <2>2, <3>1 DEF Framed
    <2>3. CASE ~(p \in Heads(s) /\ q \in Heads(s))
        <3>1. \A h \in Heads(s) : IsHeader(t) => ~(r[h][2] = t[2] /\ r[h][3] = t[3])
            BY <1>2, <1>3 DEF Heads
        <3> QED BY <1>5, <2>1, <2>3, <3>1
    <2> QED BY <2>2, <2>3
<1>6. ASSUME NEW p \in (1 .. Len(r)) \ Heads(r)
      PROVE  LET h == HeadOf(r, p) IN
             /\ r[p][2] \in -3 .. SampleSize
             /\ r[p][2] = tiv_idx => r[p][3] = gettiv(r[h][2], r[h][3])
             /\ r[p][2] >= mean_idx => \E q \in h + 1 .. p : r[q][2] = o
             /\ \A q \in h + 1 .. p - 1 : r[q][2] # r[p][2]
    <2>1. CASE p = n + 1
        <3>1. ~IsHeader(t) /\ n # 0
            BY <2>1 DEF Heads
        <3> DEFINE h == HeadOf(s, n)
        <3>2. HeadOf(r, p) = h
            BY <2>1, <3>1, OneWordMore
        <3>3. h \in 1 .. n /\ r[h] = s[h]
            BY <1>2, <1>3, <3>1
        <3>4. /\ t[2] \in -3 .. SampleSize
              /\ t[2] = tiv_idx => t[3] = gettiv(s[h][2], s[h][3])
              /\ t[2] >= mean_idx => t[2] = o \/ \E q \in h + 1 .. n : s[q][2] = o
              /\ \A q \in h + 1 .. n : s[q][2] # t[2]
            BY <3>1
        <3> HIDE DEF h
        <3>5. \A q \in h + 1 .. n : r[q] = s[q] /\ q \in h + 1 .. p
            BY <1>2, <2>1, <3>3
        <3>6. p \in h + 1 .. p /\ p - 1 = n
            BY <2>1, <3>3
        <3>7. \A q \in h + 1 .. p - 1 : q \in h + 1 .. n
            BY <3>6
        <3>8. r[p] = t /\ r[h] = s[h]
            BY <2>1, <3>3
        <3>9. r[p][2] >= mean_idx => \E q \in h + 1 .. p : r[q][2] = o
            BY <3>4, <3>5, <3>6, <3>8
        <3>10. \A q \in h + 1 .. p - 1 : r[q][2] # r[p][2]
            BY <3>4, <3>5, <3>7, <3>8
        <3> QED BY <3>2, <3>4, <3>8, <3>9, <3>10
    <2>2. CASE p \in 1 .. n
        <3> DEFINE h == HeadOf(s, p)
        <3>1. HeadOf(r, p) = h /\ h \in 1 .. p
            BY <1>3, <2>2
        <3>2. p \in (1 .. Len(s)) \ Heads(s)
            BY <1>3, <2>2
        <3>3. /\ s[p][2] \in -3 .. SampleSize
              /\ s[p][2] = tiv_idx => s[p][3] = gettiv(s[h][2], s[h][3])
              /\ s[p][2] >= mean_idx => \E q \in h + 1 .. p : s[q][2] = o
              /\ \A q \in h + 1 .. p - 1 : s[q][2] # s[p][2]
            BY <3>2 DEF Framed
        <3> HIDE DEF h
        <3>4. \A q \in h .. p : r[q] = s[q]
            BY <1>2, <2>2, <3>1
        <3>5. h + 1 .. p \subseteq h .. p /\ h + 1 .. p - 1 \subseteq h .. p /\ h \in h .. p
              /\ p \in h .. p
            BY <3>1
        <3>6. r[p] = s[p] /\ r[h] = s[h]
            BY <3>4, <3>5
        <3>7. r[p][2] >= mean_idx => \E q \in h + 1 .. p : r[q][2] = o
            BY <3>3, <3>4, <3>5, <3>6
        <3>8. \A q \in h + 1 .. p - 1 : r[q][2] # r[p][2]
            BY <3>3, <3>4, <3>5, <3>6
        <3> QED BY <3>1, <3>3, <3>6, <3>7, <3>8
    <2> QED BY <1>1, <2>1, <2>2
<1> QED BY <1>4, <1>5, <1>6 DEF Framed

\* The vectors hold what the read part of the stream gives, however much of it
\* follows.
LEMMA HoldsLonger ==
    ASSUME NEW S, NEW s \in Seq(S), NEW R, NEW w \in Seq(R), Extends(s, w), NEW o, Framed(s, o),
           NEW e, NEW its, NEW rows, NEW n \in 0 .. Len(w), Holds(w, o, e, its, rows, n)
    PROVE  Holds(s, o, e, its, rows, n)
<1>1. \A p \in 1 .. n : p \in 1 .. Len(w) /\ s[p] = w[p]
    BY DEF Extends
<1>2. \A p \in 1 .. n : \A f, i, x : IsLoss(s, p, f, i, x) <=> IsLoss(w, p, f, i, x)
    BY <1>1, SameBlocks
<1>3. Opened(s, o, e, its, n)
    <2>1. \A k \in 1 .. Len(its) : \E p \in 1 .. n : IsLoss(s, p, e, its[k], o)
        BY <1>2 DEF Holds, Opened
    <2>2. ASSUME NEW p \in Records(s), p <= n, s[p][2] = o, s[HeadOf(s, p)][2] = e
          PROVE  \E k \in 1 .. Len(its) : its[k] = s[HeadOf(s, p)][3]
        <3>1. p \in 1 .. n
            BY <2>2 DEF Records
        <3>2. IsLoss(w, p, e, s[HeadOf(s, p)][3], o)
            <4>1. IsLoss(s, p, e, s[HeadOf(s, p)][3], o)
                BY <2>2 DEF IsLoss
            <4> QED BY <1>2, <3>1, <4>1
        <3>3. /\ p \in Records(w) /\ w[p][2] = o /\ w[HeadOf(w, p)][2] = e
              /\ w[HeadOf(w, p)][3] = s[HeadOf(s, p)][3]
            BY <3>2 DEF IsLoss
        <3>4. \E k \in 1 .. Len(its) : its[k] = w[HeadOf(w, p)][3]
            BY <2>2, <3>3 DEF Holds, Opened
        <3> QED BY <3>3, <3>4
    <2> QED BY <2>1, <2>2 DEF Holds, Opened
<1>4. ASSUME NEW r \in Row \ {0}, NEW k \in 1 .. Len(its)
      PROVE  Cell(s, e, its[k], r, n, rows[r][k])
    <2>1. Cell(w, e, its[k], r, n, rows[r][k])
        BY DEF Holds
    <2> QED BY <1>1, <1>2, <2>1 DEF Cell
<1> QED BY <1>3, <1>4 DEF Holds

-----------------------------------------------------------------------------
(* The matrix as the next word is read.                                     *)

\* It stays when the word is no loss of the event.
LEMMA Kept ==
    ASSUME NEW s, NEW o, NEW e, NEW its, NEW rows, NEW n \in Nat,
           Holds(s, o, e, its, rows, n),
           \A i : /\ ~IsLoss(s, n + 1, e, i, o)
                  /\ \A r \in Row \ {0} : ~IsLoss(s, n + 1, e, i, SidxOf(r))
    PROVE  Holds(s, o, e, its, rows, n + 1)
<1>1. \A p \in 1 .. n + 1 : p \in 1 .. n \/ p = n + 1
    OBVIOUS
<1>2. 1 .. n \subseteq 1 .. n + 1
    OBVIOUS
<1>3. Opened(s, o, e, its, n + 1)
    <2>1. \A k \in 1 .. Len(its) : \E p \in 1 .. n + 1 : IsLoss(s, p, e, its[k], o)
        BY <1>2 DEF Holds, Opened
    <2>2. ASSUME NEW p \in Records(s), p <= n + 1, s[p][2] = o, s[HeadOf(s, p)][2] = e
          PROVE  p <= n
        <3>1. IsLoss(s, p, e, s[HeadOf(s, p)][3], o)
            BY <2>2 DEF IsLoss
        <3>2. p # n + 1
            BY <3>1
        <3>3. p \in Int
            BY DEF Records
        <3> QED BY <2>2, <3>2, <3>3
    <2> QED BY <2>1, <2>2 DEF Holds, Opened
<1>4. ASSUME NEW r \in Row \ {0}, NEW k \in 1 .. Len(its)
      PROVE  Cell(s, e, its[k], r, n + 1, rows[r][k])
    <2>1. Cell(s, e, its[k], r, n, rows[r][k])
        BY DEF Holds
    <2> QED BY <1>1, <1>2, <2>1 DEF Cell
<1> QED BY <1>3, <1>4 DEF Holds

\* An item is opened: every row gets a cell, the first the exposure.  With the
\* old stream type the record that opens the item also is its mean.
LEMMA NewColumn ==
    ASSUME NEW S, NEW s \in Seq(S), NEW o, o \in {mean_idx, tiv_idx}, Framed(s, o),
           NEW e, NEW i, NEW its, NEW rows, NEW next, NEW n \in Nat,
           Holds(s, o, e, its, rows, n), IsLoss(s, n + 1, e, i, o),
           NEW k \in Nat, k = Len(its) + 1,
           Widens(its, rows, next, k, o, gettiv(e, i), s[n + 1][3])
    PROVE  Holds(s, o, e, Append(its, i), next, n + 1)
<1> DEFINE add == Append(its, i)
           v(r) == IF r = 0 THEN gettiv(e, i)
                   ELSE IF SidxOf(r) = o THEN s[n + 1][3] ELSE NoLoss
<1>1. \A p \in 1 .. n + 1 : p \in 1 .. n \/ p = n + 1
    OBVIOUS
<1>2. 1 .. n \subseteq 1 .. n + 1 /\ n + 1 \in 1 .. n + 1
    OBVIOUS
<1>3. Shape(its, rows) /\ Opened(s, o, e, its, n)
    BY DEF Holds
<1>4. /\ Len(its) \in Nat /\ Len(add) = k /\ add[k] = i
      /\ \A j \in 1 .. Len(its) : add[j] = its[j]
      /\ add \in Seq(Range(add))
    <2> DEFINE U == Range(its) \cup {i}
    <2>1. its \in Seq(U) /\ i \in U
        BY <1>3 DEF Shape
    <2> HIDE DEF U
    <2>2. /\ add \in Seq(U) /\ Len(its) \in Nat /\ Len(add) = k /\ add[k] = i
          /\ \A j \in 1 .. Len(its) : add[j] = its[j]
        BY <2>1, AppendProperties
    <2> HIDE DEF add
    <2> QED BY <2>2, OwnRange
<1>5. ASSUME NEW r \in Row
      PROVE  /\ next[r][k] = v(r) /\ \A j \in 1 .. Len(its) : next[r][j] = rows[r][j]
    BY DEF Widens
<1> HIDE DEF add
<1>6. Shape(add, next)
    BY <1>4 DEF Shape, Widens
\* The item is new, and no loss of it has been read.
<1>7. ASSUME NEW x \in Int, x >= -1 \/ x = o, NEW p \in 1 .. n
      PROVE  ~IsLoss(s, p, e, i, x)
    <2> SUFFICES ASSUME IsLoss(s, p, e, i, x) PROVE FALSE
        OBVIOUS
    <2>1. \E q \in 1 .. p : IsLoss(s, q, e, i, o)
        <3>1. CASE x = o
            BY <3>1
        <3>2. CASE x # o
            BY <1>7, <3>2, OpenedBefore
        <3> QED BY <3>1, <3>2
    <2>2. PICK q \in 1 .. p : IsLoss(s, q, e, i, o)
        BY <2>1
    <2>3. q = n + 1
        BY <2>2, OneRecord
    <2> QED BY <2>2, <2>3
<1>8. o \in Int
    BY DEF mean_idx, tiv_idx
<1>9. \A j \in 1 .. Len(its) : its[j] # i
    BY <1>3, <1>7, <1>8 DEF Opened
<1>10. Opened(s, o, e, add, n + 1)
    <2>1. ASSUME NEW j \in 1 .. Len(add), NEW m \in 1 .. Len(add), add[j] = add[m]
          PROVE  j = m
        <3>1. \A z \in 1 .. Len(add) : z \in 1 .. Len(its) \/ z = k
            BY <1>4
        <3>2. CASE j \in 1 .. Len(its) /\ m \in 1 .. Len(its)
            BY <1>3, <1>4, <2>1, <3>2 DEF Opened
        <3>3. CASE ~(j \in 1 .. Len(its) /\ m \in 1 .. Len(its))
            <4>1. add[k] = i /\ \A z \in 1 .. Len(its) : add[z] # i
                BY <1>4, <1>9
            <4> QED BY <2>1, <3>1, <3>3, <4>1
        <3> QED BY <3>2, <3>3
    <2>2. ASSUME NEW j \in 1 .. Len(add)
          PROVE  \E p \in 1 .. n + 1 : IsLoss(s, p, e, add[j], o)
        <3>1. CASE j \in 1 .. Len(its)
            BY <1>2, <1>3, <1>4, <3>1 DEF Opened
        <3>2. CASE j \notin 1 .. Len(its)
            BY <1>2, <1>4, <3>2
        <3> QED BY <3>1, <3>2
    <2>3. ASSUME NEW p \in Records(s), p <= n + 1, s[p][2] = o, s[HeadOf(s, p)][2] = e
          PROVE  \E j \in 1 .. Len(add) : add[j] = s[HeadOf(s, p)][3]
        <3>1. CASE p = n + 1
            <4>1. add[k] = s[HeadOf(s, p)][3] /\ k \in 1 .. Len(add)
                BY <1>4, <3>1 DEF IsLoss
            <4> QED BY <4>1
        <3>2. CASE p # n + 1
            <4>1. p <= n
                BY <2>3, <3>2 DEF Records
            <4>2. PICK j \in 1 .. Len(its) : its[j] = s[HeadOf(s, p)][3]
                BY <1>3, <2>3, <4>1 DEF Opened
            <4>3. j \in 1 .. Len(add) /\ add[j] = its[j]
                BY <1>4
            <4> QED BY <4>2, <4>3
        <3> QED BY <3>1, <3>2
    <2> QED BY <2>1, <2>2, <2>3 DEF Opened
<1>11. 0 \in Row
    BY ReaderAssumption DEF Row
<1>12. ASSUME NEW j \in 1 .. Len(add)
       PROVE  next[0][j] = gettiv(e, add[j])
    <2>1. CASE j \in 1 .. Len(its)
        BY <1>4, <1>5, <1>11, <2>1 DEF Holds
    <2>2. CASE j \notin 1 .. Len(its)
        BY <1>4, <1>5, <1>11, <2>2
    <2> QED BY <2>1, <2>2
<1>13. ASSUME NEW r \in Row \ {0}, NEW j \in 1 .. Len(add)
       PROVE  Cell(s, e, add[j], r, n + 1, next[r][j])
    <2>1. SidxOf(r) \in Int /\ SidxOf(r) >= -1
        BY ReaderAssumption DEF Row, SidxOf, mean_idx
    <2>2. CASE j \in 1 .. Len(its)
        <3>1. add[j] = its[j] /\ next[r][j] = rows[r][j] /\ its[j] # i
            BY <1>4, <1>5, <1>9, <2>2
        <3>2. Cell(s, e, its[j], r, n, rows[r][j])
            BY <2>2 DEF Holds
        <3>3. ~IsLoss(s, n + 1, e, its[j], SidxOf(r))
            BY <3>1 DEF IsLoss
        <3> QED BY <1>1, <1>2, <3>1, <3>2, <3>3 DEF Cell
    <2>3. CASE j \notin 1 .. Len(its)
        <3>1. j = k /\ add[j] = i /\ next[r][j] = v(r)
            BY <1>4, <1>5, <2>3
        <3>2. \A p \in 1 .. n : ~IsLoss(s, p, e, i, SidxOf(r))
            BY <1>7, <2>1
        <3>3. IsLoss(s, n + 1, e, i, SidxOf(r)) <=> SidxOf(r) = o
            BY DEF IsLoss
        <3> QED BY <1>1, <1>2, <3>1, <3>2, <3>3 DEF Cell
    <2> QED BY <2>2, <2>3
<1> QED BY <1>6, <1>10, <1>12, <1>13 DEF Holds, add

\* A loss of an item that is open goes to its cell.
LEMMA Filled ==
    ASSUME NEW S, NEW s \in Seq(S), NEW o, Framed(s, o),
           NEW e, NEW its, NEW rows, NEW next, NEW n \in Nat,
           Holds(s, o, e, its, rows, n),
           NEW k \in 1 .. Len(its), NEW r \in Row \ {0},
           SidxOf(r) # o, IsLoss(s, n + 1, e, its[k], SidxOf(r)),
           Sets(its, rows, next, r, k, s[n + 1][3])
    PROVE  Holds(s, o, e, its, next, n + 1)
<1> USE DEF Sets
<1>1. \A p \in 1 .. n + 1 : p \in 1 .. n \/ p = n + 1
    OBVIOUS
<1>2. 1 .. n \subseteq 1 .. n + 1 /\ n + 1 \in 1 .. n + 1
    OBVIOUS
<1>3. Shape(its, rows) /\ Opened(s, o, e, its, n)
    BY DEF Holds
<1>4. Shape(its, next)
    BY <1>3 DEF Shape
<1>5. Opened(s, o, e, its, n + 1)
    <2>1. \A j \in 1 .. Len(its) : \E p \in 1 .. n + 1 : IsLoss(s, p, e, its[j], o)
        BY <1>2, <1>3 DEF Opened
    <2>2. ASSUME NEW p \in Records(s), p <= n + 1, s[p][2] = o
          PROVE  p <= n
        BY <2>2 DEF Records, IsLoss
    <2> QED BY <1>3, <2>1, <2>2 DEF Opened
<1>6. \A j \in 1 .. Len(its) : next[0][j] = gettiv(e, its[j])
    <2>1. 0 \in Row
        BY ReaderAssumption DEF Row
    <2> QED BY <2>1 DEF Holds
<1>7. ASSUME NEW x \in Row \ {0}, NEW j \in 1 .. Len(its)
      PROVE  Cell(s, e, its[j], x, n + 1, next[x][j])
    <2>1. Cell(s, e, its[j], x, n, rows[x][j])
        BY DEF Holds
    <2>2. CASE x = r /\ j = k
        <3>1. \A p \in 1 .. n : ~IsLoss(s, p, e, its[k], SidxOf(r))
            BY OneRecord
        <3> QED BY <1>1, <1>2, <2>2, <3>1 DEF Cell
    <2>3. CASE ~(x = r /\ j = k)
        <3>1. next[x][j] = rows[x][j]
            <4>1. CASE x = r
                BY <2>3, <4>1
            <4>2. CASE x # r
                BY <4>2, Zenon
            <4> QED BY <4>1, <4>2
        <3>2. ~IsLoss(s, n + 1, e, its[j], SidxOf(x))
            <4>1. SidxOf(x) = SidxOf(r) => x = r
                <5>1. r \in Nat \ {0} /\ x \in Nat \ {0}
                    BY ReaderAssumption DEF Row
                <5> QED BY <5>1 DEF SidxOf, mean_idx
            <4>2. its[j] = its[k] => j = k
                BY <1>3 DEF Opened
            <4> QED BY <2>3, <4>1, <4>2 DEF IsLoss
        <3> QED BY <1>1, <1>2, <2>1, <3>1, <3>2 DEF Cell
    <2> QED BY <2>2, <2>3
<1> QED BY <1>4, <1>5, <1>6, <1>7 DEF Holds

-----------------------------------------------------------------------------
(* The calls of dofm.                                                       *)
\* One more call of dofm, of an event that has not been calculated.
LEMMA OneMore ==
    ASSUME calculated \in Seq(Range(calculated)), Distinct,
           NEW c, c.event \notin Calculated, calculated' = Append(calculated, c)
    PROVE  /\ calculated' \in Seq(Range(calculated'))
           /\ Distinct' /\ Calculated' = Calculated \cup {c.event}
<1> DEFINE T == Range(calculated) \cup {c}
<1>1. calculated \in Seq(T) /\ c \in T
    OBVIOUS
<1> HIDE DEF T
<1>2. /\ calculated' \in Seq(T) /\ Len(calculated) \in Nat
      /\ Len(calculated') = Len(calculated) + 1
      /\ calculated'[Len(calculated) + 1] = c
      /\ \A n \in 1 .. Len(calculated) : calculated'[n] = calculated[n]
    BY <1>1, AppendProperties
<1>3. \A n \in 1 .. Len(calculated') : calculated'[n] \in Range(calculated')
    BY <1>2, DOMAIN calculated' = 1 .. Len(calculated') DEF Range
<1>4. calculated' \in Seq(Range(calculated'))
    BY <1>2, <1>3
<1>5. Distinct'
  <2> SUFFICES ASSUME NEW m \in 1 .. Len(calculated'), NEW n \in 1 .. Len(calculated'), m < n
               PROVE  calculated'[m].event # calculated'[n].event
      BY DEF Distinct
  <2>1. m \in 1 .. Len(calculated)
      BY <1>2
  <2>2. CASE n = Len(calculated) + 1
      BY <1>2, <2>1, <2>2 DEF Calculated
  <2>3. CASE n # Len(calculated) + 1
      BY <1>2, <2>1, <2>3 DEF Distinct
  <2> QED BY <2>2, <2>3
<1>6. Calculated' = Calculated \cup {c.event}
  <2>1. \A x \in Calculated' : x \in Calculated \cup {c.event}
      BY <1>2 DEF Calculated
  <2>2. \A x \in Calculated : x \in Calculated'
      BY <1>2 DEF Calculated
  <2>3. c.event \in Calculated'
      BY <1>2 DEF Calculated
  <2> QED BY <2>1, <2>2, <2>3
<1> QED BY <1>4, <1>5, <1>6

\* A header is read: its event joins those seen, and was not among them
\* unless it is the current one.
LEMMA HeaderRead ==
    ASSUME Types, LastRead, ReadHeader, stream' = stream
    PROVE  /\ stream[pos + 1][2] \in Nat /\ pos + 1 \in Headers
           /\ Seen' = Seen \cup {stream[pos + 1][2]}
           /\ stream[pos + 1][2] # last_event_id => stream[pos + 1][2] \notin Seen
<1> DEFINE e == stream[pos + 1][2]
<1>1. pos \in Nat /\ Len(stream) \in Nat /\ pos' = pos + 1 /\ pos + 1 \in Headers /\ Headers' = Headers
    BY DEF Types, ReadHeader, Available, NextRecord, Headers, Heads
<1>2. e \in Nat
    BY <1>1 DEF Types, Grouped, Headers, Heads
<1>3. Seen' = Seen \cup {e}
  <2>1. {q \in Headers : q <= pos'} = {q \in Headers : q <= pos} \cup {pos + 1}
      BY <1>1 DEF Headers, Heads
  <2> QED BY <1>1, <2>1 DEF Seen
<1>4. ASSUME e # last_event_id, e \in Seen
      PROVE  FALSE
  <2>1. PICK p \in Headers : p <= pos /\ stream[p][2] = e
      BY <1>4 DEF Seen
  <2>2. PICK q \in Headers : p < q /\ q <= pos /\ stream[q][2] = last_event_id
      BY <1>4, <2>1 DEF LastRead
  <2>3. q < pos + 1
      BY <1>1, <2>2 DEF Headers, Heads
  <2>4. stream[q][2] = stream[p][2]
      BY <1>1, <2>1, <2>2, <2>3 DEF Types, Grouped, Headers, Heads
  <2> QED BY <1>4, <2>1, <2>2, <2>4
<1> QED BY <1>1, <1>2, <1>3, <1>4

-----------------------------------------------------------------------------
\* ReadHeader keeps IInv.
LEMMA ReadHeaderStep ==
    ASSUME IInv, ReadHeader, UNCHANGED <<stream, closed, isOldGULStreamType_>>
    PROVE  IInv'
<1> DEFINE e == stream[pos + 1][2]
<1>1. /\ e \in Nat /\ pos + 1 \in Headers /\ Seen' = Seen \cup {e}
      /\ e # last_event_id => e \notin Seen
    BY HeaderRead DEF IInv
<1>2. /\ pos \in Nat /\ Len(stream) \in Nat /\ pos' = pos + 1 /\ pos + 1 <= Len(stream)
      /\ pc = "header" /\ pc' = "record" /\ gh'[1] = e /\ Headers' = Headers
    BY DEF IInv, Types, ReadHeader, Available, NextRecord, Headers, Heads
<1>3. last_event_id' = e /\ last_event_id' # -1
    BY <1>1, <1>2 DEF ReadHeader
<1>4. /\ calculated' \in Seq(Range(calculated')) /\ Distinct'
      /\ Calculated' = Seen' \ {e}
  <2>1. CASE e = last_event_id \/ last_event_id = -1
    <3>1. calculated' = calculated
        BY <1>1, <1>2, <2>1 DEF ReadHeader
    <3>2. Calculated' = Calculated /\ Distinct'
        BY <3>1 DEF Calculated, Distinct, IInv
    <3>3. Calculated = Seen' \ {e}
        BY <1>1, <1>2, <2>1 DEF IInv, Given, LastRead
    <3> QED BY <3>1, <3>2, <3>3 DEF IInv, Types
  <2>2. CASE e # last_event_id /\ last_event_id # -1
    <3> DEFINE c == [event |-> last_event_id, items |-> items, guls |-> event_guls]
    <3>1. calculated' = Append(calculated, c) /\ c.event = last_event_id
        BY <1>2, <2>2 DEF ReadHeader, dofm
    <3>2. c.event \notin Calculated /\ Calculated = Seen \ {last_event_id}
        BY <1>2, <3>1 DEF IInv, Given
    <3> HIDE DEF c
    <3>3. /\ calculated' \in Seq(Range(calculated')) /\ Distinct'
          /\ Calculated' = Calculated \cup {c.event}
        BY <3>1, <3>2, OneMore DEF IInv, Types
    <3>4. last_event_id \in Seen
        BY <2>2 DEF IInv, LastRead
    <3> QED BY <1>1, <2>2, <3>1, <3>2, <3>3, <3>4
  <2> QED BY <2>1, <2>2
<1>5. Types'
    BY <1>1, <1>2, <1>3, <1>4 DEF IInv, Types, Opening
<1>6. LastRead'
  <2>1. \A p \in Headers : p <= pos + 1 /\ stream[p][2] # e => p < pos + 1
      BY <1>1, <1>2 DEF Headers, Heads
  <2>2. last_event_id' \in Seen'
      BY <1>1, <1>3
  <2> QED BY <1>1, <1>2, <1>3, <2>1, <2>2 DEF LastRead
<1> QED BY <1>2, <1>3, <1>4, <1>5, <1>6 DEF IInv, Given

\* The end of the stream keeps IInv, wherever it comes.
LEMMA EndStep ==
    ASSUME IInv, EndAtHeader \/ EndAtRecord, UNCHANGED <<stream, closed, isOldGULStreamType_>>
    PROVE  IInv'
<1>1. /\ pos = Len(stream) /\ pc # "done" /\ pc' = "done" /\ pos' = pos
      /\ last_event_id' = last_event_id
    BY DEF EndAtHeader, EndAtRecord, EndOfFile
<1>2. Seen' = Seen /\ Headers' = Headers
    BY <1>1 DEF Seen, Headers, Heads
<1>3. /\ calculated' \in Seq(Range(calculated')) /\ Distinct'
      /\ Calculated' = Seen
  <2>1. CASE last_event_id = -1
    <3>1. calculated' = calculated
        BY <2>1 DEF IInv, LastRead, EndAtHeader, EndAtRecord
    <3>2. Calculated' = Calculated /\ Distinct'
        BY <3>1 DEF Calculated, Distinct, IInv
    <3>3. Calculated = Seen
        BY <1>1, <2>1 DEF IInv, Given, LastRead
    <3> QED BY <3>1, <3>2, <3>3 DEF IInv, Types
  <2>2. CASE last_event_id # -1
    <3> DEFINE c == [event |-> last_event_id, items |-> items, guls |-> event_guls]
    <3>1. calculated' = Append(calculated, c) /\ c.event = last_event_id
        BY <2>2 DEF EndAtHeader, EndAtRecord, dofm
    <3>2. c.event \notin Calculated /\ Calculated = Seen \ {last_event_id}
        BY <1>1, <3>1 DEF IInv, Given
    <3> HIDE DEF c
    <3>3. /\ calculated' \in Seq(Range(calculated')) /\ Distinct'
          /\ Calculated' = Calculated \cup {c.event}
        BY <3>1, <3>2, OneMore DEF IInv, Types
    <3>4. last_event_id \in Seen
        BY <2>2 DEF IInv, LastRead
    <3> QED BY <3>1, <3>2, <3>3, <3>4
  <2> QED BY <2>1, <2>2
<1>4. Types'
    BY <1>1, <1>3 DEF IInv, Types, Opening
<1>5. LastRead'
    BY <1>1, <1>2 DEF IInv, LastRead
<1> QED BY <1>1, <1>2, <1>3, <1>4, <1>5 DEF IInv, Given

\* ReadRecord keeps IInv.
LEMMA ReadRecordStep ==
    ASSUME IInv, ReadRecord, UNCHANGED <<stream, closed, isOldGULStreamType_>>
    PROVE  IInv'
<1>1. /\ pos \in Nat /\ Len(stream) \in Nat /\ pos' = pos + 1 /\ pos + 1 <= Len(stream)
      /\ pc = "record" /\ pc' \in {"header", "record"} /\ pos + 1 \notin Headers
      /\ last_event_id' = last_event_id /\ calculated' = calculated
      /\ Headers' = Headers
    BY DEF IInv, Types, ReadRecord, Available, NextRecord, Headers, Heads
<1>2. \A p \in Headers : p <= pos' <=> p <= pos
    BY <1>1 DEF Headers, Heads
<1>3. Seen' = Seen
    BY <1>1, <1>2 DEF Seen
<1>4. Calculated' = Calculated /\ Distinct'
    BY <1>1 DEF Calculated, Distinct, IInv
<1>5. Types'
    BY <1>1 DEF IInv, Types, Opening
<1>6. LastRead'
    BY <1>1, <1>2, <1>3 DEF IInv, LastRead
<1> QED BY <1>1, <1>3, <1>4, <1>5, <1>6 DEF IInv, Given

\* A step that leaves the reader alone keeps IInv.
LEMMA StutterStep ==
    ASSUME IInv, UNCHANGED svars
    PROVE  IInv'
<1>1. /\ stream' = stream /\ pos' = pos /\ pc' = pc /\ last_event_id' = last_event_id
      /\ calculated' = calculated /\ isOldGULStreamType_' = isOldGULStreamType_
    BY DEF svars, rvars
<1>2. Headers' = Headers /\ Calculated' = Calculated
    BY <1>1 DEF Headers, Heads, Calculated
<1>3. Seen' = Seen
    BY <1>1, <1>2 DEF Seen
<1>4. Types' /\ Distinct'
    BY <1>1 DEF IInv, Types, Opening, Distinct
<1>5. LastRead'
    BY <1>1, <1>2, <1>3 DEF IInv, LastRead
<1>6. Given'
    BY <1>1, <1>2, <1>3 DEF IInv, Given
<1> QED BY <1>4, <1>5, <1>6 DEF IInv

\* IInv holds before the first header.
LEMMA InitHolds ==
    ASSUME Start
    PROVE  IInv
<1>1. /\ pos = 0 /\ pc = "header" /\ last_event_id = -1 /\ calculated = <<>>
      /\ stream \in Seq(Range(stream)) /\ Grouped(stream) /\ Framed(stream, Opening)
      /\ isOldGULStreamType_ \in BOOLEAN
    BY DEF Start, ReaderInit
<1>2. Len(stream) \in Nat /\ Len(calculated) = 0 /\ calculated \in Seq(Range(calculated))
    BY <1>1
<1>3. Seen = {} /\ Calculated = {}
    BY <1>1, <1>2 DEF Seen, Calculated, Headers, Heads
<1>4. Types /\ Distinct
    BY <1>1, <1>2 DEF Types, Distinct
<1>5. LastRead /\ Given
    BY <1>1, <1>2, <1>3 DEF LastRead, Given, Headers, Heads
<1> QED BY <1>4, <1>5 DEF IInv

-----------------------------------------------------------------------------
(* The matrix in each step.                                                 *)

\* One cell of one row is set.
LEMMA PutCell ==
    ASSUME NEW rows, rows = [x \in Row |-> rows[x]], NEW r \in Row, NEW k, NEW v,
           NEW q, q = Put(rows, r, k, v)
    PROVE  /\ q = [x \in Row |-> q[x]]
           /\ q[r] = SetAt(rows[r], k, v)
           /\ \A x \in Row : x # r => q[x] = rows[x]
<1>1. q = [rows EXCEPT ![r] = SetAt(rows[r], k, v)]
    BY DEF Put, SetAt
<1> DEFINE w == SetAt(rows[r], k, v)
<1> HIDE DEF w
<1>2. q = [rows EXCEPT ![r] = w]
    BY <1>1 DEF w
<1> QED BY <1>2 DEF w

\* Cells of event_guls after its rows have been resized and the new cells set.
LEMMA ResizedRow ==
    ASSUME NEW rows, NEW q, q = Resized(rows)
    PROVE  q = [r \in Row |-> q[r]] /\ \A r \in Row : q[r] = Widened(rows[r])
BY DEF Resized, Widened

\* A new item adds its column and leaves the others as they are.
LEMMA ColumnAdded ==
    ASSUME NEW its, NEW rows, Shape(its, rows), NEW k, k = Len(its) + 1,
           NEW tiv, NEW loss, NEW o \in {mean_idx, tiv_idx}, NEW next,
           next = IF o = mean_idx THEN Put(Put(Resized(rows), 0, k, tiv), 1, k, loss)
                  ELSE Put(Resized(rows), 0, k, tiv)
    PROVE  Widens(its, rows, next, k, o, tiv, loss)
<1>1. 0 \in Row /\ 1 \in Row
    BY ReaderAssumption DEF Row
<1>2. PICK wide : wide = Resized(rows)
    OBVIOUS
<1>3. wide = [r \in Row |-> wide[r]] /\ \A r \in Row : wide[r] = Widened(rows[r])
    BY <1>2, ResizedRow
<1>4. PICK one : one = Put(wide, 0, k, tiv)
    OBVIOUS
<1>5. /\ one = [r \in Row |-> one[r]] /\ one[0] = SetAt(wide[0], k, tiv)
      /\ \A r \in Row : r # 0 => one[r] = wide[r]
    BY <1>1, <1>3, <1>4, PutCell
<1>6. PICK two : two = Put(one, 1, k, loss)
    OBVIOUS
<1>7. /\ two = [r \in Row |-> two[r]] /\ two[1] = SetAt(one[1], k, loss)
      /\ \A r \in Row : r # 1 => two[r] = one[r]
    BY <1>1, <1>5, <1>6, PutCell
<1>8. next = IF o = mean_idx THEN two ELSE one
    BY <1>2, <1>4, <1>6
<1>9. ASSUME NEW r \in Row
      PROVE  /\ Len(its) \in Nat /\ Len(wide[r]) = k /\ k \in 1 .. Len(wide[r])
             /\ wide[r] \in Seq(Range(wide[r])) /\ wide[r][k] = NoLoss
             /\ \A j \in 1 .. Len(its) : j \in 1 .. k /\ j # k /\ wide[r][j] = rows[r][j]
    <2>1. rows[r] \in Seq(Range(rows[r])) /\ Len(rows[r]) = Len(its)
        BY DEF Shape
    <2>2. /\ wide[r] \in Seq(Range(wide[r])) /\ Len(rows[r]) \in Nat
          /\ Len(wide[r]) = Len(rows[r]) + 1 /\ wide[r][Len(rows[r]) + 1] = NoLoss
          /\ \A j \in 1 .. Len(rows[r]) : wide[r][j] = rows[r][j]
        BY <1>3, <2>1, WidenedIs
    <2> QED BY <2>1, <2>2
<1> DEFINE Column(q, r, v) ==
               /\ q \in Seq(Range(q)) /\ Len(q) = k /\ q[k] = v
               /\ \A j \in 1 .. Len(its) : q[j] = rows[r][j]
<1>10. ASSUME NEW r \in Row, NEW v
       PROVE  Column(SetAt(wide[r], k, v), r, v)
    <2>1. PICK q : q = SetAt(wide[r], k, v)
        OBVIOUS
    <2>2. /\ q \in Seq(Range(q)) /\ Len(q) = Len(wide[r]) /\ q[k] = v
          /\ \A j \in 1 .. Len(wide[r]) : j # k => q[j] = wide[r][j]
        BY <1>9, <2>1, SetAtIs
    <2>3. Column(q, r, v)
        BY <1>9, <2>2
    <2> HIDE DEF Column
    <2> QED BY <2>1, <2>3
<1>11. ASSUME NEW r \in Row
       PROVE  Column(next[r], r, IF r = 0 THEN tiv ELSE IF o = mean_idx /\ r = 1 THEN loss ELSE NoLoss)
    <2>1. CASE r # 0 /\ ~(o = mean_idx /\ r = 1)
        <3>1. next[r] = wide[r]
            BY <1>5, <1>7, <1>8, <2>1
        <3> QED BY <1>9, <2>1, <3>1
    <2> HIDE DEF Column
    <2>2. CASE r = 0
        <3>1. next[r] = one[r]
            BY <1>7, <1>8, <2>2
        <3>2. one[r] = SetAt(wide[r], k, tiv)
            BY <1>5, <2>2
        <3> QED BY <1>10, <2>2, <3>1, <3>2
    <2>3. CASE r # 0 /\ o = mean_idx /\ r = 1
        <3>1. next[r] = two[1] /\ one[r] = wide[r]
            BY <1>5, <1>8, <2>3
        <3>2. two[1] = SetAt(wide[r], k, loss)
            BY <1>7, <2>3, <3>1
        <3> QED BY <1>10, <2>3, <3>1, <3>2
    <2> QED BY <2>1, <2>2, <2>3
<1>12. next = [r \in Row |-> next[r]]
    BY <1>5, <1>7, <1>8
<1>13. \A r \in Row : r # 0 => (o = mean_idx /\ r = 1 <=> SidxOf(r) = o)
    BY ReaderAssumption DEF Row, SidxOf, mean_idx, tiv_idx
<1> QED BY <1>11, <1>12, <1>13 DEF Widens

\* A loss sets its cell and no other.
LEMMA CellSet ==
    ASSUME NEW its, NEW rows, Shape(its, rows), NEW k \in 1 .. Len(its), NEW r \in Row, NEW loss,
           NEW next, next = Put(rows, r, k, loss)
    PROVE  Sets(its, rows, next, r, k, loss)
<1>1. /\ next = [x \in Row |-> next[x]] /\ next[r] = SetAt(rows[r], k, loss)
      /\ \A x \in Row : x # r => next[x] = rows[x]
    <2>1. rows = [x \in Row |-> rows[x]]
        BY DEF Shape
    <2> QED BY <2>1, PutCell
<1>2. PICK w : w = rows[r]
    OBVIOUS
<1>3. PICK z : z = next[r]
    OBVIOUS
<1>4. w \in Seq(Range(w)) /\ Len(w) = Len(its)
    BY <1>2 DEF Shape
<1>5. /\ z \in Seq(Range(z)) /\ Len(z) = Len(w) /\ z[k] = loss
      /\ \A m \in 1 .. Len(w) : m # k => z[m] = w[m]
    <2>1. z = SetAt(w, k, loss) /\ k \in 1 .. Len(w)
        BY <1>1, <1>2, <1>3, <1>4
    <2> QED BY <1>4, <2>1, SetAtIs
<1> QED BY <1>1, <1>2, <1>3, <1>4, <1>5 DEF Sets

\* What is added to calculated is the matrix read so far.
LEMMA EarlierStep ==
    ASSUME IInv, NEW n,
           \A m \in 1 .. Len(calculated) :
               LET c == calculated[m] IN Holds(stream, Opening, c.event, c.items, c.guls, n),
           calculated' = calculated
               \/ (calculated' = dofm
                    /\ Holds(stream, Opening, last_event_id, items, event_guls, n)),
           stream' = stream, isOldGULStreamType_' = isOldGULStreamType_, pos' = n
    PROVE  Earlier'
<1>1. Opening' = Opening
    BY DEF Opening
<1>2. CASE calculated' = calculated
    BY <1>1, <1>2 DEF Earlier
<1>3. CASE calculated' = dofm /\ Holds(stream, Opening, last_event_id, items, event_guls, n)
    <2> DEFINE c == [event |-> last_event_id, items |-> items, guls |-> event_guls]
               T == Range(calculated) \cup {c}
    <2>1. calculated \in Seq(T) /\ c \in T
        BY DEF IInv, Types
    <2>2. calculated' = Append(calculated, c)
        BY <1>3 DEF dofm
    <2>3. c.event = last_event_id /\ c.items = items /\ c.guls = event_guls
        OBVIOUS
    <2> HIDE DEF T, c
    <2>4. /\ Len(calculated) \in Nat /\ Len(calculated') = Len(calculated) + 1
          /\ calculated'[Len(calculated) + 1] = c
          /\ \A m \in 1 .. Len(calculated) : calculated'[m] = calculated[m]
        BY <2>1, <2>2, AppendProperties
    <2> SUFFICES ASSUME NEW m \in 1 .. Len(calculated')
                 PROVE  Holds(stream, Opening, calculated'[m].event, calculated'[m].items,
                              calculated'[m].guls, n)
        BY <1>1 DEF Earlier
    <2>5. CASE m \in 1 .. Len(calculated)
        BY <2>4, <2>5
    <2>6. CASE m \notin 1 .. Len(calculated)
        <3>1. m = Len(calculated) + 1
            BY <2>4, <2>6
        <3> QED BY <1>3, <2>3, <2>4, <3>1
    <2> QED BY <2>5, <2>6
<1> QED BY <1>2, <1>3

\* ReadHeader keeps MatrixInv.
LEMMA MatrixHeader ==
    ASSUME IInv, MatrixInv, ReadHeader, UNCHANGED <<stream, closed, isOldGULStreamType_>>
    PROVE  MatrixInv'
<1> DEFINE e == stream[pos + 1][2]
           i == stream[pos + 1][3]
<1>1. /\ e \in Nat /\ pos + 1 \in Heads(stream) /\ Seen' = Seen \cup {e}
      /\ e # last_event_id => e \notin Seen
    BY HeaderRead DEF IInv, Headers
<1>2. /\ stream \in Seq(Range(stream)) /\ Framed(stream, Opening)
      /\ pos \in Nat /\ Len(stream) \in Nat /\ pos' = pos + 1 /\ pos + 1 \in 1 .. Len(stream)
      /\ pc' = "record" /\ gh' = <<e, i>> /\ stream' = stream /\ Opening' = Opening
    BY DEF IInv, Types, ReadHeader, Available, NextRecord, Opening
<1>3. pos + 1 \notin Records(stream) /\ HeadOf(stream, pos + 1) = pos + 1
    BY <1>1, <1>2, Heading DEF Records
<1>4. ASSUME NEW x, NEW its, NEW rows, Holds(stream, Opening, x, its, rows, pos)
      PROVE  Holds(stream, Opening, x, its, rows, pos + 1)
    BY <1>2, <1>3, <1>4, Kept DEF IsLoss
<1>5. \A p \in Records(stream) : p <= pos + 1 =>
          /\ p \in 1 .. pos
          /\ HeadOf(stream, p) \in Heads(stream) /\ HeadOf(stream, p) \in 1 .. pos
    <2> TAKE p \in Records(stream)
    <2> HAVE p <= pos + 1
    <2>1. p \in 1 .. Len(stream) /\ p # pos + 1
        BY <1>3 DEF Records
    <2>2. HeadOf(stream, p) \in Heads(stream) /\ HeadOf(stream, p) \in 1 .. p
        BY <1>2, <2>1, Heading
    <2> QED BY <1>2, <2>1, <2>2
<1>6. Earlier'
    <2>1. calculated' = calculated
              \/ (calculated' = dofm
                   /\ Holds(stream, Opening, last_event_id, items, event_guls, pos + 1))
        BY <1>4 DEF ReadHeader, MatrixInv, Matrix
    <2>2. \A m \in 1 .. Len(calculated) :
               LET c == calculated[m] IN Holds(stream, Opening, c.event, c.items, c.guls, pos + 1)
        BY <1>4 DEF MatrixInv, Earlier
    <2> QED BY <1>2, <2>1, <2>2, EarlierStep
<1>7. CASE e = last_event_id
    <2>1. UNCHANGED <<items, event_guls, last_event_id>>
        BY <1>2, <1>7 DEF ReadHeader
    <2>2. Matrix'
        BY <1>2, <1>4, <2>1 DEF MatrixInv, Matrix
    <2>3. ASSUME NEW k \in 1 .. Len(items) PROVE items[k] # i
        <3>1. PICK p \in 1 .. pos : IsLoss(stream, p, last_event_id, items[k], Opening)
            BY DEF MatrixInv, Matrix, Holds, Opened
        <3>2. HeadOf(stream, p) \in Heads(stream) /\ HeadOf(stream, p) \in 1 .. pos
            BY <1>2, <1>5, <3>1 DEF IsLoss
        <3>3. HeadOf(stream, p) # pos + 1
            BY <1>2, <3>2
        <3>4. stream[HeadOf(stream, p)][2] = e /\ stream[HeadOf(stream, p)][3] = items[k]
            BY <1>7, <3>1 DEF IsLoss
        <3> QED BY <1>1, <1>2, <3>2, <3>3, <3>4 DEF Framed
    <2>4. Current'
        BY <1>2, <1>3, <1>7, <2>1, <2>3 DEF Current
    <2> QED BY <1>6, <2>2, <2>4 DEF MatrixInv
<1>8. CASE e # last_event_id
    <2>1. items' = <<>> /\ event_guls' = [r \in Row |-> <<>>] /\ last_event_id' = e
        BY <1>2, <1>8 DEF ReadHeader
    <2>2. Shape(<<>>, [r \in Row |-> <<>>])
        BY DEF Shape
    <2>3. ASSUME NEW p \in Records(stream), p <= pos + 1
          PROVE  stream[HeadOf(stream, p)][2] # e
        BY <1>1, <1>5, <1>8, <2>3 DEF Seen, Headers
    <2>4. Opened(stream, Opening, e, <<>>, pos + 1)
        BY <2>3 DEF Opened
    <2>5. Holds(stream, Opening, e, <<>>, [r \in Row |-> <<>>], pos + 1)
        BY <2>2, <2>4 DEF Holds
    <2>6. Matrix'
        BY <1>2, <2>1, <2>5 DEF Matrix
    <2>7. Current'
        BY <1>2, <1>3, <2>1 DEF Current
    <2> QED BY <1>6, <2>6, <2>7 DEF MatrixInv
<1> QED BY <1>7, <1>8

\* The end of the stream keeps MatrixInv.
LEMMA MatrixEnd ==
    ASSUME IInv, MatrixInv, EndAtHeader \/ EndAtRecord,
           UNCHANGED <<stream, closed, isOldGULStreamType_>>
    PROVE  MatrixInv'
<1>1. /\ pos' = pos /\ pc' = "done" /\ UNCHANGED <<last_event_id, items, event_guls>>
      /\ Opening' = Opening
    BY DEF EndAtHeader, EndAtRecord, Opening
<1>2. Matrix' /\ Current'
    BY <1>1 DEF MatrixInv, Matrix, Current
<1>3. calculated' = calculated \/ calculated' = dofm
    BY DEF EndAtHeader, EndAtRecord
<1>4. Earlier'
    BY <1>1, <1>3, EarlierStep DEF MatrixInv, Matrix, Earlier
<1> QED BY <1>2, <1>4 DEF MatrixInv

\* ReadRecord keeps MatrixInv.
LEMMA MatrixRecord ==
    ASSUME IInv, MatrixInv, ReadRecord, UNCHANGED <<stream, closed, isOldGULStreamType_>>
    PROVE  MatrixInv'
<1> DEFINE e == last_event_id
           i == gh[2]
           sidx == stream[pos + 1][2]
           loss == stream[pos + 1][3]
           h == HeadOf(stream, pos + 1)
<1>1. /\ stream \in Seq(Range(stream)) /\ Framed(stream, Opening) /\ Len(stream) \in Nat
      /\ pos \in Nat /\ pos + 1 \in 1 .. Len(stream) /\ pos' = pos + 1 /\ stream' = stream
      /\ pc = "record" /\ Opening' = Opening /\ pos + 1 \in Records(stream)
      /\ UNCHANGED <<gh, last_event_id, calculated, isOldGULStreamType_>>
    BY DEF IInv, Types, ReadRecord, Available, NextRecord, Opening, Records, Heads
<1>2. /\ h = HeadOf(stream, pos) /\ h \in Heads(stream)
      /\ gh = <<stream[h][2], stream[h][3]>> /\ stream[h][2] = e /\ stream[h][3] = i
    <2>1. /\ gh = <<stream[HeadOf(stream, pos)][2], stream[HeadOf(stream, pos)][3]>>
          /\ gh[1] = last_event_id
        BY <1>1 DEF MatrixInv, Current
    <2>2. HeadOf(stream, pos + 1 - 1) = h /\ h \in Heads(stream)
        BY <1>1, Heading
    <2>3. pos + 1 - 1 = pos
        BY <1>1
    <2> QED BY <2>1, <2>2, <2>3
<1>3. /\ sidx \in -3 .. SampleSize
      /\ sidx = tiv_idx => loss = gettiv(e, i)
    BY <1>1, <1>2 DEF Framed, Records
<1>4. /\ IsLoss(stream, pos + 1, e, i, sidx)
      /\ \A f, j, x : IsLoss(stream, pos + 1, f, j, x) => f = e /\ j = i /\ x = sidx
    BY <1>1, <1>2 DEF IsLoss
<1>5. /\ Opening \in {mean_idx, tiv_idx}
      /\ isOldGULStreamType_ <=> Opening = mean_idx
      /\ OpensItem(sidx) <=> sidx = Opening
    BY DEF Opening, OpensItem, IInv, Types, mean_idx, tiv_idx
<1>6. Shape(items, event_guls)
    BY DEF MatrixInv, Matrix, Holds
<1>7. \A r \in Row \ {0} : /\ SidxOf(r) \in Int /\ SidxOf(r) >= -1 /\ SidxOf(r) # 0
                           /\ SidxOf(r) = -1 <=> r = 1
    BY ReaderAssumption DEF Row, SidxOf, mean_idx
<1>8. Earlier'
    <2>1. ASSUME NEW m \in 1 .. Len(calculated)
          PROVE  LET c == calculated[m]
                 IN  Holds(stream, Opening, c.event, c.items, c.guls, pos + 1)
        <3> DEFINE c == calculated[m]
        <3>1. c.event # e
            BY <1>1 DEF IInv, Given, Calculated
        <3>2. Holds(stream, Opening, c.event, c.items, c.guls, pos)
            BY DEF MatrixInv, Earlier
        <3> HIDE DEF c
        <3>3. Holds(stream, Opening, c.event, c.items, c.guls, pos + 1)
            BY <1>1, <1>4, <3>1, <3>2, Kept
        <3> QED BY <3>3 DEF c
    <2> QED BY <1>1, <2>1, EarlierStep
\* The record is the terminator, or a special sample that fmcalc has no use for.
<1>9. CASE sidx # Opening /\ (sidx = 0 \/ sidx < -1)
    <2>1. UNCHANGED <<items, event_guls, current_item_index>>
        BY <1>3, <1>5, <1>9 DEF ReadRecord, NextRecord, EndsBlock, mean_idx
    <2>2. /\ \A j : ~IsLoss(stream, pos + 1, e, j, Opening)
          /\ \A j : \A r \in Row \ {0} : ~IsLoss(stream, pos + 1, e, j, SidxOf(r))
        BY <1>3, <1>4, <1>7, <1>9
    <2>3. Holds(stream, Opening, e, items, event_guls, pos + 1)
        BY <1>1, <2>2, Kept DEF MatrixInv, Matrix
    <2>4. Matrix'
        BY <1>1, <2>1, <2>3 DEF Matrix
    <2>5. Current'
        BY <1>1, <1>2, <2>1 DEF MatrixInv, Current
    <2> QED BY <1>8, <2>4, <2>5 DEF MatrixInv
\* The record opens the item.
<1>10. CASE sidx = Opening
    <2> DEFINE k == Len(items) + 1
               tiv == IF Opening = mean_idx THEN gettiv(e, i) ELSE loss
               wide == Put(Resized(event_guls), 0, k, tiv)
    <2>1. sidx # 0 /\ (sidx >= mean_idx <=> Opening = mean_idx)
          /\ (Opening = mean_idx => RowOf(sidx) = 1)
        BY <1>5, <1>10 DEF mean_idx, tiv_idx, RowOf
    <2>2. /\ items' = Append(items, i) /\ current_item_index' = k
          /\ event_guls' = IF Opening = mean_idx THEN Put(wide, 1, k, loss) ELSE wide
        BY <1>5, <1>10, <2>1 DEF ReadRecord, NextRecord, EndsBlock
    <2>3. tiv = gettiv(e, i)
        BY <1>3, <1>5, <1>10
    <2>4. k \in Nat /\ k = Len(items) + 1
        BY <1>6 DEF Shape
    <2>5. PICK next : next = IF Opening = mean_idx THEN Put(wide, 1, k, loss) ELSE wide
        OBVIOUS
    <2> HIDE DEF k, tiv
    <2>6. Widens(items, event_guls, next, k, Opening, tiv, loss)
        BY <1>5, <1>6, <2>4, <2>5, ColumnAdded
    <2> HIDE DEF wide
    <2>9. Holds(stream, Opening, e, Append(items, i), next, pos + 1)
        <3>1. /\ IsLoss(stream, pos + 1, e, i, Opening)
              /\ Holds(stream, Opening, e, items, event_guls, pos)
            BY <1>4, <1>10 DEF MatrixInv, Matrix
        <3>2. Widens(items, event_guls, next, k, Opening, gettiv(e, i), loss)
            BY <2>3, <2>6
        <3>3. stream \in Seq(Range(stream)) /\ Framed(stream, Opening) /\ pos \in Nat
            BY <1>1
        <3> QED BY <1>5, <2>4, <3>1, <3>2, <3>3, NewColumn
    <2>10. Matrix'
        BY <1>1, <2>2, <2>5, <2>9 DEF Matrix
    <2>11. Current'
        <3>1. \A a, b \in 1 .. Len(items') : items'[a] = items'[b] => a = b
            BY <2>2, <2>9 DEF Holds, Opened
        <3>2. k \in 1 .. Len(items') /\ items'[k] = i
            <4> DEFINE U == Range(items) \cup {i}
            <4>1. items \in Seq(U) /\ i \in U
                BY <1>6 DEF Shape
            <4> HIDE DEF U
            <4> QED BY <2>2, <2>4, <4>1, AppendProperties DEF k
        <3>3. \A a \in 1 .. Len(items') : items'[a] = gh'[2] => current_item_index' = a
            BY <1>1, <2>2, <3>1, <3>2
        <3> QED BY <1>1, <1>2, <3>3 DEF Current
    <2> QED BY <1>8, <2>10, <2>11 DEF MatrixInv
\* The record is a loss of an item that has been opened.
<1>11. CASE sidx # Opening /\ ~(sidx = 0 \/ sidx < -1)
    <2> DEFINE k == current_item_index
               r == RowOf(sidx)
    <2>1. sidx >= -1 /\ sidx # 0 /\ sidx \in Int
        BY <1>3, <1>11
    <2>2. UNCHANGED <<items, current_item_index>> /\ event_guls' = Put(event_guls, r, k, loss)
        BY <1>5, <1>11, <2>1 DEF ReadRecord, NextRecord, EndsBlock, mean_idx
    <2>3. r \in Row \ {0} /\ SidxOf(r) = sidx
        BY <1>3, <2>1, ReaderAssumption DEF RowOf, Row, SidxOf, mean_idx
    <2>4. PICK q \in 1 .. pos + 1 : IsLoss(stream, q, e, i, Opening)
        BY <1>1, <1>4, <2>1, OpenedBefore
    <2>5. q \in 1 .. pos /\ q \in Records(stream)
        <3>1. q # pos + 1
            BY <1>4, <1>11, <2>4
        <3> QED BY <1>1, <2>4, <3>1 DEF IsLoss
    <2>6. PICK j \in 1 .. Len(items) : items[j] = i
        BY <2>4, <2>5 DEF MatrixInv, Matrix, Holds, Opened, IsLoss
    <2>7. k \in 1 .. Len(items) /\ items[k] = i
        BY <1>1, <2>6 DEF MatrixInv, Current
    <2>8. PICK next : next = Put(event_guls, r, k, loss)
        OBVIOUS
    <2> HIDE DEF r, k
    <2>9. r \in Row
        BY <2>3
    <2>10. Sets(items, event_guls, next, r, k, loss)
        BY <1>6, <2>7, <2>8, <2>9, CellSet
    <2>11. Holds(stream, Opening, e, items, next, pos + 1)
        <3>1. /\ Holds(stream, Opening, e, items, event_guls, pos)
              /\ SidxOf(r) # Opening /\ IsLoss(stream, pos + 1, e, items[k], SidxOf(r))
            BY <1>4, <1>11, <2>3, <2>7 DEF MatrixInv, Matrix
        <3>2. stream \in Seq(Range(stream)) /\ Framed(stream, Opening) /\ pos \in Nat
            BY <1>1
        <3>3. k \in 1 .. Len(items) /\ r \in Row \ {0}
            BY <2>3, <2>7
        <3> QED BY <2>10, <3>1, <3>2, <3>3, Filled
    <2>12. Matrix'
        BY <1>1, <2>2, <2>8, <2>11 DEF Matrix
    <2>13. Current'
        BY <1>1, <1>2, <2>2 DEF MatrixInv, Current
    <2> QED BY <1>8, <2>12, <2>13 DEF MatrixInv
<1> QED BY <1>9, <1>10, <1>11

\* A step that leaves the reader alone keeps MatrixInv.
LEMMA MatrixStutter ==
    ASSUME MatrixInv, UNCHANGED svars
    PROVE  MatrixInv'
<1>1. /\ UNCHANGED <<stream, isOldGULStreamType_>> /\ UNCHANGED rvars /\ Opening' = Opening
    BY DEF svars, Opening
<1>2. Matrix' /\ Current' /\ Earlier'
    BY <1>1 DEF MatrixInv, Matrix, Current, Earlier, rvars
<1> QED BY <1>2 DEF MatrixInv

\* MatrixInv holds before the first header.
LEMMA MatrixInit ==
    ASSUME Start
    PROVE  MatrixInv
<1>1. /\ pos = 0 /\ pc = "header" /\ items = <<>> /\ event_guls = [r \in Row |-> <<>>]
      /\ calculated = <<>>
    BY DEF Start, ReaderInit
<1>2. Shape(<<>>, [r \in Row |-> <<>>])
    BY DEF Shape
<1>3. Opened(stream, Opening, last_event_id, <<>>, 0)
    BY DEF Opened, Records
<1>4. Holds(stream, Opening, last_event_id, <<>>, [r \in Row |-> <<>>], 0)
    BY <1>2, <1>3 DEF Holds
<1> QED BY <1>1, <1>4 DEF MatrixInv, Matrix, Current, Earlier

-----------------------------------------------------------------------------
(* The writer of the pipe takes its turn: what the reader knows of the part *)
(* it has read remains true when the stream grows.                          *)
LEMMA StreamGrows ==
    ASSUME IInv, MatrixInv, pc # "done", UNCHANGED <<rvars, isOldGULStreamType_>>,
           stream' \in Seq(Range(stream')), Extends(stream', stream),
           Grouped(stream'), Framed(stream', Opening)
    PROVE  IInv' /\ MatrixInv'
<1>1. /\ pos \in 0 .. Len(stream) /\ stream \in Seq(Range(stream)) /\ Len(stream) \in Nat
      /\ Len(stream') \in Nat /\ Len(stream) <= Len(stream') /\ Opening' = Opening
      /\ \A p \in 1 .. Len(stream) : stream'[p] = stream[p]
    BY DEF IInv, Types, Extends, Opening
<1>2. UNCHANGED <<pos, pc, gh, last_event_id, items, event_guls, current_item_index, calculated>>
    BY DEF rvars
<1>3. Headers = {p \in Headers' : p <= Len(stream)}
    <2>1. Heads(stream) = {p \in Heads(stream') : p <= Len(stream)}
        BY <1>1, SameBlocks
    <2> QED BY <2>1 DEF Headers
<1>4. \A p \in Headers' : p <= pos => p \in Headers /\ stream'[p] = stream[p]
    BY <1>1, <1>3 DEF Headers, Heads
<1>5. \A p \in Headers : p \in Headers' /\ stream'[p] = stream[p]
    BY <1>1, <1>3 DEF Headers, Heads
<1>6. Seen' = Seen /\ Calculated' = Calculated /\ Distinct'
    <2>1. \A e : e \in Seen' <=> e \in Seen
        BY <1>2, <1>4, <1>5 DEF Seen
    <2>2. Calculated' = Calculated /\ Distinct'
        BY <1>2 DEF IInv, Calculated, Distinct
    <2> QED BY <2>1, <2>2
<1>7. Types'
    BY <1>1, <1>2 DEF IInv, Types
<1>8. LastRead'
    <2>1. ASSUME NEW p \in Headers', p <= pos, stream'[p][2] # last_event_id
          PROVE  \E q \in Headers' : p < q /\ q <= pos /\ stream'[q][2] = last_event_id
        <3>1. PICK q \in Headers : p < q /\ q <= pos /\ stream[q][2] = last_event_id
            BY <1>4, <2>1 DEF IInv, LastRead
        <3> QED BY <1>5, <3>1
    <2> QED BY <1>2, <1>6, <2>1 DEF IInv, LastRead
<1>9. Given'
    BY <1>2, <1>6 DEF IInv, Given
<1>10. \A e, its, rows : Holds(stream, Opening, e, its, rows, pos)
                            => Holds(stream', Opening, e, its, rows, pos)
    BY <1>1, HoldsLonger
<1>11. Matrix' /\ Earlier'
    BY <1>1, <1>2, <1>10 DEF MatrixInv, Matrix, Earlier
<1>12. Current'
    <2>1. CASE pc = "record"
        <3>1. pos \in 1 .. Len(stream) /\ pos \in 1 .. Len(stream')
            BY <1>1, <2>1 DEF MatrixInv, Current
        <3>2. /\ HeadOf(stream', pos) = HeadOf(stream, pos)
              /\ stream'[HeadOf(stream', pos)] = stream[HeadOf(stream, pos)]
            BY <1>1, <3>1, SameBlocks
        <3> QED BY <1>2, <2>1, <3>1, <3>2 DEF MatrixInv, Current
    <2>2. CASE pc # "record"
        BY <1>2, <2>2 DEF Current
    <2> QED BY <2>1, <2>2
<1> QED BY <1>6, <1>7, <1>8, <1>9, <1>11, <1>12 DEF IInv, MatrixInv

-----------------------------------------------------------------------------
(* What dofm has been given is all the stream says of the event.            *)

\* When an event has been calculated, all its records have been read, those
\* included that the writer of the pipe has not put into it yet.
LEMMA AllRead ==
    ASSUME IInv, NEW S, NEW s \in Seq(S), Extends(s, stream), Framed(s, Opening), Grouped(s),
           pc = "done" => s = stream,
           NEW e \in Calculated, NEW p \in Records(s), s[HeadOf(s, p)][2] = e
    PROVE  p \in 1 .. pos
<1>1. /\ stream \in Seq(Range(stream)) /\ Len(stream) \in Nat /\ pos \in 0 .. Len(stream)
      /\ p \in 1 .. Len(s) /\ Len(s) \in Nat /\ Heads(s) \subseteq 1 .. Len(s)
    BY DEF IInv, Types, Records, Heads
<1> DEFINE h == HeadOf(s, p)
<1>2. h \in Heads(s) /\ \A q \in Heads(s) : q <= p => q <= h
    BY <1>1, Heading
<1>3. CASE pc = "done"
    BY <1>1, <1>3 DEF IInv, Given
<1>4. CASE pc # "done"
    <2>1. e \in Seen /\ e # last_event_id
        BY <1>4 DEF IInv, Given
    <2>2. \A q \in Headers : q \in Heads(s) /\ stream[q] = s[q]
        <3>1. Heads(stream) = {q \in Heads(s) : q <= Len(stream)}
            BY <1>1, SameBlocks
        <3> QED BY <1>1, <3>1 DEF Headers, Heads, Extends
    <2>3. PICK m \in Headers : m <= pos /\ stream[m][2] = e
        BY <2>1 DEF Seen
    <2>4. PICK q \in Headers : m < q /\ q <= pos /\ stream[q][2] = last_event_id
        BY <2>1, <2>3 DEF IInv, LastRead
    <2>5. /\ m \in Heads(s) /\ q \in Heads(s) /\ s[m][2] = e /\ s[q][2] = last_event_id
        BY <2>2, <2>3, <2>4
    <2>6. ~(q < h)
        BY <1>2, <2>1, <2>4, <2>5 DEF Grouped
    <2>7. q # h
        BY <2>1, <2>5
    <2>8. ~(q <= p)
        BY <1>1, <1>2, <2>5, <2>6, <2>7
    <2> QED BY <1>1, <2>4, <2>5, <2>8
<1> QED BY <1>3, <1>4

\* LossIn is the loss of a record of the stream, or NoLoss.
LEMMA LossInIs ==
    ASSUME NEW e, NEW i, NEW x
    PROVE  \/ \E p : IsLoss(stream, p, e, i, x) /\ LossIn(e, i, x) = stream[p][3]
           \/ (\A p : ~IsLoss(stream, p, e, i, x)) /\ LossIn(e, i, x) = NoLoss
<1> DEFINE at == {p \in (1 .. Len(stream)) \ Headers :
                     /\ stream[p][2] = x
                     /\ stream[BlockOf(p)][2] = e /\ stream[BlockOf(p)][3] = i}
<1>1. \A p : p \in at <=> IsLoss(stream, p, e, i, x)
    BY DEF IsLoss, Records, BlockOf, Headers
<1>2. LossIn(e, i, x) = IF at = {} THEN NoLoss ELSE stream[CHOOSE p \in at : TRUE][3]
    BY DEF LossIn
<1> HIDE DEF at
<1>3. at # {} => (CHOOSE p \in at : TRUE) \in at
    BY Zenon
<1> QED BY <1>1, <1>2, <1>3

\* The items of an event, counted.
LEMMA Counted ==
    ASSUME NEW its, its \in Seq(Range(its)),
           \A j, k \in 1 .. Len(its) : its[j] = its[k] => j = k
    PROVE  Cardinality({its[k] : k \in 1 .. Len(its)}) = Len(its)
<1> DEFINE T == {its[k] : k \in 1 .. Len(its)}
           f == [k \in 1 .. Len(its) |-> its[k]]
<1>1. Len(its) \in Nat
    OBVIOUS
<1>2. f \in Bijection(1 .. Len(its), T)
    BY DEF Bijection, Injection, Surjection, IsInjective
<1>3. ExistsBijection(1 .. Len(its), T)
    BY <1>2 DEF ExistsBijection
<1> HIDE DEF T
<1>4. Cardinality(T) = Len(its)
    BY <1>1, <1>3, FS_CountingElements
<1> QED BY <1>4, Zenon DEF T

\* The invariants say what VectorsAreExact says.
LEMMA MatrixExact ==
    ASSUME IInv, MatrixInv, Entered(stream, Opening)
    PROVE  VectorsAreExact
<1> SUFFICES ASSUME NEW n \in 1 .. Len(calculated)
             PROVE  LET c == calculated[n]
                        Cells(r) == {<<c.items[k], c.guls[r][k]>> : k \in 1 .. Len(c.items)}
                        Sidx(r) == IF r = 0 THEN tiv_idx ELSE IF r = 1 THEN mean_idx ELSE r - 1
                        Expected(i, r) == IF r = 0 THEN <<c.event, i, tiv_idx>>
                                          ELSE LossIn(c.event, i, Sidx(r))
                    IN /\ Len(c.items) = Cardinality(ItemsIn(c.event))
                       /\ \A r \in Row :
                              Cells(r) = {<<i, Expected(i, r)>> : i \in ItemsIn(c.event)}
    BY DEF VectorsAreExact
<1>1. PICK e : e = calculated[n].event
    OBVIOUS
<1>2. PICK its : its = calculated[n].items
    OBVIOUS
<1>3. PICK rows : rows = calculated[n].guls
    OBVIOUS
<1>4. Holds(stream, Opening, e, its, rows, pos)
    BY <1>1, <1>2, <1>3 DEF MatrixInv, Earlier
<1>5. \A p \in Records(stream) : stream[HeadOf(stream, p)][2] = e => p \in 1 .. pos
    <2>1. e \in Calculated
        BY <1>1 DEF Calculated
    <2>2. /\ stream \in Seq(Range(stream)) /\ Grouped(stream) /\ Framed(stream, Opening)
          /\ Extends(stream, stream)
        BY DEF IInv, Types, Extends
    <2> QED BY <2>1, <2>2, AllRead
<1>6. stream \in Seq(Range(stream)) /\ Framed(stream, Opening)
    BY DEF IInv, Types
<1>7. ItemsIn(e) = {its[k] : k \in 1 .. Len(its)}
    <2>1. ASSUME NEW h \in Heads(stream), stream[h][2] = e
          PROVE  \E k \in 1 .. Len(its) : its[k] = stream[h][3]
        <3>1. PICK p \in Records(stream) : HeadOf(stream, p) = h /\ stream[p][2] = Opening
            BY DEF Entered, Records
        <3>2. p \in 1 .. pos
            BY <1>5, <2>1, <3>1
        <3> QED BY <1>4, <2>1, <3>1, <3>2 DEF Holds, Opened
    <2>2. ASSUME NEW k \in 1 .. Len(its)
          PROVE  \E h \in Heads(stream) : stream[h][2] = e /\ stream[h][3] = its[k]
        <3>1. PICK p \in 1 .. pos : IsLoss(stream, p, e, its[k], Opening)
            BY <1>4 DEF Holds, Opened
        <3>2. HeadOf(stream, p) \in Heads(stream)
            BY <1>6, <3>1, Heading DEF IsLoss, Records
        <3> QED BY <3>1, <3>2 DEF IsLoss
    <2>3. ItemsIn(e) = {stream[p][3] : p \in {q \in Heads(stream) : stream[q][2] = e}}
        BY DEF ItemsIn, Headers
    <2>4. ASSUME NEW i
          PROVE  i \in ItemsIn(e) <=> \E k \in 1 .. Len(its) : i = its[k]
        <3>1. i \in ItemsIn(e) <=>
                  \E h \in Heads(stream) : stream[h][2] = e /\ i = stream[h][3]
            BY <2>3
        <3>2. ASSUME NEW h \in Heads(stream), stream[h][2] = e, i = stream[h][3]
              PROVE  \E k \in 1 .. Len(its) : i = its[k]
            BY <2>1, <3>2
        <3>3. ASSUME NEW k \in 1 .. Len(its), i = its[k]
              PROVE  \E h \in Heads(stream) : stream[h][2] = e /\ i = stream[h][3]
            BY <2>2, <3>3
        <3> QED BY <3>1, <3>2, <3>3
    <2> QED BY <2>4
<1>8. Len(its) = Cardinality(ItemsIn(e))
    <2>1. /\ its \in Seq(Range(its))
          /\ \A j, k \in 1 .. Len(its) : its[j] = its[k] => j = k
        BY <1>4 DEF Holds, Shape, Opened
    <2> QED BY <1>7, <2>1, Counted
<1> DEFINE Expected(i, r) == IF r = 0 THEN <<e, i, tiv_idx>> ELSE LossIn(e, i, SidxOf(r))
<1>9. ASSUME NEW r \in Row, NEW k \in 1 .. Len(its)
      PROVE  rows[r][k] = Expected(its[k], r)
    <2>1. CASE r = 0
        BY <1>4, <2>1 DEF Holds, gettiv
    <2>2. CASE r # 0
        <3>1. Cell(stream, e, its[k], r, pos, rows[r][k])
            BY <1>4, <2>2 DEF Holds
        <3>2. \A p : IsLoss(stream, p, e, its[k], SidxOf(r)) => p \in 1 .. pos
            BY <1>5 DEF IsLoss
        <3>3. rows[r][k] = LossIn(e, its[k], SidxOf(r))
            BY <3>1, <3>2, LossInIs DEF Cell
        <3> QED BY <2>2, <3>3
    <2> QED BY <2>1, <2>2
<1>10. ASSUME NEW r \in Row
       PROVE  {<<its[k], rows[r][k]>> : k \in 1 .. Len(its)}
                  = {<<i, Expected(i, r)>> : i \in ItemsIn(e)}
    <2> HIDE DEF Expected
    <2>1. \A i : i \in ItemsIn(e) <=> \E k \in 1 .. Len(its) : i = its[k]
        BY <1>7
    <2>2. \A k \in 1 .. Len(its) : rows[r][k] = Expected(its[k], r)
        BY <1>9
    <2> QED BY <2>1, <2>2
<1> QED BY <1>1, <1>2, <1>3, <1>8, <1>10 DEF SidxOf

-----------------------------------------------------------------------------
(* What last_event_id stands for at every step of fmcalc::doit: the events  *)
(* given up for another header are the ones calculated, each once.          *)
THEOREM ReaderInvariant == FileSpec => []IInv
<1>1. IInv /\ [FileNext]_svars => IInv'
    BY ReadHeaderStep, EndStep, ReadRecordStep, StutterStep DEF FileNext, ReaderNext
<1>2. FileInit => IInv
    BY InitHolds DEF FileInit, Start
<1> QED BY <1>1, <1>2, PTL DEF FileSpec, svars

(* fmcalc::doit calculates no event twice, and every event of the stream by *)
(* the time it ends, wherever the stream ends: at a header, within a block  *)
(* that is not terminated, or before its first block.                       *)
THEOREM EveryEventOnce == FileSpec => []CalculatedOnce
<1>1. IInv => CalculatedOnce
  <2> SUFFICES ASSUME IInv PROVE CalculatedOnce
      OBVIOUS
  <2>1. pos = Len(stream) => Seen = StreamEvents
      BY DEF IInv, Types, Seen, StreamEvents, Headers, Heads
  <2> QED BY <2>1 DEF IInv, Given, Distinct, Calculated, CalculatedOnce
<1> QED BY ReaderInvariant, <1>1, PTL

(* The matrix dofm gets, at each of its calls: every item of the event      *)
(* once, its exposure, mean and samples as the stream has them, and zero    *)
(* where the stream has no record, for streams of any length, of the        *)
(* present and the deprecated type.                                         *)
THEOREM VectorsExact == FileSpec => []VectorsAreExact
<1> DEFINE Inv == IInv /\ MatrixInv /\ Entered(stream, Opening)
<1>1. FileInit => Inv
    BY InitHolds, MatrixInit DEF FileInit, Start
<1>2. Inv /\ [FileNext]_svars => Inv'
    <2> SUFFICES ASSUME Inv, [FileNext]_svars PROVE Inv'
        OBVIOUS
    <2>1. UNCHANGED <<stream, isOldGULStreamType_>>
        BY DEF FileNext, svars
    <2>2. Entered(stream, Opening)'
        BY <2>1 DEF Entered, Opening
    <2>3. IInv' /\ MatrixInv'
        BY ReadHeaderStep, EndStep, ReadRecordStep, StutterStep,
           MatrixHeader, MatrixEnd, MatrixRecord, MatrixStutter DEF FileNext, ReaderNext
    <2> QED BY <2>2, <2>3
<1>3. Inv => VectorsAreExact
    BY MatrixExact
<1> QED BY <1>1, <1>2, <1>3, PTL DEF FileSpec, svars
=============================================================================
