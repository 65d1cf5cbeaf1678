----------------------------- MODULE Eve_proofs -----------------------------
(* The partition of eve, for every length of the event list, every number   *)
(* of processes and every sequence of random draws.                         *)
EXTENDS Eve, TLAPS

-----------------------------------------------------------------------------
(* Arithmetic of the blocks and of the deal.                                *)
LEMMA Division ==
    ASSUME NEW n \in Nat, NEW t \in Nat \ {0}
    PROVE  /\ n \div t \in Nat /\ n % t \in Nat /\ n % t < t
           /\ n = t * (n \div t) + (n % t)
           /\ t * (n \div t) <= n /\ n < t * (n \div t) + t
<1>1. n % t = n - t * (n \div t)
    OBVIOUS
<1>2. n \div t \in Nat /\ n % t \in Nat /\ n % t < t
    OBVIOUS
<1>3. \A x \in Int : n % t = n - x => n = x + (n % t) /\ x <= n /\ n < x + t
    BY <1>2
<1>4. t * (n \div t) \in Int
    OBVIOUS
<1> QED BY <1>1, <1>2, <1>3, <1>4

\* A multiple leaves no remainder.
LEMMA MultipleRemainder ==
    ASSUME NEW t \in Nat \ {0}, NEW q \in Int
    PROVE  (t * q) % t = 0
    OBVIOUS

\* Products with a natural number are ordered as their factors.
LEMMA Multiples ==
    ASSUME NEW a \in Nat, NEW b \in Int, NEW c \in Int
    PROVE  /\ b <= c => a * b <= a * c
           /\ a * b < a * c => b < c
           /\ a * (b + 1) = a * b + a
    OBVIOUS

\* The list is total blocks of min_chunksize elements and a remainder.
LEMMA Shares ==
    ASSUME TypeOK
    PROVE  /\ total \in Nat \ {0} /\ size \in Nat
           /\ min_chunksize \in Nat
           /\ size % total \in Nat /\ size % total < total
           /\ size = total * min_chunksize + (size % total)
    BY Division DEF TypeOK, min_chunksize

\* The start of a block, the processes with one element more told apart.
LEMMA StartFormula ==
    ASSUME TypeOK, NEW m, NEW r, m = min_chunksize, r = size % total
    PROVE  \A p \in Int : StartPos(p) =
               IF p <= r + 1 THEN (m + 1) * (p - 1) ELSE (m + 1) * r + m * (p - 1 - r)
<1>1. m \in Nat /\ r \in Nat
    BY Shares
<1> TAKE p \in Int
<1>2. first_min_pno = r + 1 /\ first_min_pno - 1 = r
    BY <1>1 DEF first_min_pno
<1>3. CASE p <= r + 1
    <2>1. Smaller(first_min_pno, p) = p /\ ~(p > first_min_pno)
        BY <1>1, <1>2, <1>3 DEF Smaller
    <2> QED BY <1>1, <1>3, <2>1 DEF StartPos
<1>4. CASE ~(p <= r + 1)
    <2>1. /\ Smaller(first_min_pno, p) - 1 = r
          /\ p > first_min_pno /\ p - first_min_pno = p - 1 - r
        BY <1>1, <1>2, <1>4 DEF Smaller
    <2> QED BY <1>1, <1>4, <2>1 DEF StartPos
<1> QED BY <1>3, <1>4

\* Every block starts inside the list, the first at its beginning, the last
\* ends at its end, and blocks follow each other in the order of the processes.
LEMMA Blocks ==
    ASSUME TypeOK
    PROVE  /\ StartPos(1) = 0 /\ StartPos(total + 1) = size
           /\ \A p \in 1 .. total + 1 : StartPos(p) \in 0 .. size
           /\ \A p, q \in 1 .. total + 1 : p <= q => StartPos(p) <= StartPos(q)
<1> DEFINE m == min_chunksize
           r == size % total
           S(p) == IF p <= r + 1 THEN (m + 1) * (p - 1) ELSE (m + 1) * r + m * (p - 1 - r)
<1>1. /\ total \in Nat \ {0} /\ size \in Nat
      /\ m \in Nat /\ r \in Nat /\ r < total /\ size = total * m + r
    BY Shares
<1> HIDE DEF m, r
<1>2. \A p \in Int : StartPos(p) = S(p)
    BY StartFormula DEF m, r
<1>3. (m + 1) * r + m * (total - r) = size
    BY <1>1
<1>4. S(1) = 0 /\ S(total + 1) = size
    BY <1>1, <1>3
<1>5. ASSUME NEW p \in 1 .. total + 1, NEW q \in 1 .. total + 1, p <= q
      PROVE  S(p) \in Int /\ S(p) <= S(q)
    <2>0. p \in Int /\ q \in Int /\ m + 1 \in Nat
        BY <1>1
    <2>1. CASE q <= r + 1
        <3>1. (m + 1) * (p - 1) <= (m + 1) * (q - 1)
            BY <1>1, <1>5, <2>0, Multiples
        <3> QED BY <1>1, <1>5, <2>1, <3>1
    <2>2. CASE p <= r + 1 /\ q > r + 1
        <3>1. (m + 1) * (p - 1) <= (m + 1) * r
            BY <1>1, <2>0, <2>2, Multiples
        <3>2. m * (q - 1 - r) >= 0 /\ m * (q - 1 - r) \in Int
            BY <1>1, <2>0, <2>2
        <3> QED BY <1>1, <2>2, <3>1, <3>2
    <2>3. CASE p > r + 1
        <3>1. m * (p - 1 - r) <= m * (q - 1 - r)
            BY <1>1, <1>5, <2>0, Multiples
        <3> QED BY <1>1, <1>5, <2>3, <3>1
    <2> QED BY <1>1, <2>1, <2>2, <2>3
<1>6. \A p \in 1 .. total + 1 : S(p) \in 0 .. size
    <2> TAKE p \in 1 .. total + 1
    <2>1. 1 \in 1 .. total + 1 /\ total + 1 \in 1 .. total + 1 /\ 1 <= p /\ p <= total + 1
        BY <1>1
    <2>2. S(1) <= S(p) /\ S(p) <= S(total + 1) /\ S(p) \in Int
        BY <1>5, <2>1
    <2> QED BY <1>1, <1>4, <2>2
<1> HIDE DEF S
<1>7. \A p \in 1 .. total + 1 : p \in Int
    OBVIOUS
<1>8. 1 \in Int /\ total + 1 \in Int
    BY <1>1
<1> QED BY <1>2, <1>4, <1>5, <1>6, <1>7, <1>8

\* Every element is in the block of some process.
LEMMA BlocksCover ==
    ASSUME TypeOK, NEW k \in Record
    PROVE  \E p \in Process : StartPos(p) < k /\ k <= StartPos(p + 1)
<1> DEFINE m == min_chunksize
           r == size % total
           S(p) == IF p <= r + 1 THEN (m + 1) * (p - 1) ELSE (m + 1) * r + m * (p - 1 - r)
<1>1. /\ total \in Nat \ {0} /\ size \in Nat /\ k \in Nat /\ k >= 1 /\ k <= size
      /\ m \in Nat /\ r \in Nat /\ r < total /\ size = total * m + r
    BY Shares DEF Record
<1> HIDE DEF m, r
<1>2. \A p \in Int : StartPos(p) = S(p)
    BY StartFormula DEF m, r
<1>3. (m + 1) * r + m * (total - r) = size
    BY <1>1
<1>4. CASE k <= (m + 1) * r
    <2> DEFINE q == (k - 1) \div (m + 1)
    <2>1. /\ k - 1 \in Nat /\ m + 1 \in Nat \ {0}
        BY <1>1
    <2>2. /\ q \in Nat /\ (m + 1) * q <= k - 1 /\ k - 1 < (m + 1) * q + (m + 1)
        BY <2>1, Division
    <2> HIDE DEF q
    <2>3. (m + 1) * (q + 1) = (m + 1) * q + (m + 1) /\ (m + 1) * q \in Int
        BY <2>1, <2>2, Multiples
    <2>4. q < r
        <3>1. (m + 1) * q < (m + 1) * r
            BY <1>1, <1>4, <2>2, <2>3
        <3> QED BY <1>1, <2>1, <2>2, <3>1, Multiples
    <2>5. q + 1 \in Process /\ q + 1 \in Int /\ q + 2 \in Int /\ (q + 1) + 1 = q + 2
        BY <1>1, <2>2, <2>4 DEF Process
    <2>6. S(q + 1) = (m + 1) * q /\ S(q + 2) = (m + 1) * (q + 1)
        BY <1>1, <2>2, <2>4
    <2> HIDE DEF S
    <2>7. StartPos(q + 1) < k /\ k <= StartPos((q + 1) + 1)
        BY <1>1, <1>2, <2>2, <2>3, <2>5, <2>6
    <2> QED BY <2>5, <2>7
<1>5. CASE k > (m + 1) * r
    <2> DEFINE j == k - 1 - (m + 1) * r
               q == j \div m
    <2>0. (m + 1) * r \in Int /\ m * (total - r) \in Int
        BY <1>1
    <2>1. j \in Nat /\ j < m * (total - r)
        BY <1>1, <1>3, <1>5, <2>0
    <2>2. m # 0
        BY <1>1, <2>1
    <2> HIDE DEF j
    <2>3. /\ q \in Nat /\ m * q <= j /\ j < m * q + m
        BY <1>1, <2>1, <2>2, Division
    <2> HIDE DEF q
    <2>4. m * (q + 1) = m * q + m /\ m * q \in Int
        BY <1>1, <2>3, Multiples
    <2>5. q < total - r
        <3>1. m * q < m * (total - r)
            BY <1>1, <2>0, <2>1, <2>3, <2>4
        <3> QED BY <1>1, <2>3, <3>1, Multiples
    <2> DEFINE p == r + 1 + q
    <2>6. p \in Process /\ p \in Int /\ p + 1 \in Int
        BY <1>1, <2>3, <2>5 DEF Process
    <2>7. S(p) = (m + 1) * r + m * q
        <3>1. CASE q = 0
            BY <1>1, <2>3, <2>4, <3>1
        <3>2. CASE q # 0
            <4>1. ~(p <= r + 1) /\ p - 1 - r = q
                BY <1>1, <2>3, <3>2
            <4> QED BY <4>1
        <3> QED BY <3>1, <3>2
    <2>8. S(p + 1) = (m + 1) * r + m * (q + 1)
        <3>1. ~(p + 1 <= r + 1) /\ (p + 1) - 1 - r = q + 1
            BY <1>1, <2>3
        <3> QED BY <3>1
    <2> HIDE DEF S, p
    <2>9. StartPos(p) < k /\ k <= StartPos(p + 1)
        BY <1>1, <1>2, <2>0, <2>1, <2>3, <2>4, <2>6, <2>7, <2>8 DEF j
    <2> QED BY <2>6, <2>9
<1> QED BY <1>1, <1>4, <1>5

\* Every element is dealt to exactly one process.
LEMMA Deal ==
    ASSUME TypeOK, NEW k \in Record
    PROVE  /\ \E p \in Process : Dealt(p, k)
           /\ \A p, q \in Process : Dealt(p, k) /\ Dealt(q, k) => p = q
<1>1. total \in Nat \ {0} /\ size \in Nat /\ k \in Nat /\ k - 1 \in Nat
    BY DEF TypeOK, Record
<1>2. \E p \in Process : Dealt(p, k)
    <2> DEFINE p == ((k - 1) % total) + 1
               q == (k - 1) \div total
    <2>1. p \in Process /\ q \in Nat /\ k - 1 = total * q + (p - 1)
        BY <1>1, Division DEF Process
    <2> HIDE DEF p, q
    <2>2. k - p = total * q
        BY <1>1, <2>1 DEF Process
    <2>3. (total * q) % total = 0
        BY <1>1, <2>1, MultipleRemainder
    <2> QED BY <2>1, <2>2, <2>3 DEF Dealt
<1>3. ASSUME NEW p \in Process, NEW q \in Process, Dealt(p, k), Dealt(q, k)
      PROVE  p = q
    <2> DEFINE a == (k - p) \div total
               b == (k - q) \div total
    <2>1. /\ a \in Int /\ b \in Int /\ k - p = total * a /\ k - q = total * b
          /\ p \in 1 .. total /\ q \in 1 .. total
        BY <1>1, <1>3 DEF Dealt, Process
    <2> HIDE DEF a, b
    <2>2. total * (a - b) = q - p
        BY <1>1, <2>1
    <2>3. a = b
        <3>1. total * (a - b) < total * 1 /\ total * (-1) < total * (a - b)
            BY <1>1, <2>1, <2>2
        <3>2. a - b \in Int /\ 1 \in Int /\ -1 \in Int
            BY <2>1
        <3>3. a - b < 1 /\ -1 < a - b
            BY <1>1, <3>1, <3>2, Multiples
        <3> QED BY <2>1, <3>3
    <2> QED BY <1>1, <2>1, <2>3
<1> QED BY <1>2, <1>3

-----------------------------------------------------------------------------
(* The vectors.                                                             *)
LEMMA FileIsPermutation == File \in Permutation
<1>1. File \in [Record -> Record] /\ \A k \in Record : File[k] = k
    BY DEF File
<1> QED BY <1>1 DEF Permutation, OneToOne, Onto

\* A swap keeps every record exactly once and the elements before it in place.
LEMMA SwapPermutes ==
    ASSUME NEW v \in Permutation, NEW i \in Record, NEW j \in Record
    PROVE  /\ Swap(v, i, j) \in Permutation
           /\ \A k \in Record : k # i /\ k # j => Swap(v, i, j)[k] = v[k]
<1> DEFINE w == Swap(v, i, j)
<1>1. /\ w \in [Record -> Record]
      /\ w[j] = v[i] /\ (i # j => w[i] = v[j]) /\ (i = j => w[i] = v[i])
      /\ \A k \in Record : k # i /\ k # j => w[k] = v[k]
    BY DEF Swap, Permutation
<1> HIDE DEF w
<1>2. OneToOne(w)
    BY <1>1 DEF OneToOne, Permutation
<1>3. Onto(w)
    <2> SUFFICES ASSUME NEW r \in Record PROVE \E k \in Record : w[k] = r
        BY DEF Onto
    <2>1. PICK k \in Record : v[k] = r
        BY DEF Permutation, Onto
    <2> QED BY <1>1, <2>1
<1> QED BY <1>1, <1>2, <1>3 DEF Permutation, w

-----------------------------------------------------------------------------
(* The inductive invariant.                                                 *)
LEMMA InitInv == Init => IInv
<1> SUFFICES ASSUME Init PROVE IInv
    OBVIOUS
<1>1. total \in Nat \ {0} /\ size \in Nat
    BY BoundsAssumption DEF Init
<1>2. /\ draw \in [Record -> Nat]
      /\ \A k \in Record : k + draw[k] \in Record
    <2>1. draw \in [Record -> 0 .. MaxEvents]
        BY DEF Init
    <2>2. ASSUME NEW k \in Record PROVE k + draw[k] \in Record
        <3>1. draw[k] \in Nat /\ draw[k] <= size - k
            <4>1. k \in 1 .. size /\ draw[k] \in 0 .. MaxEvents
                BY <2>1 DEF Record
            <4>2. draw[k] <= IF Mode = "fisher" THEN size - k ELSE 0
                BY DEF Init
            <4> QED BY <1>1, <4>1, <4>2, BoundsAssumption
        <3> QED BY <1>1, <3>1 DEF Record
    <2> QED BY <2>1, <2>2, BoundsAssumption
<1>3. File \in Permutation /\ perm \in Permutation
    BY FileIsPermutation DEF Init
<1>4. TypeOK
    BY <1>1, <1>2, <1>3 DEF Init, TypeOK, Permutation
<1>5. ASSUME NEW p \in Process
      PROVE  events[p] \in Permutation /\ LoopInv(p) /\ TrailInv(p) /\ OutInv(p)
    <2>1. /\ pc[p] = "start" /\ events[p] = File /\ pos[p] = 0 /\ out[p] = <<>>
          /\ trail[p] = <<>>
        BY DEF Init
    <2> QED BY <1>3, <2>1 DEF LoopInv, TrailInv, OutInv
<1>6. SameTrail
    BY DEF Init, SameTrail
<1> QED BY <1>3, <1>4, <1>5, <1>6 DEF IInv

\* The options, the list and the draws never change.
LEMMA Rigid ==
    ASSUME UNCHANGED params
    PROVE  /\ Mode' = Mode /\ Blockwise' = Blockwise /\ File' = File
           /\ Permutation' = Permutation /\ Process' = Process /\ Record' = Record
           /\ \A p : StartPos(p)' = StartPos(p)
           /\ \A p, k : Dealt(p, k)' = Dealt(p, k)
           /\ \A p, k : Owned(p, k)' = Owned(p, k)
<1>1. /\ shuffle' = shuffle /\ randomise' = randomise /\ legacy' = legacy
      /\ total' = total /\ size' = size /\ draw' = draw /\ perm' = perm
    BY DEF params
<1>2. Mode' = Mode /\ Blockwise' = Blockwise
    BY <1>1 DEF Mode, Blockwise
<1>3. /\ File' = File /\ Permutation' = Permutation
      /\ Process' = Process /\ Record' = Record
    BY <1>1 DEF Permutation, File, Record, OneToOne, Onto, Process
<1>4. /\ \A p : StartPos(p)' = StartPos(p)
      /\ \A p, k : Dealt(p, k)' = Dealt(p, k)
    BY <1>1 DEF StartPos, Smaller, first_min_pno, min_chunksize, Dealt
<1>5. \A p, k : Owned(p, k)' = Owned(p, k)
    <2> TAKE p, k
    <2>1. StartPos(p + 1)' = StartPos(p + 1)
        BY <1>1 DEF StartPos, Smaller, first_min_pno, min_chunksize
    <2> QED BY <1>2, <1>4, <2>1 DEF Owned
<1> QED BY <1>2, <1>3, <1>4, <1>5

\* A step of process p leaves the other processes alone.
LEMMA Frame ==
    ASSUME IInv, UNCHANGED params, NEW p \in Process, NEW q \in Process, q # p,
           pc'[q] = pc[q], events'[q] = events[q], pos'[q] = pos[q],
           out'[q] = out[q], trail'[q] = trail[q]
    PROVE  (events[q] \in Permutation /\ LoopInv(q) /\ TrailInv(q) /\ OutInv(q))'
<1>1. size' = size /\ draw' = draw /\ perm' = perm
    BY DEF params
<1>2. events[q] \in Permutation /\ LoopInv(q) /\ TrailInv(q) /\ OutInv(q)
    BY DEF IInv
<1>3. /\ Mode' = Mode /\ Blockwise' = Blockwise /\ File' = File
      /\ Permutation' = Permutation /\ StartPos(q)' = StartPos(q)
    BY Rigid
<1>4. StartPos(q + 1)' = StartPos(q + 1)
    BY DEF params, StartPos, Smaller, first_min_pno, min_chunksize
<1>5. LoopInv(q)'
    BY <1>1, <1>2, <1>3, <1>4 DEF LoopInv
<1>6. \A k : Owned(q, k)' = Owned(q, k)
    BY Rigid
<1>7. OutInv(q)'
    <2>1. out'[q] = out[q] /\ pos'[q] = pos[q] /\ events'[q] = events[q]
        OBVIOUS
    <2>2. OutInv(q)
        BY <1>2
    <2>3. \A m \in 1 .. Len(out'[q]) : \E k \in 1 .. pos'[q] :
             Owned(q, k)' /\ out'[q][m] = events'[q][k]
        <3> TAKE m \in 1 .. Len(out'[q])
        <3>1. m \in 1 .. Len(out[q])
            BY <2>1
        <3>2. PICK k \in 1 .. pos[q] : Owned(q, k) /\ out[q][m] = events[q][k]
            BY <2>2, <3>1 DEF OutInv
        <3>3. Owned(q, k)'
            BY <1>6, <3>2
        <3> QED BY <2>1, <3>2, <3>3
    <2>4. \A k \in 1 .. pos'[q] : Owned(q, k)' =>
             \E m \in 1 .. Len(out'[q]) : out'[q][m] = events'[q][k]
        <3> TAKE k \in 1 .. pos'[q]
        <3> HAVE Owned(q, k)'
        <3>1. k \in 1 .. pos[q] /\ Owned(q, k)
            BY <1>6, <2>1
        <3>2. PICK m \in 1 .. Len(out[q]) : out[q][m] = events[q][k]
            BY <2>2, <3>1 DEF OutInv
        <3> QED BY <2>1, <3>2
    <2>5. \A m, n \in 1 .. Len(out'[q]) : out'[q][m] = out'[q][n] => m = n
        BY <2>1, <2>2 DEF OutInv
    <2> QED BY <2>3, <2>4, <2>5 DEF OutInv
<1>8. TrailInv(q)'
    BY <1>1, <1>2, <1>3 DEF TrailInv, Shuffled, Swap
<1> QED BY <1>2, <1>3, <1>5, <1>7, <1>8

\* What is left to show of a step of process p.
LEMMA OneProcess ==
    ASSUME IInv, UNCHANGED params, NEW p \in Process, TypeOK', SameTrail',
           (events[p] \in Permutation /\ LoopInv(p) /\ TrailInv(p) /\ OutInv(p))',
           \A q \in Process : q # p =>
               /\ pc'[q] = pc[q] /\ events'[q] = events[q] /\ pos'[q] = pos[q]
               /\ out'[q] = out[q] /\ trail'[q] = trail[q]
    PROVE  IInv'
<1>1. ASSUME NEW q \in Process
      PROVE  (events[q] \in Permutation /\ LoopInv(q) /\ TrailInv(q) /\ OutInv(q))'
    <2>1. CASE q = p
        BY <2>1
    <2>2. CASE q # p
        BY <2>2, Frame
    <2> QED BY <2>1, <2>2
<1>2. Process' = Process /\ (perm \in Permutation)'
    BY Rigid DEF IInv, params
<1> QED BY <1>1, <1>2 DEF IInv

\* ReadEvents keeps IInv.
LEMMA ReadStep ==
    ASSUME IInv, NEW p \in Process, ReadEvents(p)
    PROVE  IInv'
<1>0. TypeOK /\ UNCHANGED params /\ pc[p] = "start"
    BY DEF IInv, ReadEvents
<1>1. /\ size' = size /\ perm' = perm /\ total' = total
      /\ Mode' = Mode /\ Blockwise' = Blockwise /\ File' = File
      /\ Permutation' = Permutation /\ StartPos(p)' = StartPos(p)
      /\ Process' = Process /\ Record' = Record
    BY <1>0, Rigid DEF params
<1>2. StartPos(p + 1)' = StartPos(p + 1)
    BY <1>0 DEF params, StartPos, Smaller, first_min_pno, min_chunksize
<1>3. /\ StartPos(p) \in 0 .. size /\ StartPos(p) <= StartPos(p + 1)
    <2>1. p \in 1 .. total + 1 /\ p + 1 \in 1 .. total + 1 /\ p <= p + 1
        BY <1>0 DEF Process, TypeOK
    <2> QED BY <1>0, <2>1, Blocks
<1>4. /\ pc'[p] = IF Blockwise THEN "chunk" ELSE Mode
      /\ pos'[p] = IF Blockwise THEN StartPos(p) ELSE 0
      /\ events'[p] = IF Mode = "legacy" THEN perm ELSE File
      /\ trail'[p] = <<File>> /\ out'[p] = <<>>
    <2>1. pos[p] = 0 /\ out[p] = <<>>
        BY <1>0 DEF IInv, LoopInv
    <2> QED BY <1>0, <2>1 DEF ReadEvents, TypeOK, Blockwise
<1>5. File \in Permutation /\ perm \in Permutation
    BY FileIsPermutation DEF IInv
<1>6. Mode \in {"chunk", "deal", "fisher", "legacy"} /\ (~Blockwise => Mode \in {"deal", "fisher"})
    BY DEF Mode, Blockwise
<1>7. TypeOK'
    <2>1. pc' \in [Process -> {"start", "chunk", "deal", "fisher", "done"}]
        BY <1>0, <1>6 DEF ReadEvents, TypeOK, Blockwise
    <2>2. events' \in [Process -> [Record -> Record]]
        BY <1>0, <1>5 DEF ReadEvents, TypeOK, Permutation
    <2>3. pos' \in [Process -> 0 .. size]
        BY <1>0, <1>3 DEF ReadEvents, TypeOK
    <2>4. trail' \in [Process -> Seq([Record -> Record])]
        <3>1. <<File>> \in Seq([Record -> Record])
            BY <1>5 DEF Permutation
        <3> QED BY <1>0, <3>1 DEF ReadEvents, TypeOK
    <2>5. UNCHANGED <<shuffle, randomise, legacy, total, size, draw, perm, out>>
        BY DEF ReadEvents, params
    <2> QED BY <1>0, <1>1, <2>1, <2>2, <2>3, <2>4, <2>5 DEF TypeOK
<1>8. LoopInv(p)'
    BY <1>0, <1>1, <1>2, <1>3, <1>4, <1>6 DEF LoopInv, TypeOK
<1>9. TrailInv(p)'
    BY <1>1, <1>4 DEF TrailInv, Blockwise
<1>10. OutInv(p)'
    <2>1. \A k \in 1 .. pos'[p] : ~Owned(p, k)
        BY <1>3, <1>4 DEF Owned
    <2>2. \A k : Owned(p, k)' = Owned(p, k)
        BY <1>0, Rigid
    <2> QED BY <1>4, <2>1, <2>2 DEF OutInv
<1>11. SameTrail'
    <2> SUFFICES ASSUME Mode' = "fisher", NEW q \in Process, NEW r \in Process,
                        NEW j \in 1 .. Len(trail'[q]), j <= Len(trail'[r])
                 PROVE  trail'[q][j] = trail'[r][j]
        BY <1>1 DEF SameTrail
    <2>1. \A s \in Process : s # p => trail'[s] = trail[s]
        BY <1>0 DEF ReadEvents, TypeOK
    <2>2. \A s \in Process : trail'[s] # <<>> => trail'[s][1] = File
        <3> TAKE s \in Process
        <3>1. CASE s = p
            BY <1>4, <3>1
        <3>2. CASE s # p
            BY <1>1, <2>1, <3>2 DEF IInv, LoopInv, TrailInv
        <3> QED BY <3>1, <3>2
    <2>3. CASE q = p \/ r = p
        <3>1. j = 1 /\ Len(trail'[q]) # 0 /\ Len(trail'[r]) # 0
            <4>1. Len(trail'[q]) \in Nat /\ Len(trail'[r]) \in Nat
                BY <1>1, <1>7 DEF TypeOK
            <4>2. Len(trail'[p]) = 1
                BY <1>4
            <4>3. Len(trail'[q]) >= 1 /\ Len(trail'[r]) >= 1 /\ j >= 1
                BY <4>1
            <4>4. CASE q = p
                <5>1. Len(trail'[q]) = 1
                    BY <4>2, <4>4
                <5> QED BY <4>1, <4>3, <5>1
            <4>5. CASE r = p
                <5>1. Len(trail'[r]) = 1
                    BY <4>2, <4>5
                <5> QED BY <4>1, <4>3, <5>1
            <4> QED BY <2>3, <4>4, <4>5
        <3> QED BY <2>2, <3>1
    <2>4. CASE q # p /\ r # p
        BY <1>1, <2>1, <2>4 DEF IInv, SameTrail
    <2> QED BY <2>3, <2>4
<1>12. \A q \in Process : q # p =>
               /\ pc'[q] = pc[q] /\ events'[q] = events[q] /\ pos'[q] = pos[q]
               /\ out'[q] = out[q] /\ trail'[q] = trail[q]
    BY <1>0 DEF ReadEvents, TypeOK
<1>13. (events[p] \in Permutation)'
    BY <1>1, <1>4, <1>5
<1> QED BY <1>0, <1>7, <1>8, <1>9, <1>10, <1>11, <1>12, <1>13, OneProcess

\* Passing one more element, and emitting it if it is owned.
LEMMA Emission ==
    ASSUME IInv, UNCHANGED params, NEW p \in Process, NEW k \in Record, k = pos[p] + 1,
           NEW v \in Permutation, \A i \in 1 .. pos[p] : v[i] = events[p][i],
           NEW o, o = IF Owned(p, k) THEN Append(out[p], v[k]) ELSE out[p],
           pos'[p] = k, events'[p] = v, out'[p] = o
    PROVE  OutInv(p)' /\ o \in Seq(Record)
<1> DEFINE L == Len(out[p])
<1>1. /\ out[p] \in Seq(Record) /\ L \in Nat /\ pos[p] \in Nat /\ k \in Nat
      /\ k \notin 1 .. pos[p] /\ 1 .. k = (1 .. pos[p]) \cup {k}
      /\ 1 .. k \subseteq Record /\ v[k] \in Record /\ OneToOne(v)
    <2>1. out[p] \in Seq(Record) /\ L \in Nat /\ pos[p] \in Nat /\ size \in Nat
        BY DEF IInv, TypeOK
    <2>2. v[k] \in Record /\ OneToOne(v)
        BY DEF Permutation
    <2> QED BY <2>1, <2>2 DEF Record
<1>2. /\ \A m \in 1 .. L : \E i \in 1 .. pos[p] : Owned(p, i) /\ out[p][m] = v[i]
      /\ \A i \in 1 .. pos[p] : Owned(p, i) => \E m \in 1 .. L : out[p][m] = v[i]
      /\ \A m, n \in 1 .. L : out[p][m] = out[p][n] => m = n
    BY DEF OutInv, IInv
<1>3. SUFFICES /\ o \in Seq(Record)
               /\ \A m \in 1 .. Len(o) : \E i \in 1 .. k : Owned(p, i) /\ o[m] = v[i]
               /\ \A i \in 1 .. k : Owned(p, i) => \E m \in 1 .. Len(o) : o[m] = v[i]
               /\ \A m, n \in 1 .. Len(o) : o[m] = o[n] => m = n
    <2>1. \A i : Owned(p, i)' = Owned(p, i)
        BY Rigid
    <2>2. \A m \in 1 .. Len(out'[p]) : \E i \in 1 .. pos'[p] :
             Owned(p, i)' /\ out'[p][m] = events'[p][i]
        <3> TAKE m \in 1 .. Len(out'[p])
        <3>1. PICK i \in 1 .. k : Owned(p, i) /\ o[m] = v[i]
            BY <1>3
        <3>2. Owned(p, i)'
            BY <2>1, <3>1
        <3> QED BY <3>1, <3>2
    <2>3. \A i \in 1 .. pos'[p] : Owned(p, i)' =>
             \E m \in 1 .. Len(out'[p]) : out'[p][m] = events'[p][i]
        <3> TAKE i \in 1 .. pos'[p]
        <3> HAVE Owned(p, i)'
        <3>1. i \in 1 .. k /\ Owned(p, i)
            BY <2>1
        <3>2. PICK m \in 1 .. Len(o) : o[m] = v[i]
            BY <1>3, <3>1
        <3> QED BY <3>2
    <2>4. \A m, n \in 1 .. Len(out'[p]) : out'[p][m] = out'[p][n] => m = n
        <3> TAKE m, n \in 1 .. Len(out'[p])
        <3> HAVE out'[p][m] = out'[p][n]
        <3>1. m \in 1 .. Len(o) /\ n \in 1 .. Len(o) /\ o[m] = o[n]
            OBVIOUS
        <3> QED BY <1>3, <3>1
    <2> QED BY <1>3, <2>2, <2>3, <2>4 DEF OutInv
<1>4. CASE ~Owned(p, k)
    <2>1. o = out[p]
        BY <1>4
    <2>2. \A m \in 1 .. L : \E i \in 1 .. k : Owned(p, i) /\ out[p][m] = v[i]
        BY <1>1, <1>2
    <2>3. \A i \in 1 .. k : Owned(p, i) => \E m \in 1 .. L : out[p][m] = v[i]
        BY <1>1, <1>2, <1>4
    <2> QED BY <1>1, <1>2, <2>1, <2>2, <2>3
<1>5. CASE Owned(p, k)
    <2>1. /\ o \in Seq(Record) /\ Len(o) = L + 1 /\ o[L + 1] = v[k]
          /\ \A m \in 1 .. L : o[m] = out[p][m]
          /\ 1 .. L + 1 = (1 .. L) \cup {L + 1} /\ L + 1 \notin 1 .. L
        BY <1>1, <1>5
    <2> HIDE DEF L
    <2>2. \A m \in 1 .. L + 1 : \E i \in 1 .. k : Owned(p, i) /\ o[m] = v[i]
        <3> TAKE m \in 1 .. L + 1
        <3>1. CASE m = L + 1
            <4>1. k \in 1 .. k
                BY <1>1
            <4> QED BY <1>5, <2>1, <3>1, <4>1
        <3>2. CASE m \in 1 .. L
            <4>1. PICK i \in 1 .. pos[p] : Owned(p, i) /\ out[p][m] = v[i]
                BY <1>2, <3>2
            <4>2. o[m] = out[p][m]
                BY <2>1, <3>2
            <4>3. i \in 1 .. k
                BY <1>1, <4>1
            <4> QED BY <4>1, <4>2, <4>3
        <3> QED BY <2>1, <3>1, <3>2
    <2>3. \A i \in 1 .. k : Owned(p, i) => \E m \in 1 .. L + 1 : o[m] = v[i]
        <3> TAKE i \in 1 .. k
        <3>1. CASE i = k
            BY <2>1, <3>1
        <3>2. CASE i \in 1 .. pos[p]
            <4> HAVE Owned(p, i)
            <4>1. PICK m \in 1 .. L : out[p][m] = v[i]
                BY <1>2, <3>2
            <4>2. m \in 1 .. L + 1 /\ o[m] = v[i]
                BY <2>1, <4>1
            <4> QED BY <4>2
        <3> QED BY <1>1, <3>1, <3>2
    <2>4. \A m \in 1 .. L : o[m] # o[L + 1]
        <3> TAKE m \in 1 .. L
        <3>1. PICK i \in 1 .. pos[p] : o[m] = v[i]
            <4>1. \E i \in 1 .. pos[p] : out[p][m] = v[i]
                BY <1>2
            <4> QED BY <2>1, <4>1
        <3>2. i \in Record /\ i # k
            BY <1>1
        <3> QED BY <1>1, <2>1, <3>1, <3>2 DEF OneToOne
    <2>5. \A m, n \in 1 .. L + 1 : o[m] = o[n] => m = n
        BY <1>2, <2>1, <2>4
    <2> QED BY <2>1, <2>2, <2>3, <2>5
<1> QED BY <1>4, <1>5

\* EmitNext keeps IInv.
LEMMA EmitStep ==
    ASSUME IInv, NEW p \in Process, EmitNext(p)
    PROVE  IInv'
<1> DEFINE k == pos[p] + 1
<1>0. TypeOK /\ UNCHANGED <<params, pc, events, trail>> /\ pc[p] = "chunk"
    BY DEF IInv, EmitNext
<1>1. /\ size' = size /\ perm' = perm /\ total' = total
      /\ Mode' = Mode /\ Blockwise' = Blockwise /\ File' = File
      /\ Permutation' = Permutation /\ StartPos(p)' = StartPos(p)
      /\ Process' = Process /\ Record' = Record
    BY <1>0, Rigid DEF params
<1>2. StartPos(p + 1)' = StartPos(p + 1)
    BY <1>0 DEF params, StartPos, Smaller, first_min_pno, min_chunksize
<1>3. /\ Blockwise /\ StartPos(p) <= pos[p] /\ pos[p] < StartPos(p + 1)
      /\ StartPos(p) \in Nat /\ StartPos(p + 1) \in 0 .. size /\ pos[p] \in Nat
    <2>1. p \in 1 .. total + 1 /\ p + 1 \in 1 .. total + 1
        BY <1>0 DEF Process, TypeOK
    <2>2. Blockwise /\ StartPos(p) <= pos[p] /\ pos[p] < StartPos(p + 1)
        BY <1>0 DEF IInv, LoopInv, EmitNext
    <2>3. StartPos(p) \in 0 .. size /\ StartPos(p + 1) \in 0 .. size
        BY <1>0, <2>1, Blocks
    <2>4. size \in Nat /\ pos[p] \in 0 .. size
        BY <1>0 DEF TypeOK
    <2> QED BY <2>2, <2>3, <2>4
<1>4. k \in Record /\ Owned(p, k) /\ k <= StartPos(p + 1)
    <2>1. size \in Nat
        BY <1>0 DEF TypeOK
    <2>2. k \in Nat /\ StartPos(p) < k /\ k <= StartPos(p + 1) /\ k >= 1 /\ k <= size
        BY <1>3, <2>1
    <2> QED BY <1>3, <2>1, <2>2 DEF Record, Owned
<1>5. /\ pos'[p] = k /\ out'[p] = Append(out[p], events[p][k])
      /\ events'[p] = events[p] /\ events[p] \in Permutation
    BY <1>0 DEF EmitNext, IInv, TypeOK
<1>6. OutInv(p)' /\ out'[p] \in Seq(Record)
    BY <1>0, <1>4, <1>5, Emission
<1>7. TypeOK'
    <2>1. pos' \in [Process -> 0 .. size]
        <3>1. k \in 0 .. size /\ pos' = [pos EXCEPT ![p] = k]
            BY <1>0, <1>4 DEF EmitNext, Record, TypeOK
        <3> QED BY <1>0, <3>1 DEF TypeOK
    <2>2. out' \in [Process -> Seq(Record)]
        BY <1>0, <1>5, <1>6 DEF EmitNext, TypeOK
    <2>3. UNCHANGED <<shuffle, randomise, legacy, total, size, draw, perm>>
        BY <1>0 DEF params
    <2> QED BY <1>0, <1>1, <2>1, <2>2, <2>3 DEF TypeOK
<1>8. LoopInv(p)'
    BY <1>0, <1>1, <1>2, <1>3, <1>4, <1>5 DEF LoopInv, IInv
<1>9. TrailInv(p)' /\ SameTrail'
    BY <1>0, <1>1, <1>3 DEF TrailInv, SameTrail, Blockwise
<1>10. \A q \in Process : q # p =>
               /\ pc'[q] = pc[q] /\ events'[q] = events[q] /\ pos'[q] = pos[q]
               /\ out'[q] = out[q] /\ trail'[q] = trail[q]
    BY <1>0 DEF EmitNext, TypeOK
<1>11. (events[p] \in Permutation)'
    BY <1>1, <1>5
<1> QED BY <1>0, <1>6, <1>7, <1>8, <1>9, <1>10, <1>11, OneProcess

\* DealNext keeps IInv.
LEMMA DealStep ==
    ASSUME IInv, NEW p \in Process, DealNext(p)
    PROVE  IInv'
<1> DEFINE k == pos[p] + 1
<1>0. TypeOK /\ UNCHANGED <<params, pc, events, trail>> /\ pc[p] = "deal" /\ k <= size
    BY DEF IInv, DealNext
<1>1. /\ size' = size /\ perm' = perm /\ total' = total
      /\ Mode' = Mode /\ Blockwise' = Blockwise /\ File' = File
      /\ Permutation' = Permutation /\ StartPos(p)' = StartPos(p)
      /\ Process' = Process /\ Record' = Record
    BY <1>0, Rigid DEF params
<1>2. Mode = "deal" /\ ~Blockwise
    BY <1>0 DEF IInv, LoopInv, Blockwise
<1>3. k \in Record /\ (Owned(p, k) <=> Dealt(p, k))
    <2>1. size \in Nat /\ pos[p] \in Nat
        BY <1>0 DEF TypeOK
    <2>2. k \in Record
        BY <1>0, <2>1 DEF Record
    <2> QED BY <1>2, <2>2 DEF Owned
<1>4. /\ pos'[p] = k /\ events'[p] = events[p] /\ events[p] \in Permutation
      /\ out'[p] = IF Owned(p, k) THEN Append(out[p], events'[p][k]) ELSE out[p]
    BY <1>0, <1>3 DEF DealNext, IInv, TypeOK
<1>5. OutInv(p)' /\ out'[p] \in Seq(Record)
    BY <1>0, <1>3, <1>4, Emission
<1>6. TypeOK'
    <2>1. pos' \in [Process -> 0 .. size]
        <3>1. k \in 0 .. size /\ pos' = [pos EXCEPT ![p] = k]
            BY <1>0, <1>3 DEF DealNext, Record, TypeOK
        <3> QED BY <1>0, <3>1 DEF TypeOK
    <2>2. out' \in [Process -> Seq(Record)]
        BY <1>0, <1>4, <1>5 DEF DealNext, TypeOK
    <2>3. UNCHANGED <<shuffle, randomise, legacy, total, size, draw, perm>>
        BY <1>0 DEF params
    <2> QED BY <1>0, <1>1, <2>1, <2>2, <2>3 DEF TypeOK
<1>7. LoopInv(p)'
    BY <1>0, <1>1, <1>2, <1>4 DEF LoopInv, IInv
<1>8. TrailInv(p)' /\ SameTrail'
    BY <1>0, <1>1, <1>2 DEF TrailInv, SameTrail
<1>9. \A q \in Process : q # p =>
               /\ pc'[q] = pc[q] /\ events'[q] = events[q] /\ pos'[q] = pos[q]
               /\ out'[q] = out[q] /\ trail'[q] = trail[q]
    BY <1>0 DEF DealNext, TypeOK
<1>10. (events[p] \in Permutation)'
    BY <1>1, <1>4
<1> QED BY <1>0, <1>5, <1>6, <1>7, <1>8, <1>9, <1>10, OneProcess

\* SwapNext keeps IInv.
LEMMA SwapStep ==
    ASSUME IInv, NEW p \in Process, SwapNext(p)
    PROVE  IInv'
<1>0. /\ TypeOK /\ UNCHANGED <<params, pc>> /\ pc[p] = "fisher"
      /\ UNCHANGED <<shuffle, randomise, legacy, total, size, draw, perm>>
    BY DEF IInv, SwapNext, params
<1> DEFINE k == pos[p] + 1
<1>1. /\ Mode' = Mode /\ Blockwise' = Blockwise /\ File' = File
      /\ Permutation' = Permutation /\ StartPos(p)' = StartPos(p)
      /\ Process' = Process /\ Record' = Record
    BY <1>0, Rigid
<1>2. Mode = "fisher" /\ ~Blockwise
    BY <1>0 DEF IInv, LoopInv, Blockwise
<1>3. k \in Record /\ k + draw[k] \in Record /\ draw[k] \in Nat /\ pos[p] \in Nat
    <2>1. size \in Nat /\ pos[p] \in Nat /\ k <= size
        BY <1>0 DEF TypeOK, SwapNext
    <2>2. k \in Record
        BY <2>1 DEF Record
    <2> QED BY <1>0, <2>1, <2>2 DEF TypeOK
<1>4. PICK v : v = Shuffled(events[p], k)
    OBVIOUS
<1>5. /\ v \in Permutation /\ events[p] \in Permutation
      /\ \A i \in 1 .. pos[p] : v[i] = events[p][i]
    <2>1. events[p] \in Permutation
        BY DEF IInv
    <2>2. v = Swap(events[p], k, k + draw[k])
        BY <1>4 DEF Shuffled
    <2> HIDE DEF k
    <2>3. /\ v \in Permutation
          /\ \A i \in Record : i # k /\ i # k + draw[k] => v[i] = events[p][i]
        <3>1. PICK l : l = k + draw[k]
            OBVIOUS
        <3>2. k \in Record /\ l \in Record /\ v = Swap(events[p], k, l)
            BY <1>3, <2>2, <3>1
        <3>3. /\ v \in Permutation
              /\ \A i \in Record : i # k /\ i # l => v[i] = events[p][i]
            BY <2>1, <3>2, SwapPermutes
        <3> QED BY <3>1, <3>3
    <2>4. \A i \in 1 .. pos[p] : i \in Record /\ i # k /\ i # k + draw[k]
        <3>1. PICK d : d = draw[k]
            OBVIOUS
        <3>2. d \in Nat /\ pos[p] \in 0 .. size /\ size \in Nat /\ k = pos[p] + 1
            BY <1>0, <1>3, <3>1 DEF TypeOK, k
        <3>3. \A i \in 1 .. pos[p] : i \in 1 .. size /\ i # k /\ i # k + d
            BY <3>2
        <3> QED BY <3>1, <3>3 DEF Record
    <2> QED BY <2>1, <2>3, <2>4
<1>6. PICK o : o = IF Owned(p, k) THEN Append(out[p], v[k]) ELSE out[p]
    OBVIOUS
<1>7. /\ pos' = [pos EXCEPT ![p] = k] /\ events' = [events EXCEPT ![p] = v]
      /\ out' = [out EXCEPT ![p] = o] /\ trail' = [trail EXCEPT ![p] = Append(trail[p], v)]
    <2>1. Owned(p, k) <=> Dealt(p, k)
        BY <1>2 DEF Owned
    <2>2. out = [out EXCEPT ![p] = out[p]]
        BY <1>0 DEF TypeOK
    <2> QED BY <1>4, <1>6, <2>1, <2>2 DEF SwapNext
<1>8. pos'[p] = k /\ events'[p] = v /\ out'[p] = o /\ trail'[p] = Append(trail[p], v)
    BY <1>0, <1>7 DEF TypeOK
<1> HIDE DEF k
<1>9. OutInv(p)' /\ o \in Seq(Record)
    BY <1>0, <1>3, <1>5, <1>6, <1>8, Emission DEF k
<1>10. TypeOK'
    <2>1. v \in [Record -> Record] /\ k \in 0 .. size
        BY <1>3, <1>5 DEF Permutation, Record
    <2>2. /\ pos' \in [Process -> 0 .. size] /\ events' \in [Process -> [Record -> Record]]
          /\ out' \in [Process -> Seq(Record)]
        BY <1>0, <1>7, <1>9, <2>1 DEF TypeOK
    <2>3. trail' \in [Process -> Seq([Record -> Record])]
        <3>1. Append(trail[p], v) \in Seq([Record -> Record])
            BY <1>0, <2>1 DEF TypeOK
        <3> QED BY <1>0, <1>7, <3>1 DEF TypeOK
    <2> QED BY <1>0, <1>1, <2>2, <2>3 DEF TypeOK
<1>11. LoopInv(p)'
    BY <1>0, <1>1, <1>2, <1>8 DEF LoopInv
<1>12. /\ trail[p] \in Seq([Record -> Record]) /\ Len(trail[p]) = k /\ k \in Nat
       /\ trail[p][1] = File /\ trail[p][k] = events[p]
       /\ \A j \in 1 .. pos[p] : trail[p][j + 1] = Shuffled(trail[p][j], j)
       /\ \A j \in 1 .. pos[p] : trail[p][j + 1][j] = events[p][j]
    <2>1. TrailInv(p) /\ pc[p] # "start" /\ k = pos[p] + 1 /\ k \in Nat
        BY <1>0, <1>3 DEF IInv, k
    <2>2. trail[p] \in Seq([Record -> Record])
        BY <1>0 DEF TypeOK
    <2> QED BY <1>2, <2>1, <2>2 DEF TrailInv
<1>13. PICK w : w = Append(trail[p], v)
    OBVIOUS
<1>14. /\ Len(w) = k + 1 /\ w[k + 1] = v /\ \A j \in 1 .. k : w[j] = trail[p][j]
       /\ w[1] = File /\ 1 .. k = (1 .. pos[p]) \cup {k}
       /\ \A j \in 1 .. pos[p] : j \in 1 .. k /\ j + 1 \in 1 .. k
    <2>1. k \in Nat /\ pos[p] \in Nat /\ k = pos[p] + 1
        BY <1>3 DEF k
    <2>2. /\ Len(w) = k + 1 /\ w[k + 1] = v
          /\ \A j \in 1 .. k : w[j] = trail[p][j]
        BY <1>12, <1>13
    <2>3. /\ 1 \in 1 .. k /\ 1 .. k = (1 .. pos[p]) \cup {k}
          /\ \A j \in 1 .. pos[p] : j \in 1 .. k /\ j + 1 \in 1 .. k
        BY <2>1
    <2>4. w[1] = File
        BY <1>12, <2>2, <2>3, Zenon
    <2> QED BY <2>2, <2>3, <2>4
<1>15. \A j \in 1 .. k : w[j + 1] = Shuffled(w[j], j) /\ w[j + 1][j] = v[j]
    <2> TAKE j \in 1 .. k
    <2>1. CASE j = k
        <3>1. w[k] = events[p]
            BY <1>12, <1>14, <2>1
        <3> QED BY <1>4, <1>14, <2>1, <3>1
    <2>2. CASE j \in 1 .. pos[p]
        BY <1>5, <1>12, <1>14, <2>2
    <2> QED BY <1>14, <2>1, <2>2
<1>16. TrailInv(p)'
    <2>1. /\ trail'[p] = w /\ pos'[p] = k /\ events'[p] = v
        BY <1>8, <1>13
    <2>2. \A j \in 1 .. k : w[j + 1] = [w[j] EXCEPT ![j] = w[j][j + draw'[j]],
                                               ![j + draw'[j]] = w[j][j]]
        BY <1>0, <1>15 DEF Shuffled, Swap
    <2>3. \A j \in 1 .. pos'[p] :
             trail'[p][j + 1] = [trail'[p][j] EXCEPT ![j] = trail'[p][j][j + draw'[j]],
                                                     ![j + draw'[j]] = trail'[p][j][j]]
        BY <2>1, <2>2, Zenon
    <2>4. \A j \in 1 .. pos'[p] : trail'[p][j + 1][j] = events'[p][j]
        BY <1>15, <2>1, Zenon
    <2>5. /\ Len(trail'[p]) = pos'[p] + 1 /\ trail'[p][1] = File'
          /\ trail'[p][pos'[p] + 1] = events'[p]
        BY <1>1, <1>14, <2>1, Zenon
    <2> QED BY <2>3, <2>4, <2>5, Zenon DEF TrailInv, Shuffled, Swap
<1>17. \A q \in Process : q # p =>
               /\ pc'[q] = pc[q] /\ events'[q] = events[q] /\ pos'[q] = pos[q]
               /\ out'[q] = out[q] /\ trail'[q] = trail[q]
    BY <1>0, <1>7 DEF TypeOK
<1>18. SameTrail'
    <2>1. \A q \in Process : \A j \in 1 .. Len(trail[q]) : j <= k => trail[q][j] = w[j]
        <3> TAKE q \in Process
        <3> TAKE j \in 1 .. Len(trail[q])
        <3> HAVE j <= k
        <3>1. Len(trail[q]) \in Nat
            BY <1>0 DEF TypeOK
        <3>2. j \in 1 .. k
            BY <1>12, <3>1
        <3> QED BY <1>2, <1>12, <1>14, <3>2 DEF IInv, SameTrail
    <2>2. \A q \in Process : Len(trail[q]) >= k + 1 => trail[q][k + 1] = v
        <3> TAKE q \in Process
        <3> HAVE Len(trail[q]) >= k + 1
        <3>1. trail[q] # <<>> /\ Len(trail[q]) \in Nat
            BY <1>0, <1>12 DEF TypeOK
        <3>2. TrailInv(q) /\ pc[q] # "start"
            BY <3>1 DEF IInv, LoopInv
        <3>3. k \in 1 .. pos[q] /\ k \in 1 .. Len(trail[q])
            <4>1. Len(trail[q]) = pos[q] + 1 /\ pos[q] \in Nat
                BY <1>0, <1>2, <3>2 DEF TrailInv, TypeOK
            <4>2. k \in Nat /\ k >= 1
                BY <1>3 DEF Record
            <4> QED BY <3>1, <4>1, <4>2
        <3>4. trail[q][k + 1] = Shuffled(trail[q][k], k)
            BY <1>2, <3>2, <3>3 DEF TrailInv
        <3>5. trail[q][k] = events[p]
            BY <1>12, <1>14, <2>1, <3>3
        <3> QED BY <1>4, <3>4, <3>5 DEF Shuffled
    <2>3. \A q \in Process : \A j \in 1 .. Len(trail[q]) : j <= k + 1 => trail[q][j] = w[j]
        <3> TAKE q \in Process
        <3> TAKE j \in 1 .. Len(trail[q])
        <3> HAVE j <= k + 1
        <3>1. Len(trail[q]) \in Nat
            BY <1>0 DEF TypeOK
        <3>2. CASE j <= k
            BY <2>1, <3>2
        <3>3. CASE j = k + 1
            BY <1>14, <2>2, <3>1, <3>3
        <3> QED BY <1>12, <3>1, <3>2, <3>3
    <2>4. ASSUME NEW q \in Process, NEW r \in Process,
                 NEW j \in 1 .. Len(trail'[q]), j <= Len(trail'[r])
          PROVE  trail'[q][j] = trail'[r][j]
        <3>0. Len(trail'[q]) \in Nat /\ Len(trail'[r]) \in Nat
            BY <1>1, <1>10 DEF TypeOK
        <3>1. CASE q = p /\ r = p
            BY <3>1
        <3>2. CASE q = p /\ r # p
            <4>1. trail'[q] = w /\ trail'[r] = trail[r]
                BY <1>8, <1>13, <1>17, <3>2
            <4>2. j \in 1 .. Len(trail[r]) /\ j <= k + 1
                BY <1>14, <2>4, <3>0, <4>1
            <4> QED BY <2>3, <4>1, <4>2
        <3>3. CASE q # p /\ r = p
            <4>1. trail'[r] = w /\ trail'[q] = trail[q]
                BY <1>8, <1>13, <1>17, <3>3
            <4>2. j \in 1 .. Len(trail[q]) /\ j <= k + 1
                BY <1>14, <2>4, <3>0, <4>1
            <4> QED BY <2>3, <4>1, <4>2
        <3>4. CASE q # p /\ r # p
            <4>1. trail'[r] = trail[r] /\ trail'[q] = trail[q]
                BY <1>17, <3>4
            <4> QED BY <1>2, <2>4, <4>1 DEF IInv, SameTrail
        <3> QED BY <3>1, <3>2, <3>3, <3>4
    <2> QED BY <1>1, <2>4 DEF SameTrail
<1>19. (events[p] \in Permutation)'
    BY <1>1, <1>5, <1>8
<1> QED BY <1>0, <1>9, <1>10, <1>11, <1>16, <1>17, <1>18, <1>19, OneProcess

\* Finish keeps IInv.
LEMMA FinishStep ==
    ASSUME IInv, NEW p \in Process, Finish(p)
    PROVE  IInv'
<1>0. TypeOK /\ UNCHANGED <<params, events, pos, out, trail>> /\ pc[p] # "start"
    BY DEF IInv, Finish
<1>1. /\ size' = size /\ perm' = perm /\ total' = total
      /\ Mode' = Mode /\ Blockwise' = Blockwise /\ File' = File
      /\ Permutation' = Permutation /\ StartPos(p)' = StartPos(p)
      /\ Process' = Process /\ Record' = Record
    BY <1>0, Rigid DEF params
<1>2. StartPos(p + 1)' = StartPos(p + 1)
    BY <1>0 DEF params, StartPos, Smaller, first_min_pno, min_chunksize
<1>3. pc'[p] = "done" /\ pc' \in [Process -> {"start", "chunk", "deal", "fisher", "done"}]
    BY <1>0 DEF Finish, TypeOK
<1>4. pos[p] = IF Blockwise THEN StartPos(p + 1) ELSE size
    <2>1. LoopInv(p) /\ pos[p] \in 0 .. size
        BY <1>0 DEF IInv, TypeOK
    <2>2. CASE pc[p] = "chunk"
        <3>1. Blockwise /\ pos[p] <= StartPos(p + 1) /\ pos[p] >= StartPos(p + 1)
            BY <2>1, <2>2 DEF LoopInv, Finish
        <3>2. p + 1 \in 1 .. total + 1
            BY <1>0 DEF Process, TypeOK
        <3>3. StartPos(p + 1) \in 0 .. size
            BY <1>0, <3>2, Blocks
        <3> QED BY <1>0, <2>1, <3>1, <3>3 DEF TypeOK
    <2>3. CASE pc[p] \in {"deal", "fisher"}
        <3>1. ~Blockwise /\ pos[p] >= size
            BY <2>1, <2>3 DEF LoopInv, Finish, Blockwise
        <3> QED BY <1>0, <2>1, <3>1 DEF TypeOK
    <2> QED BY <2>2, <2>3 DEF Finish
<1>5. LoopInv(p)'
    BY <1>0, <1>1, <1>2, <1>3, <1>4 DEF LoopInv, IInv
<1>6. TypeOK'
    <2>1. UNCHANGED <<shuffle, randomise, legacy, total, size, draw, perm>>
        BY <1>0 DEF params
    <2> QED BY <1>0, <1>1, <1>3, <2>1 DEF TypeOK
<1>7. \A i : Owned(p, i)' = Owned(p, i)
    BY <1>0, Rigid
<1>8. OutInv(p)'
    BY <1>0, <1>7 DEF OutInv, IInv
<1>9. TrailInv(p)'
    <2>1. draw' = draw
        BY <1>0 DEF params
    <2> QED BY <1>0, <1>1, <2>1 DEF TrailInv, IInv, Shuffled, Swap
<1>10. SameTrail' /\ (events[p] \in Permutation)'
    BY <1>0, <1>1 DEF SameTrail, IInv
<1>11. \A q \in Process : q # p =>
               /\ pc'[q] = pc[q] /\ events'[q] = events[q] /\ pos'[q] = pos[q]
               /\ out'[q] = out[q] /\ trail'[q] = trail[q]
    BY <1>0 DEF Finish, TypeOK
<1> QED BY <1>0, <1>5, <1>6, <1>8, <1>9, <1>10, <1>11, OneProcess

\* Every variable keeps its type and the invariant holds: in particular the
\* block loop never runs past the end of the vector (emitevents).
THEOREM TypeCorrect == Spec => [](TypeOK /\ IInv)
<1>1. IInv /\ [Next]_vars => IInv'
    <2> SUFFICES ASSUME IInv, [Next]_vars PROVE IInv'
        OBVIOUS
    <2>1. ASSUME NEW p \in Process,
                 ReadEvents(p) \/ EmitNext(p) \/ DealNext(p) \/ SwapNext(p) \/ Finish(p)
          PROVE  IInv'
        BY <2>1, ReadStep, EmitStep, DealStep, SwapStep, FinishStep
    <2>2. CASE UNCHANGED vars
        <3>1. /\ UNCHANGED params /\ pc' = pc /\ events' = events /\ pos' = pos
              /\ out' = out /\ trail' = trail
              /\ UNCHANGED <<shuffle, randomise, legacy, total, size, draw, perm>>
            BY <2>2 DEF vars, params
        <3>2. /\ Mode' = Mode /\ Blockwise' = Blockwise /\ File' = File
              /\ Permutation' = Permutation /\ Process' = Process /\ Record' = Record
            BY <3>1, Rigid
        <3>3. ASSUME NEW p \in Process PROVE LoopInv(p)' /\ OutInv(p)' /\ TrailInv(p)'
            <4>1. /\ StartPos(p)' = StartPos(p) /\ StartPos(p + 1)' = StartPos(p + 1)
                BY <3>1 DEF StartPos, Smaller, first_min_pno, min_chunksize
            <4>2. LoopInv(p)'
                BY <3>1, <3>2, <4>1 DEF IInv, LoopInv
            <4>3. \A i : Owned(p, i)' = Owned(p, i)
                BY <3>1, Rigid
            <4>4. OutInv(p)'
                BY <3>1, <4>3 DEF IInv, OutInv
            <4>5. TrailInv(p)'
                BY <3>1, <3>2 DEF IInv, TrailInv, Shuffled, Swap
            <4> QED BY <4>2, <4>4, <4>5
        <3>4. SameTrail'
            BY <3>1, <3>2 DEF IInv, SameTrail
        <3>5. TypeOK'
            BY <3>1, <3>2 DEF IInv, TypeOK
        <3> QED BY <3>1, <3>2, <3>3, <3>4, <3>5 DEF IInv
    <2> QED BY <2>1, <2>2 DEF Next
<1>2. IInv => TypeOK
    BY DEF IInv
<1> QED BY InitInv, <1>1, <1>2, PTL DEF Spec

-----------------------------------------------------------------------------
(* What the partition guarantees.                                           *)

\* Two processes that have both passed element k have the same record there.
LEMMA Agreement ==
    ASSUME IInv, NEW p \in Process, NEW q \in Process, NEW k \in 1 .. pos[p],
           k <= pos[q]
    PROVE  events[p][k] = events[q][k]
<1>0. TypeOK /\ pos[p] \in Nat /\ pos[q] \in Nat
    <2>1. TypeOK
        BY DEF IInv
    <2>2. size \in Nat /\ pos \in [Process -> 0 .. size]
        BY <2>1 DEF TypeOK
    <2> QED BY <2>1, <2>2
<1>1. pc[p] # "start" /\ pc[q] # "start"
    BY <1>0 DEF IInv, LoopInv
<1>2. LoopInv(p) /\ LoopInv(q) /\ TrailInv(p) /\ TrailInv(q) /\ SameTrail
    BY DEF IInv
<1>3. CASE Mode = "fisher"
    <2>0. k \in 1 .. pos[q]
        BY <1>0
    <2>1. /\ trail[p][k + 1][k] = events[p][k] /\ trail[q][k + 1][k] = events[q][k]
          /\ Len(trail[p]) = pos[p] + 1 /\ Len(trail[q]) = pos[q] + 1
        BY <1>1, <1>2, <1>3, <2>0 DEF TrailInv
    <2>2. k + 1 \in 1 .. Len(trail[p]) /\ k + 1 <= Len(trail[q])
        BY <1>0, <2>1
    <2> QED BY <1>2, <1>3, <2>1, <2>2 DEF SameTrail
<1>4. CASE Mode # "fisher"
    BY <1>1, <1>2, <1>4 DEF LoopInv, Blockwise, Mode
<1> QED BY <1>3, <1>4

\* Element k belongs to exactly one process.
LEMMA Ownership ==
    ASSUME TypeOK, NEW k \in Record
    PROVE  /\ \E p \in Process : Owned(p, k)
           /\ \A p, q \in Process : Owned(p, k) /\ Owned(q, k) => p = q
<1>1. CASE Blockwise
    <2>1. \E p \in Process : Owned(p, k)
        BY <1>1, BlocksCover DEF Owned
    <2>2. ASSUME NEW p \in Process, NEW q \in Process, p < q, Owned(p, k), Owned(q, k)
          PROVE  FALSE
        <3>1. /\ p + 1 \in 1 .. total + 1 /\ q \in 1 .. total + 1 /\ p + 1 <= q
            BY <2>2 DEF Process, TypeOK
        <3>2. /\ StartPos(p + 1) <= StartPos(q)
              /\ StartPos(p + 1) \in 0 .. size /\ StartPos(q) \in 0 .. size
            BY <3>1, Blocks
        <3>3. StartPos(q) < k /\ k <= StartPos(p + 1) /\ size \in Nat /\ k \in 1 .. size
            BY <1>1, <2>2 DEF Owned, Record, TypeOK
        <3> QED BY <3>2, <3>3
    <2>3. \A p, q \in Process : p < q \/ q < p \/ p = q
        BY DEF Process
    <2>4. \A p, q \in Process : Owned(p, k) /\ Owned(q, k) => p = q
        BY <2>2, <2>3
    <2> QED BY <2>1, <2>4
<1>2. CASE ~Blockwise
    BY <1>2, Deal DEF Owned
<1> QED BY <1>1, <1>2

\* No event is given to two processes, or twice to one, however the list is
\* split (emitevents, doshuffle, randomiseevents).
THEOREM Disjoint == Spec => []EmittedOnce
<1>1. IInv => EmittedOnce
    <2> SUFFICES ASSUME IInv, NEW p \in Process, NEW q \in Process,
                        NEW m \in 1 .. Len(out[p]), NEW n \in 1 .. Len(out[q]),
                        out[p][m] = out[q][n]
                 PROVE  p = q /\ m = n
        BY DEF EmittedOnce
    <2>1. TypeOK /\ pos[p] \in 0 .. size /\ pos[q] \in 0 .. size /\ size \in Nat
        BY DEF IInv, TypeOK
    <2>2. PICK k \in 1 .. pos[p] : Owned(p, k) /\ out[p][m] = events[p][k]
        BY DEF IInv, OutInv
    <2>3. PICK l \in 1 .. pos[q] : Owned(q, l) /\ out[q][n] = events[q][l]
        BY DEF IInv, OutInv
    <2>4. k \in Record /\ l \in Record /\ (k <= pos[q] \/ l <= pos[p])
        BY <2>1 DEF Record
    <2>5. OneToOne(events[p]) /\ OneToOne(events[q])
        BY DEF IInv, Permutation
    <2>6. k = l
        <3>1. CASE k <= pos[q]
            <4>1. events[p][k] = events[q][k]
                BY <3>1, Agreement
            <4> QED BY <2>2, <2>3, <2>4, <2>5, <4>1 DEF OneToOne
        <3>2. CASE l <= pos[p]
            <4>1. events[q][l] = events[p][l]
                BY <3>2, Agreement
            <4> QED BY <2>2, <2>3, <2>4, <2>5, <4>1 DEF OneToOne
        <3> QED BY <2>4, <3>1, <3>2
    <2>7. p = q
        BY <2>1, <2>2, <2>3, <2>4, <2>6, Ownership
    <2> QED BY <2>7 DEF IInv, OutInv
<1> QED BY TypeCorrect, <1>1, PTL

\* When all processes have ended no event of the list is missing.
THEOREM Covering == Spec => []AllEmitted
<1>1. IInv => AllEmitted
    <2> SUFFICES ASSUME IInv, \A p \in Process : pc[p] = "done", NEW r \in Record
                 PROVE  \E p \in Process : \E m \in 1 .. Len(out[p]) : out[p][m] = r
        BY DEF AllEmitted
    <2>1. TypeOK /\ size \in Nat /\ total \in Nat \ {0}
        BY DEF IInv, TypeOK
    \* In a blockwise run the vectors are equal; otherwise all positions are passed.
    <2>2. PICK w \in Permutation :
              \A p \in Process : \A k \in Record :
                  Owned(p, k) => k \in 1 .. pos[p] /\ events[p][k] = w[k]
        <3>1. CASE Blockwise
            <4>1. PICK w : w = IF Mode = "legacy" THEN perm ELSE File
                OBVIOUS
            <4>2. w \in Permutation
                BY <4>1, FileIsPermutation DEF IInv
            <4>3. \A p \in Process : /\ events[p] = w /\ pos[p] = StartPos(p + 1)
                                    /\ pos[p] \in 0 .. size
                BY <2>1, <3>1, <4>1 DEF IInv, LoopInv, TypeOK
            <4>4. \A p \in Process : \A k \in Record : Owned(p, k) => k \in 1 .. pos[p]
                BY <2>1, <3>1, <4>3 DEF Owned, Record
            <4> QED BY <4>2, <4>3, <4>4
        <3>2. CASE ~Blockwise
            <4>1. \A p \in Process : pos[p] = size
                BY <3>2 DEF IInv, LoopInv
            <4>2. 1 \in Process /\ events[1] \in Permutation
                BY <2>1 DEF Process, IInv
            <4>3. \A p \in Process : \A k \in Record : events[p][k] = events[1][k]
                <5> TAKE p \in Process
                <5> TAKE k \in Record
                <5>1. k \in 1 .. pos[p] /\ k <= pos[1]
                    BY <2>1, <4>1, <4>2 DEF Record
                <5> QED BY <4>2, <5>1, Agreement
            <4> QED BY <4>1, <4>2, <4>3 DEF Record
        <3> QED BY <3>1, <3>2
    <2>3. PICK k \in Record : w[k] = r
        BY DEF Permutation, Onto
    <2>4. PICK p \in Process : Owned(p, k)
        BY <2>1, Ownership
    <2>5. k \in 1 .. pos[p] /\ events[p][k] = r
        BY <2>2, <2>3, <2>4
    <2>6. \E m \in 1 .. Len(out[p]) : out[p][m] = events[p][k]
        BY <2>4, <2>5 DEF IInv, OutInv
    <2> QED BY <2>5, <2>6
<1> QED BY TypeCorrect, <1>1, PTL

-----------------------------------------------------------------------------
(* The dates of the events, in the occurrence file.                        *)
Date == INSTANCE Occurrence

\* The dates of the calendar, from March of the year 0 on: below it the code
\* rounds the other way.
IsLeap(year) == year % 4 = 0 /\ (year % 100 # 0 \/ year % 400 = 0)
Days(year, month) ==
    IF month = 2 THEN (IF IsLeap(year) THEN 29 ELSE 28)
    ELSE IF month \in {4, 6, 9, 11} THEN 30 ELSE 31
IsDate(year, month, day) ==
    /\ year \in Nat \ {0} /\ month \in 1 .. 12 /\ day \in 1 .. Days(year, month)

\* A year by 400, 100 and 4 years, and its days.
InCenturies(y, c, b, a, r) ==
    /\ y = 400 * c + 100 * b + 4 * a + r
    /\ Date!YearDays(y) = 146097 * c + 36524 * b + 1461 * a + 365 * r
\* A year in 400-year cycles, centuries, cycles of four years and years.
LEMMA Centuries ==
    ASSUME NEW y \in Nat
    PROVE  \E c \in Nat, b \in 0 .. 3, a \in 0 .. 24, r \in 0 .. 3 :
              InCenturies(y, c, b, a, r)
<1> DEFINE c == y \div 400
           b == (y - 400 * c) \div 100
           a == (y - 400 * c - 100 * b) \div 4
           r == y - 400 * c - 100 * b - 4 * a
<1>1. c \in Nat /\ y - 400 * c \in 0 .. 399 OBVIOUS
<1>2. b \in 0 .. 3 /\ y - 400 * c - 100 * b \in 0 .. 99
  <2> HIDE DEF c
  <2> QED BY <1>1
<1>3. a \in 0 .. 24 /\ r \in 0 .. 3
  <2> HIDE DEF c, b
  <2> QED BY <1>1, <1>2
<1>4. y = 400 * c + 100 * b + 4 * a + r
  <2> HIDE DEF c, b, a
  <2> QED BY <1>1, <1>2, <1>3
<1> HIDE DEF c, b, a, r
<1>5. y \div 4 = 100 * c + 25 * b + a BY <1>1, <1>2, <1>3, <1>4
<1>6. y \div 100 = 4 * c + b BY <1>1, <1>2, <1>3, <1>4
<1>7. y \div 400 = c BY <1>1, <1>2, <1>3, <1>4
<1>8. Date!YearDays(y) = 146097 * c + 36524 * b + 1461 * a + 365 * r
  BY <1>1, <1>2, <1>3, <1>4, <1>5, <1>6, <1>7, SMT DEF Date!YearDays, Date!CDiv
<1>9. InCenturies(y, c, b, a, r) BY <1>4, <1>8, SMT DEF InCenturies
<1> QED BY <1>1, <1>2, <1>3, <1>9

\* A year ends at the end of February, a day later in a leap year.
LEMMA YearLength ==
    ASSUME NEW y \in Nat
    PROVE  Date!YearDays(y + 1) = Date!YearDays(y) + 365 + (IF IsLeap(y + 1) THEN 1 ELSE 0)
<1>1. /\ (y + 1) \div 4 = (y \div 4) + (IF (y + 1) % 4 = 0 THEN 1 ELSE 0)
      /\ (y + 1) \div 100 = (y \div 100) + (IF (y + 1) % 100 = 0 THEN 1 ELSE 0)
      /\ (y + 1) \div 400 = (y \div 400) + (IF (y + 1) % 400 = 0 THEN 1 ELSE 0)
  OBVIOUS
<1>2. /\ (y + 1) % 100 = 0 => (y + 1) % 4 = 0
      /\ (y + 1) % 400 = 0 => (y + 1) % 100 = 0
  OBVIOUS
<1>3. y \div 4 \in Nat /\ y \div 100 \in Nat /\ y \div 400 \in Nat
  OBVIOUS
<1> QED BY <1>1, <1>2, <1>3 DEF Date!YearDays, Date!CDiv, IsLeap

\* 730485 goes q times into what is less than q + 1 times 730485.
LEMMA WholeYears ==
    ASSUME NEW q \in Nat, NEW rest \in Nat, rest < 730485
    PROVE  (730485 * q + rest) \div 730485 = q
BY SMT

\* The first guess is the year, counted from March, or the one after it.
FirstGuess(n) == Date!CDiv(2000 * n + 2956, 730485)
\* The first guess of the year is right or one too late.
LEMMA Guess ==
    ASSUME NEW y \in Nat, NEW k \in 0 .. 365, NEW n, n = Date!YearDays(y) + k
    PROVE  FirstGuess(n) \in {y, y + 1}
<1>1. PICK c \in Nat, b \in 0 .. 3, a \in 0 .. 24, r \in 0 .. 3 :
        InCenturies(y, c, b, a, r)
  BY Centuries
<1> DEFINE rest == 60 * a - 500 * b - 485 * r + 2000 * k + 2956
<1>2. 2000 * n + 2956 = 730485 * y + rest
  BY <1>1, SMT DEF InCenturies
<1>3. rest \in Nat /\ rest < 2 * 730485 BY <1>1, SMT
<1> HIDE DEF rest
<1>5. CASE rest < 730485
  <2>1. (730485 * y + rest) \div 730485 = y BY <1>3, <1>5, WholeYears, SMT
  <2> QED BY <1>2, <1>3, <2>1, SMT DEF Date!CDiv, FirstGuess
<1>6. CASE ~(rest < 730485)
  <2>1. (730485 * (y + 1) + (rest - 730485)) \div 730485 = y + 1 BY <1>3, <1>6, WholeYears, SMT
  <2>2. 730485 * (y + 1) + (rest - 730485) = 730485 * y + rest BY <1>3, SMT
  <2> QED BY <1>2, <1>3, <2>1, <2>2, SMT DEF Date!CDiv, FirstGuess
<1> QED BY <1>5, <1>6

\* The day of the year gives the year, whether or not the guess is right.
LEMMA YearFound ==
    ASSUME NEW y \in Nat, NEW k \in 0 .. 365, k = 365 => IsLeap(y + 1),
           NEW n, n = Date!YearDays(y) + k
    PROVE  (IF n - Date!YearDays(FirstGuess(n)) < 0 THEN FirstGuess(n) - 1 ELSE FirstGuess(n)) = y
<1>1. FirstGuess(n) \in {y, y + 1} BY Guess, Zenon
<1>2. Date!YearDays(y) \in Nat
  <2>1. PICK c \in Nat, b \in 0 .. 3, a \in 0 .. 24, r \in 0 .. 3 :
          InCenturies(y, c, b, a, r)
    BY Centuries
  <2> QED BY <2>1, SMT DEF InCenturies
<1>3. Date!YearDays(y + 1) \in Int /\ Date!YearDays(y) + k - Date!YearDays(y + 1) < 0
  BY <1>2, YearLength
<1>4. CASE FirstGuess(n) = y BY <1>2, <1>4
<1>5. CASE FirstGuess(n) = y + 1 BY <1>2, <1>3, <1>5
<1> QED BY <1>1, <1>4, <1>5

\* The number of the day from March on, and the month it is in.
MonthFromMarch(month) == (month + 9) % 12
\* The day of the year gives its month.
LEMMA MonthFound ==
    ASSUME NEW year, NEW month, NEW day, IsDate(year, month, day)
    PROVE  LET m == MonthFromMarch(month)
               k == Date!MonthDays(m) + (day - 1)
           IN  /\ k \in 0 .. 365
               /\ k = 365 => month = 2 /\ IsLeap(year)
               /\ Date!CDiv(100 * k + 52, 3060) = m
<1>1. month \in 1 .. 12 /\ day \in 1 .. 31 BY DEF IsDate, Days
<1>2. month = 2 => day =< 28 \/ (day = 29 /\ IsLeap(year)) BY DEF IsDate, Days
<1>3. month \in {4, 6, 9, 11} => day =< 30 BY DEF IsDate, Days
<1> QED BY <1>1, <1>2, <1>3 DEF MonthFromMarch, Date!MonthDays, Date!CDiv

(* Every date from the first of January of the year 1 on comes back from    *)
(* its number: occurrencetobin's g and d of occurrencetocsv and pltcalc are *)
(* inverse to each other, in leap years and at the ends of the centuries    *)
(* too, where the first guess of the year is wrong.                         *)
THEOREM DatesComeBack ==
    \A year, month, day : IsDate(year, month, day) =>
        Date!d(Date!g(year, month, day)) = [year |-> year, month |-> month, day |-> day]
<1> SUFFICES ASSUME NEW year, NEW month, NEW day, IsDate(year, month, day)
             PROVE  Date!d(Date!g(year, month, day)) = [year |-> year, month |-> month, day |-> day]
  OBVIOUS
<1> DEFINE m == MonthFromMarch(month)
           k == Date!MonthDays(m) + (day - 1)
           y == IF month =< 2 THEN year - 1 ELSE year
<1>1. year \in Nat \ {0} /\ month \in 1 .. 12 /\ day \in Nat BY DEF IsDate, Days
<1>2. /\ m \in 0 .. 11 /\ m = Date!CMod(month + 9, 12) /\ y = year - Date!CDiv(m, 10)
      /\ year = y + Date!CDiv(m + 2, 12) /\ month = Date!CMod(m + 2, 12) + 1
  BY <1>1 DEF MonthFromMarch, Date!CMod, Date!CDiv
<1>3. y \in Nat BY <1>1
<1>4. /\ k \in 0 .. 365
      /\ k = 365 => month = 2 /\ IsLeap(year)
      /\ Date!CDiv(100 * k + 52, 3060) = m
  BY MonthFound
<1>5. day = k - Date!MonthDays(m) + 1
  <2>1. Date!MonthDays(m) \in Int BY <1>2 DEF Date!MonthDays, Date!CDiv
  <2> QED BY <1>1, <2>1
<1>6. Date!g(year, month, day) = Date!YearDays(y) + Date!MonthDays(m) + (day - 1) BY <1>2 DEF Date!g
<1>7. k = 365 => IsLeap(y + 1)
  <2>1. month = 2 => y + 1 = year BY <1>1
  <2> QED BY <1>4, <2>1
<1> HIDE DEF m, y
<1>8. Date!YearDays(y) \in Int BY <1>3 DEF Date!YearDays, Date!CDiv
<1>9. Date!MonthDays(m) \in Int BY <1>2 DEF Date!MonthDays, Date!CDiv
<1>10. Date!g(year, month, day) = Date!YearDays(y) + k BY <1>1, <1>6, <1>8, <1>9
<1> HIDE DEF k
<1> DEFINE n == Date!YearDays(y) + k
<1>11. n - Date!YearDays(y) = k BY <1>4, <1>8
<1>12. (IF n - Date!YearDays(FirstGuess(n)) < 0 THEN FirstGuess(n) - 1 ELSE FirstGuess(n)) = y
  BY <1>3, <1>4, <1>7, YearFound, Zenon
<1> HIDE DEF n
<1>13. Date!d(n) = [year |-> y + Date!CDiv(m + 2, 12), month |-> Date!CMod(m + 2, 12) + 1,
               day |-> k - Date!MonthDays(m) + 1]
  BY <1>4, <1>11, <1>12, SMT DEF Date!d, FirstGuess
<1> QED BY <1>2, <1>5, <1>10, <1>13 DEF n
=============================================================================
