--------------------------- MODULE GulCalc_proofs ---------------------------
(* What gulcalc writes, for every items file, coverages file, set of CDFs and *)
(* command line of GulAssumption, and with the CDFs sent as getmodel sends    *)
(* them: blocks are whole (BlocksStayWhole), without allocation the records   *)
(* hold the losses sampled (LossesAreSampled), and a coverage has the sum of  *)
(* its items (CoveragesAreSums).                                              *)
(*                                                                            *)
(* The inductive invariant IInv says, for the CDFs read and the numbers       *)
(* drawn, which records the streams have: Streamed those of the items,        *)
(* Summed those of the coverages and the sums of the event that is not over,  *)
(* and Held the items mode 1 keeps of it.  What a stream has is the set of    *)
(* its keys (event, id, sample), each once: Bears.  The lemmas follow the     *)
(* rows up from one item or coverage, through the pieces FlattenSeq joins,    *)
(* to the turn of the read loop.                                              *)
EXTENDS GulCalc, FiniteSetTheorems, SequenceTheorems, TLAPS

-----------------------------------------------------------------------------
(* Sequences *)

\* s has each element of S once.
Lists(s, S) ==
    /\ s \in Seq(S)
    /\ \A x \in S : \E n \in 1 .. Len(s) : s[n] = x
    /\ \A i, j \in 1 .. Len(s) : s[i] = s[j] => i = j
Increasing(s) == \A i, j \in 1 .. Len(s) : i < j => s[i] < s[j]

Below(S, x) == {y \in S : y < x}

\* The place of an element in ascending order is the number of those below it.
LEMMA RankIs ==
    ASSUME NEW S, S \subseteq Int, IsFiniteSet(S), NEW x \in S
    PROVE  /\ Cardinality(Below(S, x)) \in Nat /\ Cardinality(S) \in Nat
           /\ Cardinality(Below(S, x)) < Cardinality(S)
<1>1. Cardinality(S) \in Nat
    BY FS_CardinalityType
<1>2. Below(S, x) \in SUBSET S /\ x \notin Below(S, x)
    BY DEF Below
<1>3. /\ IsFiniteSet(Below(S, x))
      /\ Cardinality(Below(S, x)) <= Cardinality(S)
      /\ Cardinality(S) # Cardinality(Below(S, x))
    <2>1. S # Below(S, x)
        BY <1>2
    <2> QED BY <1>2, <2>1, FS_Subset
<1>4. Cardinality(Below(S, x)) \in Nat
    BY <1>3, FS_CardinalityType
<1> QED BY <1>1, <1>3, <1>4

\* A greater element has more below it.
LEMMA RankGrows ==
    ASSUME NEW S, S \subseteq Int, IsFiniteSet(S), NEW x \in S, NEW z \in S, x < z
    PROVE  Cardinality(Below(S, x)) < Cardinality(Below(S, z))
<1>1. x \in Int /\ z \in Int
    OBVIOUS
<1>0. \A y \in S : y \in Int /\ (y < x => y < z) /\ ~(x < x)
    OBVIOUS
<1>2. Below(S, x) \in SUBSET Below(S, z) /\ x \in Below(S, z) /\ x \notin Below(S, x)
    BY <1>0 DEF Below
<1>3. IsFiniteSet(Below(S, z))
    BY FS_Subset DEF Below
<1>4. /\ Cardinality(Below(S, x)) <= Cardinality(Below(S, z))
      /\ Cardinality(Below(S, x)) # Cardinality(Below(S, z))
    <2>1. Below(S, z) # Below(S, x)
        BY <1>2
    <2> QED BY <1>2, <1>3, <2>1, FS_Subset
<1>5. Cardinality(Below(S, x)) \in Nat /\ Cardinality(Below(S, z)) \in Nat
    BY RankIs
<1> QED BY <1>4, <1>5

\* Every place is taken.
LEMMA PlaceTaken ==
    ASSUME NEW S, S \subseteq Int, IsFiniteSet(S), NEW n \in 1 .. Cardinality(S)
    PROVE  \E x \in S : Cardinality(Below(S, x)) = n - 1
<1> DEFINE rank == [x \in S |-> Cardinality(Below(S, x))]
           P == 0 .. Cardinality(S) - 1
<1>1. Cardinality(S) \in Nat
    BY FS_CardinalityType
<1>2. rank \in [S -> P] /\ \A x \in S : rank[x] \in Nat
    <2>1. ASSUME NEW x \in S
          PROVE  Cardinality(Below(S, x)) \in P /\ Cardinality(Below(S, x)) \in Nat
        <3>1. /\ Cardinality(Below(S, x)) \in Nat /\ Cardinality(S) \in Nat
              /\ Cardinality(Below(S, x)) < Cardinality(S)
            BY RankIs
        <3> QED BY <3>1
    <2> QED BY <2>1
<1>3. \A x, z \in S : rank[x] = rank[z] => x = z
    <2> SUFFICES ASSUME NEW x \in S, NEW z \in S, x # z PROVE rank[x] # rank[z]
        OBVIOUS
    <2>1. x \in Int /\ z \in Int
        OBVIOUS
    <2>2. x < z \/ z < x
        BY <2>1
    <2>3. rank[x] \in Nat /\ rank[z] \in Nat
        BY <1>2
    <2>4. rank[x] < rank[z] \/ rank[z] < rank[x]
        BY <2>2, RankGrows
    <2> QED BY <2>3, <2>4
<1>4. IsFiniteSet(P) /\ Cardinality(P) = Cardinality(S)
    <2>1. 0 \in Int /\ Cardinality(S) - 1 \in Int
        BY <1>1
    <2> QED BY <1>1, <2>1, FS_Interval
<1>5. rank \in Injection(S, P)
    BY <1>2, <1>3 DEF Injection, IsInjective
<1>6. rank \in Surjection(S, P)
    BY <1>4, <1>5, FS_Injection
<1>7. n - 1 \in P
    BY <1>1
<1>8. PICK x \in S : rank[x] = n - 1
    BY <1>6, <1>7 DEF Surjection
<1> QED BY <1>8

\* The element at a place has as many below it as there are places before.
LEMMA SortedAt ==
    ASSUME NEW S, S \subseteq Int, IsFiniteSet(S), NEW n \in 1 .. Cardinality(S)
    PROVE  Sorted(S)[n] \in S /\ Cardinality(Below(S, Sorted(S)[n])) = n - 1
<1>1. Sorted(S)[n] = CHOOSE x \in S : Cardinality(Below(S, x)) = n - 1
    BY DEF Sorted, Below
<1> QED BY <1>1, PlaceTaken

\* A set in ascending order.
LEMMA SortedIs ==
    ASSUME NEW S, S \subseteq Int, IsFiniteSet(S)
    PROVE  /\ Lists(Sorted(S), S) /\ Increasing(Sorted(S))
           /\ Len(Sorted(S)) = Cardinality(S)
<1>1. Cardinality(S) \in Nat
    BY FS_CardinalityType
<1>2. Sorted(S) \in Seq(S) /\ Len(Sorted(S)) = Cardinality(S)
    <2>1. \A n \in 1 .. Cardinality(S) : Sorted(S)[n] \in S
        BY SortedAt
    <2>2. Sorted(S) \in [1 .. Cardinality(S) -> S]
        <3>1. \A n \in 1 .. Cardinality(S) :
                    (CHOOSE x \in S : Cardinality({y \in S : y < x}) = n - 1) \in S
            BY <2>1, Zenon DEF Sorted
        <3> QED BY <3>1, Zenon DEF Sorted
    <2> QED BY <1>1, <2>2
<1>3. ASSUME NEW i \in 1 .. Cardinality(S), NEW j \in 1 .. Cardinality(S), i < j
      PROVE  Sorted(S)[i] < Sorted(S)[j]
    <2>0. PICK x \in S, z \in S : x = Sorted(S)[i] /\ z = Sorted(S)[j]
        BY SortedAt
    <2>1. Cardinality(Below(S, x)) = i - 1 /\ Cardinality(Below(S, z)) = j - 1
        BY <2>0, SortedAt
    <2>2. x \in Int /\ z \in Int
        OBVIOUS
    <2>3. ~(z < x) /\ x # z
        <3>1. CASE z < x
            <4>1. Cardinality(Below(S, z)) < Cardinality(Below(S, x))
                BY <3>1, RankGrows
            <4> QED BY <1>1, <1>3, <2>1, <4>1
        <3> QED BY <1>1, <1>3, <2>1, <3>1
    <2> QED BY <2>0, <2>2, <2>3
<1>4. ASSUME NEW x \in S PROVE \E n \in 1 .. Cardinality(S) : Sorted(S)[n] = x
    <2>0. PICK r \in Nat : r = Cardinality(Below(S, x)) /\ r < Cardinality(S)
        BY RankIs
    <2>1. PICK n \in 1 .. Cardinality(S) : n - 1 = Cardinality(Below(S, x))
        <3>1. r + 1 \in 1 .. Cardinality(S) /\ (r + 1) - 1 = r
            BY <1>1, <2>0
        <3> QED BY <2>0, <3>1
    <2>2. PICK z \in S : z = Sorted(S)[n] /\ Cardinality(Below(S, z)) = n - 1
        BY SortedAt
    <2>3. x \in Int /\ z \in Int
        OBVIOUS
    <2>4. CASE z < x
        <3>1. Cardinality(Below(S, z)) < Cardinality(Below(S, x))
            BY <2>4, RankGrows
        <3> QED BY <1>1, <2>1, <2>2, <3>1
    <2>5. CASE x < z
        <3>1. Cardinality(Below(S, x)) < Cardinality(Below(S, z))
            BY <2>5, RankGrows
        <3> QED BY <1>1, <2>1, <2>2, <3>1
    <2> QED BY <2>2, <2>3, <2>4, <2>5
<1>5. Increasing(Sorted(S))
    BY <1>2, <1>3 DEF Increasing
<1>6. ASSUME NEW i \in 1 .. Cardinality(S), NEW j \in 1 .. Cardinality(S), Sorted(S)[i] = Sorted(S)[j]
      PROVE  i = j
    <2>1. Sorted(S)[i] \in Int
        BY SortedAt
    <2>2. ~(i < j) /\ ~(j < i)
        BY <1>3, <1>6, <2>1
    <2> QED BY <1>1, <2>2
<1> QED BY <1>2, <1>4, <1>5, <1>6 DEF Lists

\* Some elements of a sequence, in order, and the places they come from.
PicksAt(r, at, s, I, X) ==
    /\ r \in Seq(X) /\ at \in Seq(I) /\ Len(r) = Len(at) /\ Increasing(at)
    /\ \A n \in 1 .. Len(r) : r[n] = s[at[n]] /\ at[n] \in I
    /\ \A m \in I : \E n \in 1 .. Len(r) : at[n] = m
    /\ \A n, m \in 1 .. Len(r) : at[n] = at[m] => n = m

\* The elements at some places are picked in the order of the places.
LEMMA PicksAre ==
    ASSUME NEW X, NEW s \in Seq(X), NEW I \in SUBSET (1 .. Len(s))
    PROVE  PicksAt(Picked(s, I), Sorted(I), s, I, X)
<1>1. I \subseteq Int /\ IsFiniteSet(I)
    <2>1. Len(s) \in Int /\ 1 \in Int
        OBVIOUS
    <2>2. IsFiniteSet(1 .. Len(s))
        BY <2>1, FS_Interval
    <2>3. IsFiniteSet(I)
        BY <2>2, FS_Subset
    <2>4. \A n \in 1 .. Len(s) : n \in Int
        OBVIOUS
    <2> QED BY <2>3, <2>4
<1>2. Lists(Sorted(I), I) /\ Increasing(Sorted(I))
    BY <1>1, SortedIs
<1>3. PICK at : at = Sorted(I)
    OBVIOUS
<1>4. /\ at \in Seq(I) /\ Increasing(at)
      /\ \A m \in I : \E n \in 1 .. Len(at) : at[n] = m
      /\ \A n, m \in 1 .. Len(at) : at[n] = at[m] => n = m
    BY <1>2, <1>3 DEF Lists
<1>5. PICK r : r = Picked(s, I)
    OBVIOUS
<1>6. r = [n \in 1 .. Len(at) |-> s[at[n]]]
    BY <1>3, <1>4, <1>5 DEF Picked
<1>7. Len(at) \in Nat /\ \A n \in 1 .. Len(at) : at[n] \in I
    BY <1>4
<1>8. \A n \in 1 .. Len(at) : s[at[n]] \in X
    <2>1. \A m \in 1 .. Len(s) : s[m] \in X
        OBVIOUS
    <2> QED BY <1>7, <2>1
<1>9. r \in [1 .. Len(at) -> X] /\ \A n \in 1 .. Len(at) : r[n] = s[at[n]]
    BY <1>6, <1>8
<1>10. r \in Seq(X) /\ Len(r) = Len(at)
    BY <1>7, <1>9
<1>11. PicksAt(r, at, s, I, X)
    BY <1>4, <1>7, <1>9, <1>10 DEF PicksAt
<1> QED BY <1>3, <1>5, <1>11, Zenon

-----------------------------------------------------------------------------
(* A sequence of sequences, one after the other *)

\* r has the elements of q[1], then those of q[2] and so on up to q[k]: r[n] is
\* the p[n]-th of q[b[n]].
Pieces(r, q, k, b, p) ==
    /\ b \in [1 .. Len(r) -> 1 .. k] /\ p \in [1 .. Len(r) -> Nat]
    /\ \A n \in 1 .. Len(r) : p[n] \in 1 .. Len(q[b[n]]) /\ r[n] = q[b[n]][p[n]]
    /\ \A i, j \in 1 .. Len(r) : i < j => b[i] < b[j] \/ (b[i] = b[j] /\ p[i] < p[j])
    /\ \A n \in 1 .. Len(r) : p[n] = 1 \/ (n > 1 /\ b[n - 1] = b[n] /\ p[n - 1] = p[n] - 1)
    /\ \A c \in 1 .. k : \A m \in 1 .. Len(q[c]) : \E n \in 1 .. Len(r) : b[n] = c /\ p[n] = m

\* One piece alone.
LEMMA FirstPiece ==
    ASSUME NEW X, NEW q, q[1] \in Seq(X)
    PROVE  \E b, p : Pieces(q[1], q, 1, b, p)
<1> DEFINE b == [n \in 1 .. Len(q[1]) |-> 1]
           p == [n \in 1 .. Len(q[1]) |-> n]
<1>1. Len(q[1]) \in Nat
    OBVIOUS
<1>2. b \in [1 .. Len(q[1]) -> 1 .. 1] /\ p \in [1 .. Len(q[1]) -> Nat]
    OBVIOUS
<1>3. \A n \in 1 .. Len(q[1]) : b[n] = 1 /\ p[n] = n
    OBVIOUS
<1>4. \A c \in 1 .. 1 : c = 1
    OBVIOUS
<1> HIDE DEF b, p
<1>5. \A n \in 1 .. Len(q[1]) : p[n] = 1 \/ (n > 1 /\ b[n - 1] = b[n] /\ p[n - 1] = p[n] - 1)
    <2> SUFFICES ASSUME NEW n \in 1 .. Len(q[1]), n # 1
                 PROVE  n > 1 /\ b[n - 1] = b[n] /\ p[n - 1] = p[n] - 1
        BY <1>3
    <2>1. n - 1 \in 1 .. Len(q[1]) /\ n > 1
        BY <1>1
    <2> QED BY <1>3, <2>1
<1>6. Pieces(q[1], q, 1, b, p)
    BY <1>1, <1>2, <1>3, <1>4, <1>5 DEF Pieces
<1> QED BY <1>6

\* One piece more.
LEMMA NextPiece ==
    ASSUME NEW X, NEW q, NEW k \in Nat, NEW r \in Seq(X), q[k + 1] \in Seq(X),
           NEW b, NEW p, Pieces(r, q, k, b, p)
    PROVE  \E c, o : Pieces(r \o q[k + 1], q, k + 1, c, o)
<1> DEFINE l == Len(r)
           t == q[k + 1]
           s == r \o t
           c == [n \in 1 .. Len(s) |-> IF n <= l THEN b[n] ELSE k + 1]
           o == [n \in 1 .. Len(s) |-> IF n <= l THEN p[n] ELSE n - l]
<1>1. l \in Nat /\ Len(t) \in Nat /\ Len(s) = l + Len(t)
    OBVIOUS
<1>2. /\ \A n \in 1 .. l : s[n] = r[n]
      /\ \A n \in 1 .. Len(s) : n > l => s[n] = t[n - l]
    OBVIOUS
<1>3. /\ \A n \in 1 .. l : c[n] = b[n] /\ o[n] = p[n]
      /\ \A n \in 1 .. Len(s) : n > l => c[n] = k + 1 /\ o[n] = n - l
    BY <1>1
<1>4. \A n \in 1 .. l : b[n] \in 1 .. k /\ p[n] \in Nat
    BY DEF Pieces
<1>5. c \in [1 .. Len(s) -> 1 .. k + 1] /\ o \in [1 .. Len(s) -> Nat]
    <2>1. ASSUME NEW n \in 1 .. Len(s)
          PROVE  (IF n <= l THEN b[n] ELSE k + 1) \in 1 .. k + 1
                 /\ (IF n <= l THEN p[n] ELSE n - l) \in Nat
        <3>1. CASE n <= l
            BY <1>1, <1>4, <3>1
        <3>2. CASE ~(n <= l)
            BY <1>1, <3>2
        <3> QED BY <3>1, <3>2
    <2> QED BY <2>1
<1> HIDE DEF c, o, s
<1>6. ASSUME NEW n \in 1 .. Len(s)
      PROVE  /\ o[n] \in 1 .. Len(q[c[n]]) /\ s[n] = q[c[n]][o[n]]
             /\ o[n] = 1 \/ (n > 1 /\ c[n - 1] = c[n] /\ o[n - 1] = o[n] - 1)
    <2>1. CASE n <= l
        <3>1. n \in 1 .. l /\ (n > 1 => n - 1 \in 1 .. l)
            BY <1>1, <2>1
        <3>2. /\ p[n] \in 1 .. Len(q[b[n]]) /\ r[n] = q[b[n]][p[n]]
              /\ p[n] = 1 \/ (n > 1 /\ b[n - 1] = b[n] /\ p[n - 1] = p[n] - 1)
            BY <3>1, Zenon DEF Pieces, l
        <3>3. c[n] = b[n] /\ o[n] = p[n] /\ s[n] = r[n]
            BY <1>2, <1>3, <3>1
        <3>4. n > 1 => c[n - 1] = b[n - 1] /\ o[n - 1] = p[n - 1]
            BY <1>3, <3>1
        <3> QED BY <3>2, <3>3, <3>4, Zenon
    <2>2. CASE n > l
        <3>1. n - l \in 1 .. Len(t)
            BY <1>1, <2>2
        <3>2. CASE n - l = 1
            BY <1>2, <1>3, <2>2, <3>1, <3>2
        <3>3. CASE n - l # 1
            <4>1. n - 1 \in 1 .. Len(s) /\ n - 1 > l /\ n > 1
                BY <1>1, <2>2, <3>1, <3>3
            <4>2. (n - 1) - l = (n - l) - 1
                BY <1>1
            <4> QED BY <1>2, <1>3, <2>2, <3>1, <4>1, <4>2
        <3> QED BY <3>2, <3>3
    <2> QED BY <1>1, <2>1, <2>2
<1>7. ASSUME NEW i \in 1 .. Len(s), NEW j \in 1 .. Len(s), i < j
      PROVE  c[i] < c[j] \/ (c[i] = c[j] /\ o[i] < o[j])
    <2>1. CASE j <= l
        <3>1. i \in 1 .. l /\ j \in 1 .. l
            BY <1>1, <1>7, <2>1
        <3>2. b[i] < b[j] \/ (b[i] = b[j] /\ p[i] < p[j])
            BY <1>7, <3>1 DEF Pieces
        <3> QED BY <1>3, <3>1, <3>2
    <2>2. CASE i <= l /\ j > l
        <3>1. i \in 1 .. l /\ c[j] = k + 1
            BY <1>1, <1>3, <2>2
        <3>2. c[i] \in 1 .. k
            BY <1>3, <1>4, <3>1
        <3> QED BY <3>1, <3>2
    <2>3. CASE i > l
        <3>1. j > l
            BY <1>1, <1>7, <2>3
        <3> QED BY <1>1, <1>3, <1>7, <2>3, <3>1
    <2> QED BY <1>1, <2>1, <2>2, <2>3
<1>8. ASSUME NEW d \in 1 .. k + 1, NEW m \in 1 .. Len(q[d])
      PROVE  \E n \in 1 .. Len(s) : c[n] = d /\ o[n] = m
    <2>1. CASE d = k + 1
        <3>1. l + m \in 1 .. Len(s) /\ l + m > l /\ (l + m) - l = m
            BY <1>1, <2>1
        <3> QED BY <1>3, <2>1, <3>1
    <2>2. CASE d # k + 1
        <3>1. d \in 1 .. k
            BY <2>2
        <3>2. PICK n \in 1 .. l : b[n] = d /\ p[n] = m
            BY <3>1 DEF Pieces
        <3>3. n \in 1 .. Len(s)
            BY <1>1
        <3> QED BY <1>3, <3>2, <3>3
    <2> QED BY <2>1, <2>2
<1>9. Pieces(s, q, k + 1, c, o)
    BY <1>5, <1>6, <1>7, <1>8, Zenon DEF Pieces
<1> QED BY <1>9 DEF s

GlueOf(q, acc, i) == acc \o q[i]
Glue == INSTANCE Folding WITH op <- GlueOf

\* How FlattenSeq goes along a sequence.
LEMMA FlattenSteps ==
    ASSUME NEW q, NEW k \in Nat \ {0}, Len(q) = k
    PROVE  \E f : /\ f[1] = q[1] /\ FlattenSeq(q) = f[k]
                  /\ \A i \in 1 .. k : i # 1 => f[i] = f[i - 1] \o q[i]
<1> DEFINE Is(f) == f = [i \in 1 .. Len(q) |-> IF i = 1 THEN q[i] ELSE f[i - 1] \o q[i]]
<1>1. PICK g : g = Glue!Recursion(q, q[1], 1, k)
    OBVIOUS
<1>2. 1 \in Nat /\ k \in Nat /\ 1 <= k
    OBVIOUS
<1>3. Glue!Follows(g, q, q[1], 1, k)
    BY <1>1, <1>2, Glue!RecursionSteps
<1>4. /\ DOMAIN g = 1 .. k /\ g[1] = q[1]
      /\ \A i \in 1 .. k : i # 1 => g[i] = g[i - 1] \o q[i]
    BY <1>3 DEF Glue!Follows, GlueOf
<1>6. \E f : Is(f)
    <2> DEFINE D == [i \in 1 .. k |-> g[i]]
    <2>1. D = [i \in 1 .. Len(q) |-> IF i = 1 THEN q[i] ELSE D[i - 1] \o q[i]]
        <3>1. ASSUME NEW i \in 1 .. k
              PROVE  g[i] = IF i = 1 THEN q[i] ELSE D[i - 1] \o q[i]
            <4>1. CASE i = 1
                BY <1>4, <4>1
            <4>2. CASE i # 1
                <5>1. i - 1 \in 1 .. k
                    BY <4>2
                <5>2. D[i - 1] = g[i - 1]
                    BY <5>1
                <5> QED BY <1>4, <4>2, <5>2
            <4> QED BY <4>1, <4>2
        <3>2. [i \in 1 .. k |-> g[i]] = [i \in 1 .. k |-> IF i = 1 THEN q[i] ELSE D[i - 1] \o q[i]]
            BY <3>1, Zenon
        <3> QED BY <3>2
    <2> QED BY <2>1
<1> DEFINE f == CHOOSE x : Is(x)
<1>7. Is(f)
    BY <1>6, Zenon
<1>8. FlattenSeq(q) = f[k]
    BY <1>2, Zenon DEF FlattenSeq
<1>9. /\ f[1] = q[1]
      /\ \A i \in 1 .. k : i # 1 => f[i] = f[i - 1] \o q[i]
    <2> HIDE DEF f
    <2>1. \A i \in 1 .. k : f[i] = IF i = 1 THEN q[i] ELSE f[i - 1] \o q[i]
        BY <1>7, Zenon
    <2>2. 1 \in 1 .. k
        OBVIOUS
    <2> QED BY <2>1, <2>2
<1> QED BY <1>8, <1>9, Zenon

\* FlattenSeq puts the pieces together.
LEMMA FlattenIs ==
    ASSUME NEW X, NEW k \in Nat, NEW q \in [1 .. k -> Seq(X)]
    PROVE  /\ FlattenSeq(q) \in Seq(X)
           /\ \E b, p : Pieces(FlattenSeq(q), q, k, b, p)
<1>0. Len(q) = k /\ \A i \in 1 .. k : q[i] \in Seq(X)
    OBVIOUS
<1>1. CASE k = 0
    <2>1. FlattenSeq(q) = q
        BY <1>0, <1>1 DEF FlattenSeq
    <2>2. q = <<>>
        BY <1>1
    <2>3. Pieces(<<>>, q, 0, <<>>, <<>>)
        BY DEF Pieces
    <2> QED BY <1>1, <2>1, <2>2, <2>3
<1>2. CASE k # 0
    <2>1. PICK f : /\ f[1] = q[1] /\ FlattenSeq(q) = f[k]
                   /\ \A i \in 1 .. k : i # 1 => f[i] = f[i - 1] \o q[i]
        <3>1. k \in Nat \ {0}
            BY <1>2
        <3> QED BY <1>0, <3>1, FlattenSteps, Zenon
    <2> DEFINE Good(i) == f[i] \in Seq(X) /\ \E b, p : Pieces(f[i], q, i, b, p)
               S == {i \in 1 .. k : Good(i)}
    <2>2. 1 \in S
        <3>1. 1 \in 1 .. k
            BY <1>2
        <3>2. f[1] \in Seq(X)
            BY <1>0, <2>1, <3>1
        <3>3. \E b, p : Pieces(f[1], q, 1, b, p)
            BY <2>1, <3>2, FirstPiece
        <3> QED BY <3>1, <3>2, <3>3
    <2>3. ASSUME NEW i \in 1 .. k, i \in S /\ i < k
          PROVE  i + 1 \in S
        <3>1. i + 1 \in 1 .. k /\ i + 1 # 1 /\ (i + 1) - 1 = i /\ i \in Nat
            BY <2>3
        <3>2. f[i + 1] = f[i] \o q[i + 1] /\ q[i + 1] \in Seq(X)
            BY <1>0, <2>1, <3>1
        <3>3. f[i] \in Seq(X) /\ \E b, p : Pieces(f[i], q, i, b, p)
            BY <2>3
        <3>4. \E c, o : Pieces(f[i] \o q[i + 1], q, i + 1, c, o)
            BY <3>1, <3>2, <3>3, NextPiece
        <3>5. f[i + 1] \in Seq(X)
            BY <3>2, <3>3
        <3>6. Good(i + 1)
            BY <3>2, <3>4, <3>5
        <3> QED BY <3>1, <3>6
    <2> HIDE DEF S
    <2>4. 1 \in Nat /\ k \in 1 .. k
        BY <1>2
    <2>5. \A i \in 1 .. k : i \in S
        BY <2>2, <2>3, <2>4, Glue!Induction
    <2> QED BY <2>1, <2>4, <2>5 DEF S
<1> QED BY <1>1, <1>2

-----------------------------------------------------------------------------
(* Records *)

Rec == Int \X Int \X Int \X Int
KeyAt(r) == <<r[1], r[2], r[3]>>

\* out has one record for each event, id and sample of K, and no other.
Bears(out, K) ==
    /\ out \in Seq(Rec)
    /\ \A n \in 1 .. Len(out) : KeyAt(out[n]) \in K
    /\ \A x \in K : \E n \in 1 .. Len(out) : KeyAt(out[n]) = x
    /\ \A i, j \in 1 .. Len(out) : KeyAt(out[i]) = KeyAt(out[j]) => i = j

\* The records of a block follow each other and begin with the exposure.
Together(out) ==
    \A n \in 1 .. Len(out) :
        \/ out[n][3] = -3
        \/ n > 1 /\ out[n - 1][1] = out[n][1] /\ out[n - 1][2] = out[n][2]
                 /\ out[n - 1][3] < out[n][3]

\* No records bear no keys.
LEMMA BearsNothing == Bears(<<>>, {}) /\ Together(<<>>)
BY DEF Bears, Together

\* Two streams, one after the other.
LEMMA BearsBoth ==
    ASSUME NEW r, NEW t, NEW V, NEW W, Bears(r, V), Bears(t, W), V \cap W = {}
    PROVE  Bears(r \o t, V \cup W)
<1> DEFINE s == r \o t
           l == Len(r)
<1>1. r \in Seq(Rec) /\ t \in Seq(Rec)
    BY DEF Bears
<1>2. l \in Nat /\ Len(t) \in Nat /\ Len(s) = l + Len(t) /\ s \in Seq(Rec)
    BY <1>1
<1>3. /\ \A n \in 1 .. l : s[n] = r[n] /\ n \in 1 .. Len(s)
      /\ \A n \in 1 .. Len(s) : n > l => s[n] = t[n - l] /\ n - l \in 1 .. Len(t)
      /\ \A m \in 1 .. Len(t) : s[l + m] = t[m] /\ l + m \in 1 .. Len(s)
      /\ \A n \in 1 .. Len(s) : n > l \/ n \in 1 .. l
    BY <1>1, <1>2
<1> HIDE DEF s, l
<1>4. /\ \A n \in 1 .. l : KeyAt(r[n]) \in V
      /\ \A x \in V : \E n \in 1 .. l : KeyAt(r[n]) = x
      /\ \A i, j \in 1 .. l : KeyAt(r[i]) = KeyAt(r[j]) => i = j
    BY DEF Bears, l
<1>5. /\ \A n \in 1 .. Len(t) : KeyAt(t[n]) \in W
      /\ \A x \in W : \E n \in 1 .. Len(t) : KeyAt(t[n]) = x
      /\ \A i, j \in 1 .. Len(t) : KeyAt(t[i]) = KeyAt(t[j]) => i = j
    BY DEF Bears
<1>6. \A n \in 1 .. Len(s) : KeyAt(s[n]) \in V \cup W
    BY <1>3, <1>4, <1>5
<1>7. ASSUME NEW x \in V \cup W PROVE \E n \in 1 .. Len(s) : KeyAt(s[n]) = x
    <2>1. CASE x \in V
        BY <1>3, <1>4, <2>1
    <2>2. CASE x \in W
        BY <1>3, <1>5, <2>2
    <2> QED BY <2>1, <2>2
<1>8. ASSUME NEW i \in 1 .. Len(s), NEW j \in 1 .. Len(s), KeyAt(s[i]) = KeyAt(s[j])
      PROVE  i = j
    <2>1. CASE i \in 1 .. l /\ j \in 1 .. l
        BY <1>3, <1>4, <1>8, <2>1
    <2>2. CASE i > l /\ j > l
        <3>1. i - l \in 1 .. Len(t) /\ j - l \in 1 .. Len(t) /\ s[i] = t[i - l] /\ s[j] = t[j - l]
            BY <1>3, <2>2
        <3>2. i - l = j - l
            BY <1>5, <1>8, <3>1
        <3> QED BY <1>2, <3>2
    <2>3. CASE i \in 1 .. l /\ j > l
        <3>1. KeyAt(s[i]) \in V /\ KeyAt(s[j]) \in W
            BY <1>3, <1>4, <1>5, <2>3
        <3> QED BY <1>8, <3>1
    <2>4. CASE i > l /\ j \in 1 .. l
        <3>1. KeyAt(s[i]) \in W /\ KeyAt(s[j]) \in V
            BY <1>3, <1>4, <1>5, <2>4
        <3> QED BY <1>8, <3>1
    <2> QED BY <1>3, <2>1, <2>2, <2>3, <2>4
<1>9. Bears(s, V \cup W)
    BY <1>2, <1>6, <1>7, <1>8 DEF Bears
<1> QED BY <1>9 DEF s

\* Two streams of whole blocks, one after the other.
LEMMA TogetherBoth ==
    ASSUME NEW r \in Seq(Rec), NEW t \in Seq(Rec), Together(r), Together(t)
    PROVE  Together(r \o t)
<1> DEFINE s == r \o t
           l == Len(r)
<1>2. l \in Nat /\ Len(t) \in Nat /\ Len(s) = l + Len(t)
    OBVIOUS
<1>3. /\ \A n \in 1 .. l : s[n] = r[n]
      /\ \A n \in 1 .. Len(s) : n > l => s[n] = t[n - l] /\ n - l \in 1 .. Len(t)
      /\ \A n \in 1 .. Len(s) : n > l \/ n \in 1 .. l
    BY <1>2
<1> HIDE DEF s, l
<1>4. ASSUME NEW n \in 1 .. Len(s), s[n][3] # -3
      PROVE  /\ n > 1 /\ s[n - 1][1] = s[n][1] /\ s[n - 1][2] = s[n][2]
             /\ s[n - 1][3] < s[n][3]
    <2>1. CASE n \in 1 .. l
        <3>1. s[n] = r[n]
            BY <1>3, <2>1
        <3>2. n > 1 /\ r[n - 1][1] = r[n][1] /\ r[n - 1][2] = r[n][2] /\ r[n - 1][3] < r[n][3]
            BY <1>4, <2>1, <3>1 DEF Together, l
        <3>3. n - 1 \in 1 .. l
            BY <1>2, <2>1, <3>2
        <3>4. s[n - 1] = r[n - 1]
            BY <1>3, <3>3
        <3> QED BY <3>1, <3>2, <3>4
    <2>2. CASE n > l
        <3> DEFINE m == n - l
        <3>1. s[n] = t[m] /\ m \in 1 .. Len(t)
            BY <1>3, <2>2
        <3>2. m > 1 /\ t[m - 1][1] = t[m][1] /\ t[m - 1][2] = t[m][2] /\ t[m - 1][3] < t[m][3]
            <4> HIDE DEF m
            <4>1. t[m][3] # -3
                BY <1>4, <3>1, Zenon
            <4> QED BY <3>1, <4>1, Zenon DEF Together
        <3>3. n - 1 \in 1 .. Len(s) /\ n - 1 > l /\ n > 1 /\ (n - 1) - l = m - 1
            BY <1>2, <2>2, <3>1, <3>2
        <3>4. s[n - 1] = t[m - 1]
            BY <1>3, <3>3
        <3> QED BY <3>1, <3>2, <3>3, <3>4
    <2> QED BY <1>3, <2>1, <2>2
<1>5. Together(s)
    BY <1>4 DEF Together
<1> QED BY <1>5 DEF s

\* The pieces of a stream, each with what it is to bear.
AllBear(q, W, k) ==
    /\ DOMAIN q = 1 .. k /\ q = [i \in 1 .. k |-> q[i]]
    /\ \A i \in 1 .. k : Bears(q[i], W[i])
    /\ \A i, j \in 1 .. k : i # j => W[i] \cap W[j] = {}
AllOf(W, k) == UNION {W[i] : i \in 1 .. k}

\* A stream bears what its pieces do.
LEMMA BearsPieces ==
    ASSUME NEW k \in Nat, NEW q, NEW W, AllBear(q, W, k)
    PROVE  Bears(FlattenSeq(q), AllOf(W, k)) /\ q \in [1 .. k -> Seq(Rec)]
<1>0. /\ DOMAIN q = 1 .. k /\ q = [i \in 1 .. k |-> q[i]]
      /\ \A i \in 1 .. k : Bears(q[i], W[i])
      /\ \A i, j \in 1 .. k : i # j => W[i] \cap W[j] = {}
    BY Zenon DEF AllBear
<1>1. q \in [1 .. k -> Seq(Rec)]
    <2>1. \A i \in 1 .. k : q[i] \in Seq(Rec)
        BY <1>0 DEF Bears
    <2> QED BY <1>0, <2>1
<1>2. PICK r : r = FlattenSeq(q)
    OBVIOUS
<1>3. r \in Seq(Rec) /\ \E b, p : Pieces(r, q, k, b, p)
    BY <1>1, <1>2, FlattenIs
<1>4. PICK b, p : Pieces(r, q, k, b, p)
    BY <1>3
<1>5. \A n \in 1 .. Len(r) : b[n] \in 1 .. k /\ p[n] \in 1 .. Len(q[b[n]]) /\ r[n] = q[b[n]][p[n]]
    BY <1>4 DEF Pieces
<1>6. \A i \in 1 .. k : /\ \A m \in 1 .. Len(q[i]) : KeyAt(q[i][m]) \in W[i]
                        /\ \A x \in W[i] : \E m \in 1 .. Len(q[i]) : KeyAt(q[i][m]) = x
                        /\ \A m, o \in 1 .. Len(q[i]) : KeyAt(q[i][m]) = KeyAt(q[i][o]) => m = o
    BY <1>0 DEF Bears
<1>7. \A n \in 1 .. Len(r) : KeyAt(r[n]) \in W[b[n]]
    BY <1>5, <1>6
<1>8. \A n \in 1 .. Len(r) : KeyAt(r[n]) \in UNION {W[i] : i \in 1 .. k}
    BY <1>5, <1>7
<1>12. \A c \in 1 .. k : \A m \in 1 .. Len(q[c]) : \E n \in 1 .. Len(r) : b[n] = c /\ p[n] = m
    BY <1>4, SMT DEF Pieces
<1>9. ASSUME NEW x \in UNION {W[i] : i \in 1 .. k}
      PROVE  \E n \in 1 .. Len(r) : KeyAt(r[n]) = x
    <2>1. PICK i \in 1 .. k : x \in W[i]
        OBVIOUS
    <2>2. PICK m \in 1 .. Len(q[i]) : KeyAt(q[i][m]) = x
        BY <1>6, <2>1
    <2>3. PICK n \in 1 .. Len(r) : b[n] = i /\ p[n] = m
        BY <1>12
    <2> QED BY <1>5, <2>2, <2>3
<1>10. ASSUME NEW i \in 1 .. Len(r), NEW j \in 1 .. Len(r), KeyAt(r[i]) = KeyAt(r[j])
       PROVE  i = j
    <2>1. b[i] = b[j]
        BY <1>0, <1>5, <1>7, <1>10
    <2>2. p[i] = p[j]
        <3>1. PICK c \in 1 .. k : c = b[i] /\ c = b[j]
            BY <1>5, <2>1
        <3>2. /\ p[i] \in 1 .. Len(q[c]) /\ p[j] \in 1 .. Len(q[c])
              /\ KeyAt(q[c][p[i]]) = KeyAt(q[c][p[j]])
            BY <1>5, <1>10, <3>1
        <3> QED BY <1>6, <3>2
    <2>3. p[i] \in Nat /\ b[i] \in Nat
        BY <1>5
    <2>4. ~(i < j) /\ ~(j < i)
        <3>1. i < j => b[i] < b[j] \/ (b[i] = b[j] /\ p[i] < p[j])
            BY <1>4 DEF Pieces
        <3>2. j < i => b[j] < b[i] \/ (b[i] = b[j] /\ p[j] < p[i])
            BY <1>4 DEF Pieces
        <3> QED BY <2>1, <2>2, <2>3, <3>1, <3>2
    <2> QED BY <1>3, <2>4
<1>11. Bears(r, AllOf(W, k))
    BY <1>3, <1>8, <1>9, <1>10 DEF Bears, AllOf
<1> QED BY <1>1, <1>2, <1>11

\* Pieces of whole blocks, end to end.
LEMMA TogetherPieces ==
    ASSUME NEW k \in Nat, NEW q \in [1 .. k -> Seq(Rec)],
           \A i \in 1 .. k : Together(q[i])
    PROVE  Together(FlattenSeq(q))
<1>2. PICK r : r = FlattenSeq(q)
    OBVIOUS
<1>3. r \in Seq(Rec) /\ \E b, p : Pieces(r, q, k, b, p)
    BY <1>2, FlattenIs
<1>4. PICK b, p : Pieces(r, q, k, b, p)
    BY <1>3
<1>5. \A n \in 1 .. Len(r) : b[n] \in 1 .. k /\ p[n] \in 1 .. Len(q[b[n]]) /\ r[n] = q[b[n]][p[n]]
    BY <1>4 DEF Pieces
<1>6. ASSUME NEW n \in 1 .. Len(r), r[n][3] # -3
      PROVE  /\ n > 1 /\ r[n - 1][1] = r[n][1] /\ r[n - 1][2] = r[n][2]
             /\ r[n - 1][3] < r[n][3]
    <2>1. PICK t, m : t = q[b[n]] /\ m = p[n]
        OBVIOUS
    <2>2. Together(t) /\ m \in 1 .. Len(t) /\ r[n] = t[m]
        BY <1>5, <2>1
    <2>3. m > 1 /\ t[m - 1][1] = t[m][1] /\ t[m - 1][2] = t[m][2] /\ t[m - 1][3] < t[m][3]
        BY <1>6, <2>2 DEF Together
    <2>4. n > 1 /\ b[n - 1] = b[n] /\ p[n - 1] = m - 1
        <3>1. p[n] = 1 \/ (n > 1 /\ b[n - 1] = b[n] /\ p[n - 1] = p[n] - 1)
            BY <1>4 DEF Pieces
        <3> QED BY <2>1, <2>3, <3>1
    <2>5. n - 1 \in 1 .. Len(r)
        BY <1>3, <2>4
    <2>6. r[n - 1] = t[m - 1]
        BY <1>5, <2>1, <2>4, <2>5
    <2> QED BY <2>2, <2>3, <2>4, <2>6
<1> QED BY <1>2, <1>6 DEF Together

\* What is counted of a stream.
LEMMA BearsOne ==
    ASSUME NEW out, NEW K, Bears(out, K), NEW e, NEW i, NEW s, <<e, i, s>> \in K
    PROVE  \E n \in 1 .. Len(out) : RowsOf(out, e, i, s) = {n} /\ KeyAt(out[n]) = <<e, i, s>>
<1>1. PICK n \in 1 .. Len(out) : KeyAt(out[n]) = <<e, i, s>>
    BY DEF Bears
<1>2. \A m \in 1 .. Len(out) : KeyAt(out[m]) = <<e, i, s>> => m = n
    BY <1>1 DEF Bears
<1>3. \A m \in 1 .. Len(out) : m \in RowsOf(out, e, i, s) <=> KeyAt(out[m]) = <<e, i, s>>
    BY DEF RowsOf, KeyAt
<1>4. RowsOf(out, e, i, s) \subseteq 1 .. Len(out)
    BY DEF RowsOf
<1>5. RowsOf(out, e, i, s) = {n}
    BY <1>1, <1>2, <1>3, <1>4
<1> QED BY <1>1, <1>5

\* No record of a key that is not borne.
LEMMA BearsNone ==
    ASSUME NEW out, NEW K, Bears(out, K), NEW e, NEW i, NEW s, <<e, i, s>> \notin K
    PROVE  RowsOf(out, e, i, s) = {}
<1>1. \A m \in 1 .. Len(out) : KeyAt(out[m]) # <<e, i, s>>
    BY DEF Bears
<1> QED BY <1>1 DEF RowsOf, KeyAt

\* A stream has one record of each key it bears.
LEMMA BearsCount ==
    ASSUME NEW out, NEW K, Bears(out, K), NEW e, NEW i, NEW s
    PROVE  Cardinality(RowsOf(out, e, i, s)) = IF <<e, i, s>> \in K THEN 1 ELSE 0
<1>1. CASE <<e, i, s>> \in K
    <2>1. PICK n \in 1 .. Len(out) : RowsOf(out, e, i, s) = {n}
        BY <1>1, BearsOne
    <2> QED BY <1>1, <2>1, FS_Singleton
<1>2. CASE <<e, i, s>> \notin K
    BY <1>2, BearsNone, FS_EmptySet
<1> QED BY <1>1, <1>2

-----------------------------------------------------------------------------
(* Sums *)

PlusOf(f, t, x) == f[x] + t
Sums == INSTANCE Folding WITH op <- PlusOf

\* SumOf is a fold over a set.
LEMMA SumIs ==
    ASSUME NEW f, NEW S
    PROVE  SumOf(f, S) = Sums!OverSet(f, 0, S)
BY SMT DEF SumOf, MapThenSumSet, MapThenFoldSet, Sums!OverSet, PlusOf,
           Sums!FoldSet, Sums!MapThenFoldSet

\* The empty sum.
LEMMA SumEmpty ==
    ASSUME NEW f
    PROVE  SumOf(f, {}) = 0
BY SumIs, Sums!OverSetEmpty

\* A sum of integers is an integer.
LEMMA SumType ==
    ASSUME NEW f, NEW S, IsFiniteSet(S), \A x \in S : f[x] \in Int
    PROVE  SumOf(f, S) \in Int
<1>1. Sums!Closed(f, Int, S)
    BY DEF Sums!Closed, PlusOf
<1>2. 0 \in Int /\ Sums!IsFiniteSet(S)
    BY DEF IsFiniteSet, Sums!IsFiniteSet
<1>3. Sums!OverSet(f, 0, S) \in Int
    BY <1>1, <1>2, Sums!OverSetType, Zenon
<1> QED BY <1>3, SumIs

\* One more to add.
LEMMA SumInsert ==
    ASSUME NEW f, NEW S, IsFiniteSet(S), NEW x, x \notin S,
           \A y \in S \cup {x} : f[y] \in Int
    PROVE  SumOf(f, S \cup {x}) = f[x] + SumOf(f, S)
<1>1. PICK T : T = S \cup {x}
    OBVIOUS
<1>2. Sums!Closed(f, Int, T)
    BY <1>1 DEF Sums!Closed, PlusOf
<1>3. Sums!Commutes(f, Int, T)
    BY <1>1 DEF Sums!Commutes, PlusOf
<1>4. 0 \in Int /\ Sums!IsFiniteSet(S)
    BY DEF IsFiniteSet, Sums!IsFiniteSet
<1>5. Sums!OverSet(f, 0, T) = PlusOf(f, Sums!OverSet(f, 0, S), x)
    BY <1>1, <1>2, <1>3, <1>4, Sums!OverSetInsert
<1> QED BY <1>1, <1>5, SumIs DEF PlusOf

\* The sum over one element.
LEMMA SumOne ==
    ASSUME NEW f, NEW x, f[x] \in Int
    PROVE  SumOf(f, {x}) = f[x]
<1>1. IsFiniteSet({}) /\ x \notin {} /\ {} \cup {x} = {x} /\ SumOf(f, {}) = 0
    BY FS_EmptySet, SumEmpty
<1>2. \A y \in {} \cup {x} : f[y] \in Int
    OBVIOUS
<1>3. SumOf(f, {} \cup {x}) = f[x] + SumOf(f, {})
    BY <1>1, <1>2, SumInsert
<1> QED BY <1>1, <1>3

\* The sum depends on what is added alone.
LEMMA SumSame ==
    ASSUME NEW S, IsFiniteSet(S), NEW f, NEW h,
           \A x \in S : f[x] \in Int /\ f[x] = h[x]
    PROVE  SumOf(f, S) = SumOf(h, S)
<1> DEFINE C == {T \in SUBSET S : SumOf(f, T) = SumOf(h, T)}
<1>1. ASSUME NEW T \in SUBSET S, \A x \in T : T \ {x} \in C
      PROVE  T \in C
    <2>1. CASE T = {}
        BY <2>1, SumEmpty
    <2>2. CASE T # {}
        <3>1. PICK x \in T : TRUE
            BY <2>2
        <3>2. PICK U : U = T \ {x}
            OBVIOUS
        <3>3. U \in SUBSET S /\ IsFiniteSet(U) /\ x \notin U /\ T = U \cup {x}
            BY <3>1, <3>2, FS_Subset
        <3>4. \A y \in U \cup {x} : f[y] \in Int /\ h[y] \in Int /\ f[y] = h[y]
            BY <3>3
        <3>5. SumOf(f, U \cup {x}) = f[x] + SumOf(f, U) /\ SumOf(h, U \cup {x}) = h[x] + SumOf(h, U)
            BY <3>3, <3>4, SumInsert
        <3>6. SumOf(f, U) = SumOf(h, U)
            BY <1>1, <3>1, <3>2
        <3>7. SumOf(f, T) = SumOf(h, T)
            BY <3>3, <3>4, <3>5, <3>6
        <3> QED BY <3>7
    <2> QED BY <2>1, <2>2
<1> HIDE DEF C
<1>2. Sums!IsFiniteSet(S)
    BY DEF IsFiniteSet, Sums!IsFiniteSet
<1>3. \A T \in SUBSET S : T \in C
    BY <1>1, <1>2, Sums!SetInduction
<1> QED BY <1>3 DEF C

\* The sum over two disjoint sets.
LEMMA SumBoth ==
    ASSUME NEW R, IsFiniteSet(R), NEW S, IsFiniteSet(S), R \cap S = {}, NEW f,
           \A x \in R \cup S : f[x] \in Int
    PROVE  SumOf(f, R \cup S) = SumOf(f, R) + SumOf(f, S)
<1> DEFINE C == {T \in SUBSET S : SumOf(f, R \cup T) = SumOf(f, R) + SumOf(f, T)}
<1>0. SumOf(f, R) \in Int
    BY SumType
<1>1. ASSUME NEW T \in SUBSET S, \A x \in T : T \ {x} \in C
      PROVE  T \in C
    <2>1. CASE T = {}
        <3>1. R \cup T = R /\ SumOf(f, T) = 0
            BY <2>1, SumEmpty
        <3>2. SumOf(f, R \cup T) = SumOf(f, R) + SumOf(f, T)
            <4>1. PICK a \in Int : a = SumOf(f, R)
                BY <1>0
            <4>2. SumOf(f, R \cup T) = a
                BY <3>1, <4>1, Zenon
            <4>3. a + 0 = a
                OBVIOUS
            <4> QED BY <3>1, <4>1, <4>2, <4>3
        <3> QED BY <3>2
    <2>2. CASE T # {}
        <3>1. PICK x \in T : TRUE
            BY <2>2
        <3>2. PICK U : U = T \ {x}
            OBVIOUS
        <3>3. U \in SUBSET S /\ IsFiniteSet(U) /\ x \notin U /\ T = U \cup {x}
            BY <3>1, <3>2, FS_Subset
        <3>4. PICK V : V = R \cup U
            OBVIOUS
        <3>5. IsFiniteSet(V) /\ x \notin V /\ R \cup T = V \cup {x}
            BY <3>3, <3>4, FS_Union
        <3>6. (\A y \in U \cup {x} : f[y] \in Int) /\ (\A y \in V \cup {x} : f[y] \in Int)
            BY <3>3, <3>4
        <3>7. SumOf(f, U \cup {x}) = f[x] + SumOf(f, U) /\ SumOf(f, V \cup {x}) = f[x] + SumOf(f, V)
            BY <3>3, <3>5, <3>6, SumInsert
        <3>8. SumOf(f, V) = SumOf(f, R) + SumOf(f, U)
            BY <1>1, <3>1, <3>2, <3>4
        <3>9. SumOf(f, U) \in Int /\ f[x] \in Int
            BY <3>3, <3>6, SumType
        <3>10. SumOf(f, R \cup T) = SumOf(f, R) + SumOf(f, T)
            <4>1. PICK a, b, c : a = SumOf(f, R) /\ b = SumOf(f, U) /\ c = f[x]
                OBVIOUS
            <4>2. SumOf(f, T) = c + b /\ SumOf(f, R \cup T) = c + (a + b)
                BY <3>3, <3>5, <3>7, <3>8, <4>1
            <4>3. a \in Int /\ b \in Int /\ c \in Int
                BY <1>0, <3>9, <4>1
            <4>4. c + (a + b) = a + (c + b)
                BY <4>3
            <4> QED BY <4>1, <4>2, <4>4
        <3> QED BY <3>10
    <2> QED BY <2>1, <2>2
<1> HIDE DEF C
<1>2. Sums!IsFiniteSet(S)
    BY DEF IsFiniteSet, Sums!IsFiniteSet
<1>3. \A T \in SUBSET S : T \in C
    BY <1>1, <1>2, Sums!SetInduction
<1> QED BY <1>3 DEF C

\* What adds nothing.
LEMMA SumZero ==
    ASSUME NEW S, IsFiniteSet(S), NEW f, \A x \in S : f[x] = 0
    PROVE  SumOf(f, S) = 0
<1> DEFINE C == {T \in SUBSET S : SumOf(f, T) = 0}
<1>1. ASSUME NEW T \in SUBSET S, \A x \in T : T \ {x} \in C
      PROVE  T \in C
    <2>1. CASE T = {}
        BY <2>1, SumEmpty
    <2>2. CASE T # {}
        <3>1. PICK x \in T : TRUE
            BY <2>2
        <3>2. PICK U : U = T \ {x}
            OBVIOUS
        <3>3. U \in SUBSET S /\ IsFiniteSet(U) /\ x \notin U /\ T = U \cup {x}
            BY <3>1, <3>2, FS_Subset
        <3>4. (\A y \in U \cup {x} : f[y] \in Int) /\ f[x] = 0
            BY <3>3
        <3>5. SumOf(f, U \cup {x}) = f[x] + SumOf(f, U)
            BY <3>3, <3>4, SumInsert
        <3>6. SumOf(f, U) = 0
            BY <1>1, <3>1, <3>2
        <3>7. SumOf(f, T) = 0
            BY <3>3, <3>4, <3>5, <3>6
        <3> QED BY <3>7
    <2> QED BY <2>1, <2>2
<1> HIDE DEF C
<1>2. Sums!IsFiniteSet(S)
    BY DEF IsFiniteSet, Sums!IsFiniteSet
<1>3. \A T \in SUBSET S : T \in C
    BY <1>1, <1>2, Sums!SetInduction
<1> QED BY <1>3 DEF C

-----------------------------------------------------------------------------
(* Losses *)

\* What the columns and the CDFs hold.
LEMMA ColumnFacts ==
    /\ IsFiniteSet(Item) /\ Item \subseteq Int /\ IsFiniteSet(Coverage) /\ Coverage \subseteq Int
    /\ Events \subseteq Int /\ 0 \notin Events /\ -1 \notin Events /\ Keys \subseteq Int
    /\ \A e \in Events : e > 0
    /\ \A i \in Item : KeyOf[i] \in Keys /\ CoverageOf[i] \in Coverage
    /\ \A i \in Item : GroupOf[i] \in Nat \ {0}
    /\ \A c \in Coverage : Tiv[c] \in Nat
    /\ \A e \in Events : \A k \in Keys : IsCdf(CdfOf[<<e, k>>])
    /\ loss_threshold \in Nat \ {0}
<1>1. \A e \in Events : \A k \in Keys : <<e, k>> \in Events \X Keys
    OBVIOUS
<1> QED BY <1>1, GulAssumption DEF GulAssumption

\* A non-empty set of numbers has a least one, which Min finds.
LEMMA MinIs ==
    ASSUME NEW S, S \subseteq Int, IsFiniteSet(S), S # {}
    PROVE  Min(S) \in S
<1>1. 1 \in 1 .. Cardinality(S)
    <2>1. Cardinality(S) \in Nat /\ Cardinality(S) # 0
        BY FS_CardinalityType, FS_EmptySet
    <2> QED BY <2>1
<1>2. PICK x \in S : Cardinality(Below(S, x)) = 0
    <2>1. PICK n : n = 1
        OBVIOUS
    <2>2. \E x \in S : Cardinality(Below(S, x)) = n - 1
        BY <1>1, <2>1, PlaceTaken, Zenon
    <2>3. n - 1 = 0
        BY <2>1
    <2> QED BY <2>2, <2>3, Zenon
<1>3. IsFiniteSet(Below(S, x))
    BY FS_Subset DEF Below
<1>4. Below(S, x) = {}
    BY <1>2, <1>3, FS_EmptySet
<1>5. \A y \in S : x <= y
    BY <1>4 DEF Below
<1> QED BY <1>5 DEF Min

\* Every number finds a bin.
LEMMA BinIs ==
    ASSUME NEW cdf, IsCdf(cdf), NEW rval \in Int
    PROVE  BinOf(cdf, rval) \in DOMAIN cdf.prob_to
<1> PICK p : p = cdf.prob_to
    OBVIOUS
<1>1. p \in Seq(Int) /\ p # <<>>
    BY DEF IsCdf
<1> PICK n : n = Len(p)
    OBVIOUS
<1>2. n \in Nat \ {0} /\ n \in 1 .. n /\ DOMAIN p = 1 .. n /\ p[n] \in Int
    BY <1>1
<1>3. Last(p) = p[n]
    BY DEF Last
<1> PICK r : r = IF rval >= p[n] THEN p[n] - 1 ELSE rval
    OBVIOUS
<1>4. r < p[n]
    BY <1>2
<1> PICK B : B = {b \in DOMAIN p : r < p[b]}
    OBVIOUS
<1>5. B \subseteq 1 .. n /\ n \in B
    BY <1>2, <1>4
<1>6. IsFiniteSet(1 .. n) /\ 1 .. n \subseteq Int
    <2>1. 1 \in Int /\ n \in Int
        BY <1>2
    <2> QED BY <2>1, FS_Interval
<1>7. IsFiniteSet(B)
    BY <1>5, <1>6, FS_Subset
<1>8. Min(B) \in B
    BY <1>5, <1>6, <1>7, MinIs
<1>9. BinOf(cdf, rval) = Min(B)
    BY <1>3 DEF BinOf
<1> QED BY <1>2, <1>5, <1>8, <1>9

\* A number of units divided among several.
LEMMA Divided ==
    ASSUME NEW d \in Nat \ {0}
    PROVE  (\A a \in Nat : a \div d \in Nat) /\ (\A a \in Int : a \div d \in Int)
OBVIOUS

\* The losses that come of a CDF.
LEMMA LossesAre ==
    ASSUME NEW cdf, IsCdf(cdf), NEW tiv \in Nat
    PROVE  /\ \A b \in DOMAIN cdf.prob_to : getgul(cdf, b, tiv) \in Nat
           /\ gul_mean(cdf, tiv) \in Int
           /\ std_dev(cdf, tiv) \in Nat
<1>1. DAMAGE \in Nat \ {0} /\ PROB \in Nat \ {0}
    BY GulAssumption DEF GulAssumption
<1>2. PROB * DAMAGE \in Nat \ {0}
    BY <1>1
<1>3. /\ cdf.prob_to \in Seq(Int) /\ cdf.sd \in Nat
      /\ cdf.bin_mean \in [DOMAIN cdf.prob_to -> Nat]
    BY DEF IsCdf
<1>4. ASSUME NEW b \in DOMAIN cdf.prob_to PROVE getgul(cdf, b, tiv) \in Nat
    <2>1. cdf.bin_mean[b] \in Nat
        BY <1>3
    <2>2. cdf.bin_mean[b] * tiv \in Nat
        BY <2>1
    <2> QED BY <1>1, <2>2, Divided DEF getgul
<1>5. std_dev(cdf, tiv) \in Nat
    <2>1. cdf.sd * tiv \in Nat
        BY <1>3
    <2> QED BY <1>1, <2>1, Divided DEF std_dev
<1> PICK p : p = cdf.prob_to
    OBVIOUS
<1> DEFINE f == [b \in DOMAIN cdf.prob_to |->
            (cdf.prob_to[b] - (IF b = 1 THEN 0 ELSE cdf.prob_to[b - 1])) * cdf.bin_mean[b] * tiv]
<1>6. IsFiniteSet(DOMAIN p)
    <2>1. DOMAIN p = 1 .. Len(p) /\ 1 \in Int /\ Len(p) \in Int
        BY <1>3
    <2> QED BY <2>1, FS_Interval
<1>7. ASSUME NEW b \in DOMAIN p PROVE f[b] \in Int
    <2>1. p[b] \in Int /\ (b # 1 => p[b - 1] \in Int) /\ cdf.bin_mean[b] \in Int
        BY <1>3
    <2>2. PICK m \in Int : m = p[b] - (IF b = 1 THEN 0 ELSE p[b - 1])
        BY <2>1
    <2>3. PICK o \in Int : o = cdf.bin_mean[b]
        BY <2>1
    <2>4. f[b] = m * o * tiv
        BY <2>2, <2>3
    <2> HIDE DEF f
    <2>5. m * o * tiv \in Int
        OBVIOUS
    <2> QED BY <2>4, <2>5
<1>8. gul_mean(cdf, tiv) = SumOf(f, DOMAIN p) \div (PROB * DAMAGE)
    BY DEF gul_mean
<1> HIDE DEF f
<1>9. SumOf(f, DOMAIN p) \in Int
    BY <1>6, <1>7, SumType
<1>10. gul_mean(cdf, tiv) \in Int
    BY <1>2, <1>8, <1>9, Divided
<1> QED BY <1>4, <1>5, <1>10

-----------------------------------------------------------------------------
(* The records of an item *)

\* What an item lost in an event and sample, with the numbers of a group, before
\* any allocation; with its exposure for a record of its own.
LossOf(e, i, s, g, numbers) ==
    LET cdf == CdfOf[<<e, KeyOf[i]>>]
        tiv == Tiv[CoverageOf[i]]
        l == getgul(cdf, BinOf(cdf, numbers[g][s]), tiv)
    IN IF s = -2 THEN std_dev(cdf, tiv) ELSE IF s = -1 THEN gul_mean(cdf, tiv)
       ELSE IF l >= loss_threshold THEN l ELSE 0
WorthOf(e, i, s, g, numbers) == IF s = -3 THEN Tiv[CoverageOf[i]] ELSE LossOf(e, i, s, g, numbers)
\* The samples that an item has a record for.
Wants(S, e, i, g, numbers) ==
    {-3, -2, -1} \cup {s \in S : LossOf(e, i, s, g, numbers) > 0}
ItemKeys(S, e, i, g, numbers) == {<<e, i, s>> : s \in Wants(S, e, i, g, numbers)}

\* The samples are those of the options.
LEMMA SampleFacts ==
    ASSUME opt_ \in Options
    PROVE  /\ samplesize \in Nat /\ Sample \subseteq Int /\ IsFiniteSet(Sample)
           /\ \A s \in Sample : s > 0 /\ s \notin {-3, -2, -1}
           /\ coverageLevelOutput \in BOOLEAN /\ correlatedLevelOutput \in BOOLEAN
           /\ allocRule \in -1 .. 2
<1>1. opt_ \in [allocRule : -1 .. 2, mode : 0 .. 1, samplesize : Nat,
                coverageLevelOutput : BOOLEAN, correlatedLevelOutput : BOOLEAN]
    BY GulAssumption DEF GulAssumption
<1>2. samplesize \in Nat
    BY <1>1 DEF samplesize
<1>3. Sample = 1 .. samplesize /\ 1 \in Int /\ samplesize \in Int
    BY <1>2 DEF Sample
<1>4. IsFiniteSet(Sample)
    BY <1>3, FS_Interval
<1> QED BY <1>1, <1>2, <1>3, <1>4 DEF coverageLevelOutput, correlatedLevelOutput, allocRule

\* There are two modes, and no coverage output in mode 1.
LEMMA ModeFacts ==
    ASSUME opt_ \in Options
    PROVE  /\ mode = 0 \/ mode = 1
           /\ mode = 1 => ~coverageLevelOutput
<1>1. /\ opt_ \in [allocRule : -1 .. 2, mode : 0 .. 1, samplesize : Nat,
                   coverageLevelOutput : BOOLEAN, correlatedLevelOutput : BOOLEAN]
      /\ opt_.mode = 1 => opt_.allocRule # -1 /\ ~opt_.coverageLevelOutput
    BY GulAssumption DEF GulAssumption
<1>2. mode \in 0 .. 1 /\ (mode = 1 => ~coverageLevelOutput)
    BY <1>1 DEF mode, coverageLevelOutput
<1> QED BY <1>2

\* A sampled loss is that of its number.
LEMMA SampledIs ==
    ASSUME NEW e \in Events, NEW i \in Item, NEW g, NEW numbers, NEW s \in Sample
    PROVE  Sampled(CdfOf[<<e, KeyOf[i]>>], i, g, numbers)[s]
                = getgul(CdfOf[<<e, KeyOf[i]>>], BinOf(CdfOf[<<e, KeyOf[i]>>], numbers[g][s]),
                         Tiv[CoverageOf[i]])
BY DEF Sampled

\* The losses of an item are numbers, those of its samples not negative.
LEMMA LossType ==
    ASSUME opt_ \in Options, NEW e \in Events, NEW i \in Item, NEW g \in Groups,
           NEW numbers \in Numbers
    PROVE  /\ LossOf(e, i, -2, g, numbers) \in Int /\ LossOf(e, i, -1, g, numbers) \in Int
           /\ \A s \in Sample : LossOf(e, i, s, g, numbers) \in Nat
           /\ \A s \in {-3, -2, -1} \cup Sample : WorthOf(e, i, s, g, numbers) \in Int
<1> PICK cdf : cdf = CdfOf[<<e, KeyOf[i]>>]
    OBVIOUS
<1> PICK tiv : tiv = Tiv[CoverageOf[i]]
    OBVIOUS
<1>1. IsCdf(cdf) /\ tiv \in Nat /\ loss_threshold \in Nat \ {0}
    BY ColumnFacts
<1>2. std_dev(cdf, tiv) \in Int /\ gul_mean(cdf, tiv) \in Int
    BY <1>1, LossesAre
<1>3. LossOf(e, i, -2, g, numbers) = std_dev(cdf, tiv) /\ LossOf(e, i, -1, g, numbers) = gul_mean(cdf, tiv)
    BY DEF LossOf
<1>4. ASSUME NEW s \in Sample PROVE LossOf(e, i, s, g, numbers) \in Nat
    <2> PICK l : l = getgul(cdf, BinOf(cdf, numbers[g][s]), tiv)
        OBVIOUS
    <2>1. numbers[g][s] \in Int
        BY DEF Numbers
    <2>2. l \in Nat
        BY <1>1, <2>1, BinIs, LossesAre
    <2>3. LossOf(e, i, s, g, numbers) = IF l >= loss_threshold THEN l ELSE 0
        BY SampleFacts DEF LossOf
    <2> QED BY <2>2, <2>3
<1>5. \A s \in {-3, -2, -1} \cup Sample : WorthOf(e, i, s, g, numbers) \in Int
    BY <1>1, <1>2, <1>3, <1>4 DEF WorthOf
<1> QED BY <1>2, <1>3, <1>4, <1>5

\* A sample is kept if it reaches the threshold.
LEMMA KeptIs ==
    ASSUME opt_ \in Options, NEW e \in Events, NEW i \in Item, NEW g \in Groups,
           NEW numbers \in Numbers, NEW losses,
           losses = Sampled(CdfOf[<<e, KeyOf[i]>>], i, g, numbers), NEW s \in Sample
    PROVE  /\ losses[s] \in Nat
           /\ losses[s] >= loss_threshold <=> LossOf(e, i, s, g, numbers) > 0
           /\ losses[s] >= loss_threshold => LossOf(e, i, s, g, numbers) = losses[s]
<1> PICK cdf : cdf = CdfOf[<<e, KeyOf[i]>>]
    OBVIOUS
<1> PICK tiv : tiv = Tiv[CoverageOf[i]]
    OBVIOUS
<1>1. IsCdf(cdf) /\ tiv \in Nat /\ loss_threshold \in Nat \ {0}
    BY ColumnFacts
<1> PICK l : l = getgul(cdf, BinOf(cdf, numbers[g][s]), tiv)
    OBVIOUS
<1>2. numbers[g][s] \in Int
    BY DEF Numbers
<1>3. l \in Nat
    BY <1>1, <1>2, BinIs, LossesAre
<1>4. losses[s] = l
    BY SampledIs
<1>5. LossOf(e, i, s, g, numbers) = IF l >= loss_threshold THEN l ELSE 0
    BY SampleFacts DEF LossOf
<1> QED BY <1>1, <1>3, <1>4, <1>5

\* Records of one item, in the order of the samples and from the exposure on.
IsBlock(out, e, i, sids) ==
    /\ DOMAIN out = 1 .. Len(sids)
    /\ \A n \in 1 .. Len(sids) : out[n] = <<e, i, sids[n], out[n][4]>> /\ out[n][4] \in Int

\* Such records are one whole block.
LEMMA BlockIs ==
    ASSUME NEW e \in Int, NEW i \in Int, NEW X, X \subseteq Int, NEW sids, Lists(sids, X),
           Increasing(sids), sids[1] = -3, NEW out \in Seq(Rec), IsBlock(out, e, i, sids)
    PROVE  Bears(out, {<<e, i, s>> : s \in X}) /\ Together(out)
<1> PICK l : l = Len(sids)
    OBVIOUS
<1>1. /\ l \in Nat
      /\ \A x \in X : \E n \in 1 .. l : sids[n] = x
      /\ \A n \in 1 .. l : sids[n] \in X
      /\ \A n, m \in 1 .. l : sids[n] = sids[m] => n = m
    BY DEF Lists
<1>2. /\ Len(out) = l
      /\ \A n \in 1 .. l : out[n][1] = e /\ out[n][2] = i /\ out[n][3] = sids[n]
    <2>1. Len(out) = l
        BY <1>1 DEF IsBlock
    <2>2. ASSUME NEW n \in 1 .. l PROVE out[n][1] = e /\ out[n][2] = i /\ out[n][3] = sids[n]
        <3>1. PICK x : out[n] = <<e, i, sids[n], x>>
            BY DEF IsBlock
        <3> QED BY <3>1
    <2> QED BY <2>1, <2>2
<1>3. \A n \in 1 .. l : KeyAt(out[n]) = <<e, i, sids[n]>>
    BY <1>2 DEF KeyAt
<1>4. Bears(out, {<<e, i, s>> : s \in X})
    <2>1. \A n \in 1 .. l : KeyAt(out[n]) \in {<<e, i, s>> : s \in X}
        BY <1>1, <1>3
    <2>2. ASSUME NEW x \in {<<e, i, s>> : s \in X} PROVE \E n \in 1 .. l : KeyAt(out[n]) = x
        <3>1. PICK s \in X : x = <<e, i, s>>
            OBVIOUS
        <3>2. PICK n \in 1 .. l : sids[n] = s
            BY <1>1
        <3> QED BY <1>3, <3>1, <3>2
    <2>3. \A n, m \in 1 .. l : KeyAt(out[n]) = KeyAt(out[m]) => n = m
        BY <1>1, <1>3
    <2> QED BY <1>2, <2>1, <2>2, <2>3 DEF Bears
<1>5. Together(out)
    <2> SUFFICES ASSUME NEW n \in 1 .. l, n # 1
                 PROVE  /\ n > 1 /\ out[n - 1][1] = out[n][1] /\ out[n - 1][2] = out[n][2]
                        /\ out[n - 1][3] < out[n][3]
        BY <1>2 DEF Together
    <2>1. n - 1 \in 1 .. l /\ n - 1 < n /\ n > 1
        BY <1>1
    <2>2. sids[n - 1] < sids[n]
        BY <2>1 DEF Increasing
    <2> QED BY <1>2, <2>1, <2>2
<1> QED BY <1>4, <1>5

-----------------------------------------------------------------------------

\* What it is to list a set.
LEMMA ListIs ==
    ASSUME NEW S, NEW s, Lists(s, S)
    PROVE  /\ s \in Seq(S) /\ Len(s) \in Nat /\ DOMAIN s = 1 .. Len(s)
           /\ \A n \in 1 .. Len(s) : s[n] \in S
           /\ \A x \in S : \E n \in 1 .. Len(s) : s[n] = x
           /\ \A n, m \in 1 .. Len(s) : s[n] = s[m] => n = m
BY DEF Lists

\* Elements of a set are elements of a larger one.
LEMMA SeqIn ==
    ASSUME NEW T, NEW U, T \subseteq U, NEW s \in Seq(T)
    PROVE  s \in Seq(U)
<1>1. Len(s) \in Nat /\ s \in [1 .. Len(s) -> T]
    OBVIOUS
<1>2. s \in [1 .. Len(s) -> U]
    BY <1>1
<1> QED BY <1>1, <1>2

\* Three elements, then the others.
IsLed(s, h, t) ==
    /\ Len(s) = 3 + Len(t)
    /\ \A n \in {1, 2, 3} : s[n] = h[n] /\ n \in 1 .. Len(s)
    /\ \A n \in 1 .. Len(t) : s[3 + n] = t[n] /\ 3 + n \in 1 .. Len(s)
    /\ \A n \in 1 .. Len(s) : n \in {1, 2, 3} \/ (\E m \in 1 .. Len(t) : n = 3 + m)

\* Three elements in front of others.
LEMMA LedIs ==
    ASSUME NEW X, NEW h \in Seq(X), Len(h) = 3, NEW t \in Seq(X)
    PROVE  h \o t \in Seq(X) /\ IsLed(h \o t, h, t)
<1> PICK s : s = h \o t
    OBVIOUS
<1> PICK l \in Nat : l = Len(t)
    OBVIOUS
<1>1. s \in Seq(X) /\ Len(s) = 3 + l
      /\ \A n \in 1 .. (3 + l) : s[n] = IF n <= 3 THEN h[n] ELSE t[n - 3]
    <2>1. /\ h \o t \in Seq(X) /\ Len(h \o t) = Len(h) + Len(t)
          /\ \A n \in 1 .. Len(h) + Len(t) :
                (h \o t)[n] = IF n <= Len(h) THEN h[n] ELSE t[n - Len(h)]
        BY ConcatProperties, Zenon
    <2> QED BY <2>1, Zenon
<1>2. \A n \in {1, 2, 3} : s[n] = h[n] /\ n \in 1 .. Len(s)
    BY <1>1
<1>3. \A n \in 1 .. Len(t) : s[3 + n] = t[n] /\ 3 + n \in 1 .. Len(s)
    BY <1>1
<1>4. ASSUME NEW n \in 1 .. Len(s), n \notin {1, 2, 3} PROVE \E m \in 1 .. Len(t) : n = 3 + m
    <2>1. n - 3 \in 1 .. l /\ n = 3 + (n - 3)
        BY <1>1, <1>4
    <2> QED BY <2>1
<1> QED BY <1>1, <1>2, <1>3, <1>4 DEF IsLed

\* The exposure, deviation and mean come before the samples.
LEMMA SamplesFollow ==
    ASSUME NEW T, T \subseteq Int, \A s \in T : s > 0, NEW kept, Lists(kept, T), Increasing(kept),
           NEW sids, sids = <<-3, -2, -1>> \o kept
    PROVE  /\ Lists(sids, {-3, -2, -1} \cup T) /\ Increasing(sids) /\ sids[1] = -3
           /\ IsLed(sids, <<-3, -2, -1>>, kept)
<1> PICK head : head = <<-3, -2, -1>>
    OBVIOUS
<1> PICK X : X = {-3, -2, -1} \cup T
    OBVIOUS
<1>1. /\ kept \in Seq(T) /\ Len(kept) \in Nat /\ DOMAIN kept = 1 .. Len(kept)
      /\ \A n \in 1 .. Len(kept) : kept[n] \in T
      /\ \A x \in T : \E n \in 1 .. Len(kept) : kept[n] = x
    BY ListIs, Zenon
<1>2. head \in Seq(X) /\ kept \in Seq(X) /\ Len(head) = 3
    <2>1. \A n \in 1 .. Len(kept) : kept[n] \in X
        BY <1>1
    <2>2. kept \in Seq(X)
        BY <1>1, <2>1
    <2> QED BY <2>2
<1>3. sids \in Seq(X) /\ IsLed(sids, head, kept)
    BY <1>2, LedIs, Zenon
<1>4. head[1] = -3 /\ head[2] = -2 /\ head[3] = -1
    OBVIOUS
<1>5. sids[1] = -3 /\ sids[2] = -2 /\ sids[3] = -1
    BY <1>3, <1>4 DEF IsLed
<1>6. ASSUME NEW n \in 1 .. Len(sids)
      PROVE  \/ n \in {1, 2, 3}
             \/ \E m \in 1 .. Len(kept) : n = 3 + m /\ sids[n] = kept[m] /\ sids[n] \in Int /\ sids[n] > 0
    <2> SUFFICES ASSUME n \notin {1, 2, 3}
                 PROVE  \E m \in 1 .. Len(kept) : n = 3 + m /\ sids[n] = kept[m] /\ sids[n] \in Int /\ sids[n] > 0
        BY Zenon
    <2>1. PICK m \in 1 .. Len(kept) : n = 3 + m
        BY <1>3, Zenon DEF IsLed
    <2>2. sids[3 + m] = kept[m]
        BY <1>3, Zenon DEF IsLed
    <2>3. kept[m] \in Int /\ kept[m] > 0
        BY <1>1, Zenon
    <2> QED BY <2>1, <2>2, <2>3, Zenon
<1>7. Increasing(sids)
    <2> SUFFICES ASSUME NEW n \in 1 .. Len(sids), NEW m \in 1 .. Len(sids), n < m
                 PROVE  sids[n] < sids[m]
        BY DEF Increasing
    <2>1. CASE m \in {1, 2, 3}
        <3>1. (n = 1 /\ m = 2) \/ (n = 1 /\ m = 3) \/ (n = 2 /\ m = 3)
            BY <2>1
        <3> QED BY <1>5, <3>1
    <2>2. CASE m \notin {1, 2, 3}
        <3>1. PICK b \in 1 .. Len(kept) : m = 3 + b /\ sids[m] = kept[b] /\ sids[m] \in Int /\ sids[m] > 0
            BY <1>6, <2>2
        <3>2. CASE n \in {1, 2, 3}
            BY <1>5, <3>1, <3>2
        <3>3. CASE n \notin {1, 2, 3}
            <4>1. PICK a \in 1 .. Len(kept) : n = 3 + a /\ sids[n] = kept[a]
                BY <1>6, <3>3
            <4>2. a < b
                BY <3>1, <4>1
            <4> QED BY <3>1, <4>1, <4>2 DEF Increasing
        <3> QED BY <3>2, <3>3
    <2> QED BY <2>1, <2>2
<1>8. ASSUME NEW x \in X PROVE \E n \in 1 .. Len(sids) : sids[n] = x
    <2>1. CASE x \in T
        <3>1. PICK n \in 1 .. Len(kept) : kept[n] = x
            BY <1>1, <2>1
        <3> QED BY <1>3, <3>1 DEF IsLed
    <2>2. CASE x \in {-3, -2, -1}
        <3>1. 1 \in 1 .. Len(sids) /\ 2 \in 1 .. Len(sids) /\ 3 \in 1 .. Len(sids)
            BY <1>3 DEF IsLed
        <3> QED BY <1>5, <2>2, <3>1
    <2> QED BY <2>1, <2>2
<1>9. ASSUME NEW n \in 1 .. Len(sids), NEW m \in 1 .. Len(sids), sids[n] = sids[m]
      PROVE  n = m
    <2>1. PICK a \in Int : a = sids[n]
        <3>1. X \subseteq Int
            OBVIOUS
        <3>2. sids[n] \in X
            BY <1>3
        <3> QED BY <3>1, <3>2
    <2>2. n < m => a < a
        BY <1>7, <1>9, <2>1 DEF Increasing
    <2>3. m < n => a < a
        BY <1>7, <1>9, <2>1 DEF Increasing
    <2> QED BY <2>2, <2>3
<1>10. Lists(sids, X)
    BY <1>3, <1>8, <1>9 DEF Lists
<1> QED BY <1>3, <1>5, <1>7, <1>10

\* Records of one item, with the losses w of their samples.
RowsAt(rows, sids, e, i, w) ==
    /\ rows \in Seq(Rec) /\ Len(rows) = Len(sids)
    /\ \A n \in 1 .. Len(sids) : rows[n] = <<e, i, sids[n], w[sids[n]]>>

\* Those of a list of samples.
LEMMA RowsFor ==
    ASSUME NEW e \in Int, NEW i \in Int, NEW T, T \subseteq Int, NEW w, \A s \in T : w[s] \in Int,
           NEW sids \in Seq(T)
    PROVE  RowsAt([n \in 1 .. Len(sids) |-> <<e, i, sids[n], w[sids[n]]>>], sids, e, i, w)
<1> DEFINE rows == [n \in 1 .. Len(sids) |-> <<e, i, sids[n], w[sids[n]]>>]
<1> PICK l \in Nat : l = Len(sids)
    OBVIOUS
<1>1. \A n \in 1 .. l : rows[n] = <<e, i, sids[n], w[sids[n]]>>
    BY Zenon
<1>2. \A n \in 1 .. l : sids[n] \in T
    OBVIOUS
<1>3. rows = [n \in 1 .. l |-> rows[n]]
    BY Zenon
<1> HIDE DEF rows
<1>4. ASSUME NEW n \in 1 .. l PROVE rows[n] \in Rec
    <2>1. PICK s \in T : s = sids[n]
        BY <1>2
    <2>2. rows[n] = <<e, i, s, w[s]>> /\ s \in Int /\ w[s] \in Int
        BY <1>1, <2>1
    <2> QED BY <2>2 DEF Rec
<1>5. rows \in [1 .. l -> Rec]
    BY <1>3, <1>4
<1>6. rows \in Seq(Rec) /\ Len(rows) = l
    BY <1>5
<1>7. RowsAt(rows, sids, e, i, w)
    BY <1>1, <1>6, Zenon DEF RowsAt
<1> QED BY <1>7 DEF rows

\* Those of two lists.
LEMMA RowsJoin ==
    ASSUME NEW e, NEW i, NEW w, NEW X, NEW s1 \in Seq(X), NEW s2 \in Seq(X),
           NEW r1, RowsAt(r1, s1, e, i, w), NEW r2, RowsAt(r2, s2, e, i, w)
    PROVE  RowsAt(r1 \o r2, s1 \o s2, e, i, w)
<1> PICK a \in Nat : a = Len(s1)
    OBVIOUS
<1> PICK b \in Nat : b = Len(s2)
    OBVIOUS
<1>1. /\ r1 \in Seq(Rec) /\ Len(r1) = a /\ r2 \in Seq(Rec) /\ Len(r2) = b
      /\ \A n \in 1 .. a : r1[n] = <<e, i, s1[n], w[s1[n]]>>
      /\ \A n \in 1 .. b : r2[n] = <<e, i, s2[n], w[s2[n]]>>
    BY Zenon DEF RowsAt
<1>2. /\ r1 \o r2 \in Seq(Rec) /\ Len(r1 \o r2) = a + b
      /\ \A n \in 1 .. (a + b) : (r1 \o r2)[n] = IF n <= a THEN r1[n] ELSE r2[n - a]
    <2>1. /\ r1 \o r2 \in Seq(Rec) /\ Len(r1 \o r2) = Len(r1) + Len(r2)
          /\ \A n \in 1 .. Len(r1) + Len(r2) :
                (r1 \o r2)[n] = IF n <= Len(r1) THEN r1[n] ELSE r2[n - Len(r1)]
        BY <1>1, ConcatProperties, Zenon
    <2> QED BY <1>1, <2>1, Zenon
<1>3. /\ Len(s1 \o s2) = a + b
      /\ \A n \in 1 .. (a + b) : (s1 \o s2)[n] = IF n <= a THEN s1[n] ELSE s2[n - a]
    BY ConcatProperties, Zenon
<1> PICK r : r = r1 \o r2
    OBVIOUS
<1> PICK s : s = s1 \o s2
    OBVIOUS
<1>4. ASSUME NEW n \in 1 .. (a + b) PROVE r[n] = <<e, i, s[n], w[s[n]]>>
    <2>1. CASE n <= a
        <3>1. n \in 1 .. a /\ r[n] = r1[n] /\ s[n] = s1[n]
            BY <1>2, <1>3, <2>1
        <3> QED BY <1>1, <3>1, Zenon
    <2>2. CASE ~(n <= a)
        <3>1. n - a \in 1 .. b /\ r[n] = r2[n - a] /\ s[n] = s2[n - a]
            BY <1>2, <1>3, <2>2
        <3> QED BY <1>1, <3>1, Zenon
    <2> QED BY <2>1, <2>2, Zenon
<1>5. r \in Seq(Rec) /\ Len(r) = a + b /\ Len(s) = a + b
    BY <1>2, <1>3, Zenon
<1> QED BY <1>4, <1>5, Zenon DEF RowsAt

\* out is the block of an item with the samples X and their losses w.
IsBlockOf(out, e, i, X, w) ==
    /\ Bears(out, {<<e, i, s>> : s \in X}) /\ Together(out)
    /\ \A n \in 1 .. Len(out) : out[n][4] = w[out[n][3]]

\* The records of an item, from its exposure to its last sample.
LEMMA BlockRows ==
    ASSUME NEW e \in Int, NEW i \in Int, NEW X, X \subseteq Int, NEW sids, Lists(sids, X),
           Increasing(sids), sids[1] = -3, NEW w, \A s \in X : w[s] \in Int,
           NEW out, RowsAt(out, sids, e, i, w)
    PROVE  IsBlockOf(out, e, i, X, w)
<1> PICK l : l = Len(sids)
    OBVIOUS
<1>1. l \in Nat /\ \A n \in 1 .. l : sids[n] \in X
    BY ListIs, Zenon
<1>2. out \in Seq(Rec) /\ Len(out) = l /\ \A n \in 1 .. l : out[n] = <<e, i, sids[n], w[sids[n]]>>
    BY Zenon DEF RowsAt
<1>3. ASSUME NEW n \in 1 .. l
      PROVE  out[n] = <<e, i, sids[n], out[n][4]>> /\ out[n][4] = w[sids[n]] /\ out[n][4] \in Int
             /\ out[n][3] = sids[n]
    <2>1. PICK s : s = sids[n] /\ s \in X
        BY <1>1
    <2>2. out[n] = <<e, i, s, w[s]>> /\ w[s] \in Int
        BY <1>2, <2>1, Zenon
    <2>3. out[n][4] = w[s] /\ out[n][3] = s
        BY <2>2
    <2> QED BY <2>1, <2>2, <2>3, Zenon
<1>4. DOMAIN out = 1 .. l
    BY <1>1, <1>2
<1>5. IsBlock(out, e, i, sids)
    BY <1>3, <1>4, Zenon DEF IsBlock
<1>6. Bears(out, {<<e, i, s>> : s \in X}) /\ Together(out)
    BY <1>2, <1>5, BlockIs
<1> QED BY <1>2, <1>3, <1>6, Zenon DEF IsBlockOf

-----------------------------------------------------------------------------
\* The samples of an item that reach the threshold are those it wants.
SamplesAre(T, S, losses, e, i, g, numbers) ==
    /\ T \subseteq Int /\ IsFiniteSet(T) /\ T \subseteq S /\ \A s \in T : s > 0
    /\ Wants(S, e, i, g, numbers) = {-3, -2, -1} \cup T
    /\ Wants(S, e, i, g, numbers) \subseteq Int
    /\ \A s \in T : WorthOf(e, i, s, g, numbers) = losses[s]

\* They are: the threshold is above zero, and a sample loses what is sampled.
LEMMA WantsIs ==
    ASSUME opt_ \in Options, NEW e \in Events, NEW i \in Item, NEW g \in Groups,
           NEW numbers \in Numbers, NEW losses,
           losses = Sampled(CdfOf[<<e, KeyOf[i]>>], i, g, numbers)
    PROVE  SamplesAre({s \in Sample : losses[s] >= loss_threshold}, Sample, losses, e, i, g, numbers)
<1> PICK T : T = {s \in Sample : losses[s] >= loss_threshold}
    OBVIOUS
<1>1. T \subseteq Int /\ IsFiniteSet(T) /\ T \subseteq Sample /\ \A s \in T : s > 0
    BY SampleFacts, FS_Subset
<1>2. Wants(Sample, e, i, g, numbers) = {-3, -2, -1} \cup T
    <2>1. \A s \in Sample : LossOf(e, i, s, g, numbers) > 0 <=> losses[s] >= loss_threshold
        BY KeptIs
    <2> QED BY <1>1, <2>1 DEF Wants
<1>3. ASSUME NEW s \in T PROVE WorthOf(e, i, s, g, numbers) = losses[s]
    <2>1. s \in Sample /\ s # -3 /\ losses[s] >= loss_threshold
        BY <1>1, SampleFacts
    <2>2. LossOf(e, i, s, g, numbers) = losses[s]
        BY <2>1, KeptIs
    <2> QED BY <2>1, <2>2 DEF WorthOf
<1>4. {-3, -2, -1} \cup T \subseteq Int
    BY <1>1
<1>5. SamplesAre(T, Sample, losses, e, i, g, numbers)
    BY <1>1, <1>2, <1>3, <1>4, Zenon DEF SamplesAre
<1> QED BY <1>5

\* What the records of an item are worth, by sample.
WorthsOf(S, e, i, g, numbers) ==
    [s \in {-3, -2, -1} \cup S |-> WorthOf(e, i, s, g, numbers)]

\* The records of an item before those of its samples.
LEMMA LeadRows ==
    ASSUME opt_ \in Options, NEW e \in Events, NEW i \in Item, NEW g \in Groups,
           NEW numbers \in Numbers, NEW w, w = WorthsOf(Sample, e, i, g, numbers),
           NEW cdf, cdf = CdfOf[<<e, KeyOf[i]>>], NEW tiv, tiv = Tiv[CoverageOf[i]]
    PROVE  RowsAt(<< Row(e, i, -3, tiv), Row(e, i, -2, std_dev(cdf, tiv)),
                     Row(e, i, -1, gul_mean(cdf, tiv)) >>, <<-3, -2, -1>>, e, i, w)
<1>1. w[-3] = tiv /\ w[-2] = std_dev(cdf, tiv) /\ w[-1] = gul_mean(cdf, tiv)
    BY DEF WorthsOf, WorthOf, LossOf
<1>2. w[-3] \in Int /\ w[-2] \in Int /\ w[-1] \in Int
    BY LossType DEF WorthsOf
<1>3. e \in Int /\ i \in Int
    BY ColumnFacts
<1> PICK a \in Int : a = w[-3]
    BY <1>2
<1> PICK b \in Int : b = w[-2]
    BY <1>2
<1> PICK c \in Int : c = w[-1]
    BY <1>2
<1> DEFINE head == << <<e, i, -3, a>>, <<e, i, -2, b>>, <<e, i, -1, c>> >>
           lead == <<-3, -2, -1>>
<1>4. head \in Seq(Rec) /\ Len(head) = 3 /\ Len(lead) = 3
    BY <1>3 DEF Rec
<1>5. lead[1] = -3 /\ lead[2] = -2 /\ lead[3] = -1
    OBVIOUS
<1>6. head[1] = <<e, i, -3, a>> /\ head[2] = <<e, i, -2, b>> /\ head[3] = <<e, i, -1, c>>
    OBVIOUS
<1>7. head = << Row(e, i, -3, tiv), Row(e, i, -2, std_dev(cdf, tiv)),
                Row(e, i, -1, gul_mean(cdf, tiv)) >>
    BY <1>1 DEF Row
<1> HIDE DEF head, lead
<1>8. ASSUME NEW n \in 1 .. Len(lead) PROVE head[n] = <<e, i, lead[n], w[lead[n]]>>
    <2>1. n = 1 \/ n = 2 \/ n = 3
        BY <1>4
    <2> QED BY <1>5, <1>6, <2>1
<1>9. RowsAt(head, lead, e, i, w)
    BY <1>4, <1>8 DEF RowsAt
<1> QED BY <1>7, <1>9 DEF lead

\* Those of its samples.
LEMMA SampleRows ==
    ASSUME opt_ \in Options, NEW e \in Events, NEW i \in Item, NEW g \in Groups,
           NEW numbers \in Numbers, NEW w, w = WorthsOf(Sample, e, i, g, numbers),
           NEW losses, losses = Sampled(CdfOf[<<e, KeyOf[i]>>], i, g, numbers),
           NEW T, T = {s \in Sample : losses[s] >= loss_threshold}
    PROVE  RowsAt(writemode0output(e, i, losses), Sorted(T), e, i, w)
<1>0. SamplesAre(T, Sample, losses, e, i, g, numbers)
    BY WantsIs
<1>1. /\ T \subseteq Int /\ IsFiniteSet(T) /\ T \subseteq Sample
      /\ \A s \in T : WorthOf(e, i, s, g, numbers) = losses[s]
    BY <1>0, Zenon DEF SamplesAre
<1>2. \A s \in T : w[s] = losses[s]
    BY <1>1 DEF WorthsOf
<1>3. \A s \in T : w[s] \in Int
    BY <1>1, LossType DEF WorthsOf
<1> PICK kept : kept = Sorted(T)
    OBVIOUS
<1>4. Lists(kept, T)
    BY <1>1, SortedIs, Zenon
<1>5. kept \in Seq(T) /\ \A n \in 1 .. Len(kept) : kept[n] \in T
    BY <1>4, ListIs, Zenon
<1>6. writemode0output(e, i, losses) = [n \in 1 .. Len(kept) |-> <<e, i, kept[n], losses[kept[n]]>>]
    BY Zenon DEF writemode0output, Kept, Row
<1>7. [n \in 1 .. Len(kept) |-> <<e, i, kept[n], losses[kept[n]]>>]
        = [n \in 1 .. Len(kept) |-> <<e, i, kept[n], w[kept[n]]>>]
    BY <1>2, <1>5, Zenon
<1>8. e \in Int /\ i \in Int
    BY ColumnFacts
<1>9. RowsAt([n \in 1 .. Len(kept) |-> <<e, i, kept[n], w[kept[n]]>>], kept, e, i, w)
    BY <1>1, <1>3, <1>5, <1>8, RowsFor, Zenon
<1> QED BY <1>6, <1>7, <1>9, Zenon

\* In mode 0 the records of an item hold what it lost, by sample.
Worthy(out, e, i, g, numbers) ==
    \A n \in 1 .. Len(out) : out[n][4] = WorthOf(e, i, out[n][3], g, numbers)

\* The rows of an item are its block, with its losses.
LEMMA ItemRowsAre ==
    ASSUME opt_ \in Options, NEW e \in Events, NEW i \in Item, NEW g \in Groups,
           NEW numbers \in Numbers, NEW out, out = ItemRows(e, KeyOf[i], i, g, numbers)
    PROVE  /\ Bears(out, ItemKeys(Sample, e, i, g, numbers)) /\ Together(out)
           /\ Worthy(out, e, i, g, numbers)
<1> PICK cdf : cdf = CdfOf[<<e, KeyOf[i]>>]
    OBVIOUS
<1> PICK tiv : tiv = Tiv[CoverageOf[i]]
    OBVIOUS
<1> PICK losses : losses = Sampled(cdf, i, g, numbers)
    OBVIOUS
<1> PICK T : T = {s \in Sample : losses[s] >= loss_threshold}
    OBVIOUS
<1> PICK w : w = WorthsOf(Sample, e, i, g, numbers)
    OBVIOUS
<1> PICK X : X = Wants(Sample, e, i, g, numbers)
    OBVIOUS
<1>0. SamplesAre(T, Sample, losses, e, i, g, numbers)
    BY WantsIs
<1>1. /\ T \subseteq Int /\ IsFiniteSet(T) /\ T \subseteq Sample /\ \A s \in T : s > 0
      /\ X = {-3, -2, -1} \cup T /\ X \subseteq Int
    BY <1>0, Zenon DEF SamplesAre
<1> PICK kept : kept = Sorted(T)
    OBVIOUS
<1>2. Lists(kept, T) /\ Increasing(kept)
    BY <1>1, SortedIs, Zenon
<1> PICK sids : sids = <<-3, -2, -1>> \o kept
    OBVIOUS
<1>3. Lists(sids, X) /\ Increasing(sids) /\ sids[1] = -3
    <2>1. \A s \in T : s > 0
        BY <1>1, Zenon
    <2>2. Lists(sids, {-3, -2, -1} \cup T) /\ Increasing(sids) /\ sids[1] = -3
        BY <1>1, <1>2, <2>1, SamplesFollow, Zenon
    <2> QED BY <1>1, <2>2, Zenon
<1> PICK head : head = << Row(e, i, -3, tiv), Row(e, i, -2, std_dev(cdf, tiv)),
                          Row(e, i, -1, gul_mean(cdf, tiv)) >>
    OBVIOUS
<1> PICK tail : tail = writemode0output(e, i, losses)
    OBVIOUS
<1>4. out = head \o tail
    BY Zenon DEF ItemRows
<1>5. RowsAt(head, <<-3, -2, -1>>, e, i, w) /\ RowsAt(tail, kept, e, i, w)
    BY LeadRows, SampleRows, Zenon
<1>6. <<-3, -2, -1>> \in Seq(Int) /\ kept \in Seq(Int)
    <2>1. kept \in Seq(T)
        BY <1>2, ListIs, Zenon
    <2>2. kept \in Seq(Int)
        BY <1>1, <2>1, SeqIn, Zenon
    <2>3. <<-3, -2, -1>> \in Seq(Int)
        OBVIOUS
    <2> QED BY <2>2, <2>3, Zenon
<1>7. RowsAt(out, sids, e, i, w)
    <2>1. RowsAt(head \o tail, <<-3, -2, -1>> \o kept, e, i, w)
        BY <1>5, <1>6, RowsJoin
    <2> QED BY <1>4, <2>1, Zenon
<1>8. \A s \in X : w[s] \in Int /\ w[s] = WorthOf(e, i, s, g, numbers)
    BY <1>1, LossType DEF WorthsOf
<1>9. e \in Int /\ i \in Int
    BY ColumnFacts
<1>10. /\ Bears(out, {<<e, i, s>> : s \in X}) /\ Together(out)
       /\ \A n \in 1 .. Len(out) : out[n][4] = w[out[n][3]]
    <2>1. X \subseteq Int /\ \A s \in X : w[s] \in Int
        BY <1>1, <1>8, Zenon
    <2>2. IsBlockOf(out, e, i, X, w)
        BY <1>3, <1>7, <1>9, <2>1, BlockRows, Zenon
    <2> QED BY <2>2, Zenon DEF IsBlockOf
<1>11. Worthy(out, e, i, g, numbers)
    <2>1. ASSUME NEW n \in 1 .. Len(out) PROVE out[n][3] \in X
        <3>1. KeyAt(out[n]) \in {<<e, i, s>> : s \in X}
            BY <1>10, Zenon DEF Bears
        <3>2. PICK s \in X : KeyAt(out[n]) = <<e, i, s>>
            BY <3>1, Zenon
        <3> QED BY <3>2 DEF KeyAt
    <2> QED BY <1>8, <1>10, <2>1, Zenon DEF Worthy
<1> QED BY <1>10, <1>11, Zenon DEF ItemKeys

-----------------------------------------------------------------------------
(* The records of a CDF *)

\* Pieces of records are records.
LEMMA FlattenIn ==
    ASSUME NEW X, NEW k \in Nat, NEW q \in [1 .. k -> Seq(X)]
    PROVE  FlattenSeq(q) \in Seq(X)
BY FlattenIs

\* The groups that seed the numbers of a stream.
LEMMA GroupsAre ==
    ASSUME NEW j \in Streams, NEW i \in Item
    PROVE  GroupIn(i, j) \in Groups
BY DEF Streams, GroupIn, Groups

\* A record that holds what its item lost, unallocated.
Fair(j, D) == {r \in Rec : r[4] = WorthOf(r[1], r[2], r[3], GroupIn(r[2], j), D[r[1]])}

Holders(k) == {i \in Item : KeyOf[i] = k}
\* What a CDF of the event e and key k is to bear.
RecordKeys(S, e, k, j, numbers) ==
    UNION {ItemKeys(S, e, i, GroupIn(i, j), numbers) : i \in Holders(k)}

\* The items of a key, in ascending order.
LEMMA ItemsOfAre ==
    ASSUME NEW k
    PROVE  Lists(ItemsOf(k), Holders(k))
<1>1. Holders(k) \subseteq Int /\ IsFiniteSet(Holders(k))
    BY ColumnFacts, FS_Subset DEF Holders
<1>2. Lists(Sorted(Holders(k)), Holders(k))
    BY <1>1, SortedIs, Zenon
<1> QED BY <1>2 DEF ItemsOf, Holders

\* The keys of different items are different.
LEMMA KeysDiffer ==
    ASSUME NEW S, NEW e, NEW i, NEW m, i # m, NEW g, NEW h, NEW numbers
    PROVE  ItemKeys(S, e, i, g, numbers) \cap ItemKeys(S, e, m, h, numbers) = {}
<1> SUFFICES ASSUME NEW x, x \in ItemKeys(S, e, i, g, numbers), x \in ItemKeys(S, e, m, h, numbers)
             PROVE  FALSE
    OBVIOUS
<1>1. PICK s : x = <<e, i, s>>
    BY DEF ItemKeys
<1>2. PICK t : x = <<e, m, t>>
    BY DEF ItemKeys
<1> QED BY <1>1, <1>2

\* One block of an item in a stream.
LEMMA StreamRows ==
    ASSUME opt_ \in Options, NEW e \in Events, NEW i \in Item, NEW j \in Streams,
           NEW numbers \in Numbers, NEW D, D[e] = numbers,
           NEW out, out = ItemRows(e, KeyOf[i], i, GroupIn(i, j), numbers)
    PROVE  /\ Bears(out, ItemKeys(Sample, e, i, GroupIn(i, j), numbers)) /\ Together(out)
           /\ out \in Seq(Fair(j, D))
<1> PICK g : g = GroupIn(i, j)
    OBVIOUS
<1>1. g \in Groups
    BY GroupsAre
<1>2. /\ Bears(out, ItemKeys(Sample, e, i, g, numbers)) /\ Together(out)
      /\ Worthy(out, e, i, g, numbers)
    BY <1>1, ItemRowsAre
<1>3. out \in Seq(Rec) /\ \A n \in 1 .. Len(out) : KeyAt(out[n]) \in ItemKeys(Sample, e, i, g, numbers)
    BY <1>2, Zenon DEF Bears
<1>4. ASSUME NEW n \in 1 .. Len(out) PROVE out[n] \in Fair(j, D)
    <2>1. out[n] \in Rec
        BY <1>3
    <2>2. PICK s : KeyAt(out[n]) = <<e, i, s>>
        BY <1>3, Zenon DEF ItemKeys
    <2>3. out[n][1] = e /\ out[n][2] = i
        BY <2>2 DEF KeyAt
    <2>4. out[n][4] = WorthOf(e, i, out[n][3], g, numbers)
        BY <1>2, Zenon DEF Worthy
    <2> QED BY <2>1, <2>3, <2>4, Zenon DEF Fair
<1>5. Len(out) \in Nat /\ out \in [1 .. Len(out) -> Rec]
    BY <1>3
<1>6. out \in [1 .. Len(out) -> Fair(j, D)]
    BY <1>4, <1>5
<1>7. out \in Seq(Fair(j, D))
    BY <1>5, <1>6
<1> QED BY <1>2, <1>7, Zenon

\* The rows that a CDF adds to a stream in mode 0.
RecordRows(e, k, j, numbers) ==
    FlattenSeq([n \in 1 .. Len(ItemsOf(k)) |->
                    ItemRows(e, k, ItemsOf(k)[n], GroupIn(ItemsOf(k)[n], j), numbers)])

\* The rows of a CDF are the blocks of the items that hold its key.
LEMMA RecordRowsAre ==
    ASSUME opt_ \in Options, NEW e \in Events, NEW k \in Keys, NEW j \in Streams,
           NEW numbers \in Numbers, NEW D, D[e] = numbers
    PROVE  /\ Bears(RecordRows(e, k, j, numbers), RecordKeys(Sample, e, k, j, numbers))
           /\ Together(RecordRows(e, k, j, numbers))
           /\ RecordRows(e, k, j, numbers) \in Seq(Fair(j, D))
<1> PICK items : items = ItemsOf(k)
    OBVIOUS
<1>1. Lists(items, Holders(k))
    BY ItemsOfAre
<1> PICK l : l = Len(items)
    OBVIOUS
<1>2. /\ l \in Nat /\ \A n \in 1 .. l : items[n] \in Holders(k)
      /\ \A i \in Holders(k) : \E n \in 1 .. l : items[n] = i
      /\ \A n, m \in 1 .. l : items[n] = items[m] => n = m
    <2>1. /\ Len(items) \in Nat /\ \A n \in 1 .. Len(items) : items[n] \in Holders(k)
          /\ \A i \in Holders(k) : \E n \in 1 .. Len(items) : items[n] = i
          /\ \A n, m \in 1 .. Len(items) : items[n] = items[m] => n = m
        BY <1>1, ListIs
    <2> QED BY <2>1, Zenon
<1> DEFINE q == [n \in 1 .. l |-> ItemRows(e, k, items[n], GroupIn(items[n], j), numbers)]
           W == [n \in 1 .. l |-> ItemKeys(Sample, e, items[n], GroupIn(items[n], j), numbers)]
<1>3. RecordRows(e, k, j, numbers) = FlattenSeq(q)
    <2>1. q = [n \in 1 .. Len(ItemsOf(k)) |->
                    ItemRows(e, k, ItemsOf(k)[n], GroupIn(ItemsOf(k)[n], j), numbers)]
        OBVIOUS
    <2> HIDE DEF q
    <2> QED BY <2>1, Zenon DEF RecordRows
<1>4. ASSUME NEW n \in 1 .. l
      PROVE  Bears(q[n], W[n]) /\ Together(q[n]) /\ q[n] \in Seq(Fair(j, D))
    <2> PICK i : i = items[n]
        OBVIOUS
    <2>1. i \in Item /\ KeyOf[i] = k
        BY <1>2 DEF Holders
    <2>2. /\ q[n] = ItemRows(e, KeyOf[i], i, GroupIn(i, j), numbers)
          /\ W[n] = ItemKeys(Sample, e, i, GroupIn(i, j), numbers)
        BY <2>1, Zenon
    <2> QED BY <2>1, <2>2, StreamRows
<1>5. ASSUME NEW n \in 1 .. l, NEW m \in 1 .. l, n # m PROVE W[n] \cap W[m] = {}
    <2>1. PICK i, o : i = items[n] /\ o = items[m] /\ i # o
        BY <1>2, <1>5
    <2>2. /\ W[n] = ItemKeys(Sample, e, i, GroupIn(i, j), numbers)
          /\ W[m] = ItemKeys(Sample, e, o, GroupIn(o, j), numbers)
        BY <2>1, Zenon
    <2> HIDE DEF W
    <2> QED BY <2>1, <2>2, KeysDiffer
<1>6. RecordKeys(Sample, e, k, j, numbers) = AllOf(W, l)
    <2>1. ASSUME NEW x \in RecordKeys(Sample, e, k, j, numbers) PROVE x \in AllOf(W, l)
        <3>1. PICK i \in Holders(k) : x \in ItemKeys(Sample, e, i, GroupIn(i, j), numbers)
            BY Zenon DEF RecordKeys
        <3>2. PICK n \in 1 .. l : items[n] = i
            BY <1>2, Zenon
        <3>3. x \in W[n]
            BY <3>1, <3>2, Zenon
        <3> QED BY <3>3, Zenon DEF AllOf
    <2>2. ASSUME NEW x \in AllOf(W, l) PROVE x \in RecordKeys(Sample, e, k, j, numbers)
        <3>1. PICK n \in 1 .. l : x \in W[n]
            BY Zenon DEF AllOf
        <3>2. x \in ItemKeys(Sample, e, items[n], GroupIn(items[n], j), numbers)
            BY <3>1, Zenon
        <3>3. items[n] \in Holders(k)
            BY <1>2, Zenon
        <3> QED BY <3>2, <3>3, Zenon DEF RecordKeys
    <2> QED BY <2>1, <2>2, Zenon
<1>7. DOMAIN q = 1 .. l /\ q = [n \in 1 .. l |-> q[n]]
    BY Zenon
<1> HIDE DEF q, W
<1>8. AllBear(q, W, l)
    BY <1>4, <1>5, <1>7, Zenon DEF AllBear
<1>9. Bears(FlattenSeq(q), AllOf(W, l)) /\ q \in [1 .. l -> Seq(Rec)]
    BY <1>2, <1>8, BearsPieces, Zenon
<1>10. Together(FlattenSeq(q))
    BY <1>2, <1>4, <1>9, TogetherPieces, Zenon
<1>11. q \in [1 .. l -> Seq(Fair(j, D))]
    BY <1>4, <1>7
<1>12. FlattenSeq(q) \in Seq(Fair(j, D))
    <2>1. PICK X : X = Fair(j, D)
        OBVIOUS
    <2>2. q \in [1 .. l -> Seq(X)]
        BY <1>11, <2>1, Zenon
    <2>3. FlattenSeq(q) \in Seq(X)
        BY <1>2, <2>2, FlattenIn, Zenon
    <2> QED BY <2>1, <2>3, Zenon
<1> QED BY <1>3, <1>6, <1>9, <1>10, <1>12, Zenon

-----------------------------------------------------------------------------
(* What a stream is to bear *)

Pairs(r) == {r[n] : n \in 1 .. Len(r)}
\* The records of the events E, with the CDFs R read and the numbers D drawn.
Wanted(S, R, D, j, E) ==
    {x \in E \X Item \X ({-3, -2, -1} \cup S) :
        <<x[1], KeyOf[x[2]]>> \in R /\ x[3] \in Wants(S, x[1], x[2], GroupIn(x[2], j), D[x[1]])}

\* One record of them.
LEMMA WantedIs ==
    ASSUME NEW S, NEW R, NEW D, NEW j, NEW E
    PROVE  /\ \A e, i, s : <<e, i, s>> \in Wanted(S, R, D, j, E) <=>
                /\ e \in E /\ i \in Item /\ <<e, KeyOf[i]>> \in R
                /\ s \in Wants(S, e, i, GroupIn(i, j), D[e])
           /\ \A x \in Wanted(S, R, D, j, E) : x = <<x[1], x[2], x[3]>> /\ x[1] \in E
<1>1. ASSUME NEW e, NEW i, NEW s
      PROVE  <<e, i, s>> \in Wanted(S, R, D, j, E) <=>
                /\ e \in E /\ i \in Item /\ <<e, KeyOf[i]>> \in R
                /\ s \in Wants(S, e, i, GroupIn(i, j), D[e])
    <2>1. s \in Wants(S, e, i, GroupIn(i, j), D[e]) => s \in {-3, -2, -1} \cup S
        BY DEF Wants
    <2> PICK x : x = <<e, i, s>>
        OBVIOUS
    <2>2. x[1] = e /\ x[2] = i /\ x[3] = s
        OBVIOUS
    <2>3. x \in E \X Item \X ({-3, -2, -1} \cup S) <=>
            e \in E /\ i \in Item /\ s \in {-3, -2, -1} \cup S
        OBVIOUS
    <2> QED BY <2>1, <2>2, <2>3, Zenon DEF Wanted
<1>2. ASSUME NEW x \in Wanted(S, R, D, j, E) PROVE x = <<x[1], x[2], x[3]>> /\ x[1] \in E
    <2>1. x \in E \X Item \X ({-3, -2, -1} \cup S)
        BY Zenon DEF Wanted
    <2> QED BY <2>1
<1> QED BY <1>1, <1>2

\* It does not depend on other events.
Agree(R, D, T, C, E) ==
    /\ \A e \in E : C[e] = D[e]
    /\ \A e \in E : \A k : <<e, k>> \in T <=> <<e, k>> \in R

\* What is wanted of some events stays while their CDFs and numbers do.
LEMMA WantedSame ==
    ASSUME NEW S, NEW R, NEW D, NEW j, NEW E, NEW T, NEW C, Agree(R, D, T, C, E)
    PROVE  Wanted(S, T, C, j, E) = Wanted(S, R, D, j, E)
<1>1. ASSUME NEW x \in E \X Item \X ({-3, -2, -1} \cup S)
      PROVE  (<<x[1], KeyOf[x[2]]>> \in T /\ x[3] \in Wants(S, x[1], x[2], GroupIn(x[2], j), C[x[1]]))
         <=> (<<x[1], KeyOf[x[2]]>> \in R /\ x[3] \in Wants(S, x[1], x[2], GroupIn(x[2], j), D[x[1]]))
    <2>1. x[1] \in E
        OBVIOUS
    <2>2. C[x[1]] = D[x[1]] /\ (<<x[1], KeyOf[x[2]]>> \in T <=> <<x[1], KeyOf[x[2]]>> \in R)
        BY <2>1, Zenon DEF Agree
    <2> QED BY <2>2, Zenon
<1> QED BY <1>1, Zenon DEF Wanted

\* The keys of a record.
LEMMA RecordKeysAre ==
    ASSUME NEW S, NEW f, NEW k, NEW j, NEW numbers
    PROVE  /\ \A e, i, s : <<e, i, s>> \in RecordKeys(S, f, k, j, numbers) <=>
                /\ e = f /\ i \in Item /\ KeyOf[i] = k
                /\ s \in Wants(S, f, i, GroupIn(i, j), numbers)
           /\ \A x \in RecordKeys(S, f, k, j, numbers) : x = <<x[1], x[2], x[3]>>
<1>1. ASSUME NEW x \in RecordKeys(S, f, k, j, numbers)
      PROVE  \E i \in Item : \E s \in Wants(S, f, i, GroupIn(i, j), numbers) :
                KeyOf[i] = k /\ x = <<f, i, s>>
    <2>1. PICK i \in Holders(k) : x \in ItemKeys(S, f, i, GroupIn(i, j), numbers)
        BY Zenon DEF RecordKeys
    <2>2. PICK s \in Wants(S, f, i, GroupIn(i, j), numbers) : x = <<f, i, s>>
        BY <2>1, Zenon DEF ItemKeys
    <2>3. i \in Item /\ KeyOf[i] = k
        BY Zenon DEF Holders
    <2> QED BY <2>2, <2>3
<1>2. ASSUME NEW i \in Item, KeyOf[i] = k, NEW s \in Wants(S, f, i, GroupIn(i, j), numbers)
      PROVE  <<f, i, s>> \in RecordKeys(S, f, k, j, numbers)
    <2>1. i \in Holders(k)
        BY <1>2 DEF Holders
    <2>2. <<f, i, s>> \in ItemKeys(S, f, i, GroupIn(i, j), numbers)
        BY Zenon DEF ItemKeys
    <2> QED BY <2>1, <2>2, Zenon DEF RecordKeys
<1>3. ASSUME NEW e, NEW i, NEW s, <<e, i, s>> \in RecordKeys(S, f, k, j, numbers)
      PROVE  /\ e = f /\ i \in Item /\ KeyOf[i] = k
             /\ s \in Wants(S, f, i, GroupIn(i, j), numbers)
    <2>1. PICK h \in Item : \E t \in Wants(S, f, h, GroupIn(h, j), numbers) :
                KeyOf[h] = k /\ <<e, i, s>> = <<f, h, t>>
        BY <1>1, <1>3, Zenon
    <2>2. PICK t \in Wants(S, f, h, GroupIn(h, j), numbers) :
                KeyOf[h] = k /\ <<e, i, s>> = <<f, h, t>>
        BY <2>1
    <2>3. e = f /\ i = h /\ s = t
        BY <2>2
    <2> QED BY <2>2, <2>3, Zenon
<1>4. \A x \in RecordKeys(S, f, k, j, numbers) : x = <<x[1], x[2], x[3]>>
    BY <1>1
<1> QED BY <1>2, <1>3, <1>4, Zenon

\* One more CDF.
IsWanted(A, S, R, D, j, E) ==
    /\ \A e, i, s : <<e, i, s>> \in A <=>
            /\ e \in E /\ i \in Item /\ <<e, KeyOf[i]>> \in R
            /\ s \in Wants(S, e, i, GroupIn(i, j), D[e])
    /\ \A x \in A : x = <<x[1], x[2], x[3]>>
IsRecords(B, S, f, k, j, numbers) ==
    /\ \A e, i, s : <<e, i, s>> \in B <=>
            /\ e = f /\ i \in Item /\ KeyOf[i] = k
            /\ s \in Wants(S, f, i, GroupIn(i, j), numbers)
    /\ \A x \in B : x = <<x[1], x[2], x[3]>>

\* One more CDF wants the records of its items, and no others.
LEMMA WantedMore ==
    ASSUME NEW S, NEW R, NEW D, NEW j, NEW E, NEW f, NEW k, <<f, k>> \notin R,
           \A o : <<f, o>> \in R => f \in E,
           NEW C, \A e \in E : C[e] = D[e]
    PROVE  /\ Wanted(S, R \cup {<<f, k>>}, C, j, E \cup {f}) =
                Wanted(S, R, D, j, E) \cup RecordKeys(S, f, k, j, C[f])
           /\ Wanted(S, R, D, j, E) \cap RecordKeys(S, f, k, j, C[f]) = {}
<1> PICK numbers : numbers = C[f]
    OBVIOUS
<1> PICK A : A = Wanted(S, R, D, j, E)
    OBVIOUS
<1> PICK B : B = RecordKeys(S, f, k, j, numbers)
    OBVIOUS
<1> PICK T : T = R \cup {<<f, k>>}
    OBVIOUS
<1> PICK F : F = E \cup {f}
    OBVIOUS
<1> PICK Z : Z = Wanted(S, T, C, j, F)
    OBVIOUS
<1>1. IsWanted(A, S, R, D, j, E)
    <2>1. IsWanted(Wanted(S, R, D, j, E), S, R, D, j, E)
        BY WantedIs DEF IsWanted
    <2> QED BY <2>1, Zenon
<1>2. IsRecords(B, S, f, k, j, numbers)
    <2>1. IsRecords(RecordKeys(S, f, k, j, numbers), S, f, k, j, numbers)
        BY RecordKeysAre DEF IsRecords
    <2> QED BY <2>1, Zenon
<1>3. IsWanted(Z, S, T, C, j, F)
    <2>1. IsWanted(Wanted(S, T, C, j, F), S, T, C, j, F)
        BY WantedIs DEF IsWanted
    <2> QED BY <2>1, Zenon
<1>4. ASSUME NEW e, NEW i, NEW s PROVE <<e, i, s>> \in Z <=> <<e, i, s>> \in A \cup B
    <2>1. e \in F /\ <<e, KeyOf[i]>> \in T <=>
            (e \in E /\ <<e, KeyOf[i]>> \in R) \/ (e = f /\ KeyOf[i] = k)
        OBVIOUS
    <2>2. <<e, i, s>> \in A <=> /\ e \in E /\ i \in Item /\ <<e, KeyOf[i]>> \in R
                               /\ s \in Wants(S, e, i, GroupIn(i, j), D[e])
        BY <1>1, Zenon DEF IsWanted
    <2>3. <<e, i, s>> \in B <=> /\ e = f /\ i \in Item /\ KeyOf[i] = k
                               /\ s \in Wants(S, f, i, GroupIn(i, j), numbers)
        BY <1>2, Zenon DEF IsRecords
    <2>4. <<e, i, s>> \in Z <=> /\ e \in F /\ i \in Item /\ <<e, KeyOf[i]>> \in T
                               /\ s \in Wants(S, e, i, GroupIn(i, j), C[e])
        BY <1>3, Zenon DEF IsWanted
    <2>5. e \in E => C[e] = D[e]
        OBVIOUS
    <2>6. e = f => C[e] = numbers
        OBVIOUS
    <2>7. ~(e \in E /\ <<e, KeyOf[i]>> \in R /\ e = f /\ KeyOf[i] = k)
        OBVIOUS
    <2> QED BY <2>1, <2>2, <2>3, <2>4, <2>5, <2>6, <2>7
<1>5. Z = A \cup B
    <2>1. \A x \in Z : x = <<x[1], x[2], x[3]>>
        BY <1>3, Zenon DEF IsWanted
    <2>2. \A x \in A : x = <<x[1], x[2], x[3]>>
        BY <1>1, Zenon DEF IsWanted
    <2>3. \A x \in B : x = <<x[1], x[2], x[3]>>
        BY <1>2, Zenon DEF IsRecords
    <2>4. ASSUME NEW x \in Z PROVE x \in A \cup B
        <3>0. x = <<x[1], x[2], x[3]>>
            BY <2>1, Zenon
        <3> PICK e, i, s : e = x[1] /\ i = x[2] /\ s = x[3]
            OBVIOUS
        <3>1. x = <<e, i, s>>
            BY <3>0
        <3>2. <<e, i, s>> \in Z
            BY <3>1
        <3>3. <<e, i, s>> \in A \cup B
            BY <1>4, <3>2
        <3> QED BY <3>1, <3>3
    <2>5. ASSUME NEW x \in A \cup B PROVE x \in Z
        <3>0. x = <<x[1], x[2], x[3]>>
            BY <2>2, <2>3
        <3> PICK e, i, s : e = x[1] /\ i = x[2] /\ s = x[3]
            OBVIOUS
        <3>1. x = <<e, i, s>>
            BY <3>0
        <3>2. <<e, i, s>> \in A \cup B
            BY <3>1
        <3>3. <<e, i, s>> \in Z
            BY <1>4, <3>2
        <3> QED BY <3>1, <3>3
    <2> QED BY <2>4, <2>5, Zenon
<1>6. A \cap B = {}
    <2> SUFFICES ASSUME NEW x \in A, x \in B PROVE FALSE
        OBVIOUS
    <2>0. \A y \in A : y = <<y[1], y[2], y[3]>>
        BY <1>1, Zenon DEF IsWanted
    <2>1. PICK e, i, s : x = <<e, i, s>>
        BY <2>0
    <2>2. <<e, i, s>> \in A /\ <<e, i, s>> \in B
        BY <2>1
    <2>3. <<e, KeyOf[i]>> \in R
        BY <1>1, <2>2, Zenon DEF IsWanted
    <2>4. e = f /\ KeyOf[i] = k
        BY <1>2, <2>2, Zenon DEF IsRecords
    <2> QED BY <2>3, <2>4
<1> QED BY <1>5, <1>6, Zenon

-----------------------------------------------------------------------------
(* Streams *)

\* A stream has the records of the events E, block by block.
StreamIs(out, S, R, D, j, E) == Bears(out, Wanted(S, R, D, j, E)) /\ Together(out)

\* The rows of a CDF after those of a stream.
LEMMA StreamGrows ==
    ASSUME opt_ \in Options, NEW e \in Events, NEW k \in Keys, NEW j \in Streams,
           NEW R, <<e, k>> \notin R, NEW E, \A o : <<e, o>> \in R => e \in E,
           NEW D, NEW C, \A f \in E : C[f] = D[f], C[e] \in Numbers,
           NEW out, StreamIs(out, Sample, R, D, j, E)
    PROVE  StreamIs(out \o RecordRows(e, k, j, C[e]), Sample, R \cup {<<e, k>>}, C, j, E \cup {e})
<1> PICK numbers : numbers = C[e]
    OBVIOUS
<1> PICK V : V = Wanted(Sample, R, D, j, E)
    OBVIOUS
<1> PICK W : W = RecordKeys(Sample, e, k, j, numbers)
    OBVIOUS
<1> PICK rows : rows = RecordRows(e, k, j, numbers)
    OBVIOUS
<1>1. Bears(out, V) /\ Together(out)
    BY Zenon DEF StreamIs
<1>2. Bears(rows, W) /\ Together(rows)
    <2>1. /\ Bears(RecordRows(e, k, j, numbers), RecordKeys(Sample, e, k, j, numbers))
          /\ Together(RecordRows(e, k, j, numbers))
        BY RecordRowsAre, Zenon
    <2> QED BY <2>1, Zenon
<1>3. /\ Wanted(Sample, R \cup {<<e, k>>}, C, j, E \cup {e}) = V \cup W
      /\ V \cap W = {}
    <2>1. /\ Wanted(Sample, R \cup {<<e, k>>}, C, j, E \cup {e}) =
                Wanted(Sample, R, D, j, E) \cup RecordKeys(Sample, e, k, j, C[e])
          /\ Wanted(Sample, R, D, j, E) \cap RecordKeys(Sample, e, k, j, C[e]) = {}
        BY WantedMore
    <2> QED BY <2>1
<1>4. Bears(out \o rows, V \cup W)
    BY <1>1, <1>2, <1>3, BearsBoth, Zenon
<1>5. Together(out \o rows)
    <2>1. out \in Seq(Rec) /\ rows \in Seq(Rec)
        BY <1>1, <1>2, Zenon DEF Bears
    <2> QED BY <1>1, <1>2, <2>1, TogetherBoth, Zenon
<1> QED BY <1>3, <1>4, <1>5, Zenon DEF StreamIs

\* Records that say what their items lost go on doing so.
LEMMA FairGrows ==
    ASSUME opt_ \in Options, NEW e \in Events, NEW k \in Keys, NEW j \in Streams,
           NEW R, NEW E, NEW D, NEW C, \A f \in E : C[f] = D[f], C[e] \in Numbers,
           NEW out, StreamIs(out, Sample, R, D, j, E), out \in Seq(Fair(j, D))
    PROVE  out \o RecordRows(e, k, j, C[e]) \in Seq(Fair(j, C))
<1>1. Bears(out, Wanted(Sample, R, D, j, E))
    BY Zenon DEF StreamIs
<1>2. ASSUME NEW n \in 1 .. Len(out) PROVE out[n] \in Fair(j, C)
    <2>1. KeyAt(out[n]) \in Wanted(Sample, R, D, j, E)
        BY <1>1, Zenon DEF Bears
    <2>2. KeyAt(out[n])[1] \in E
        BY <2>1, WantedIs, Zenon
    <2>3. out[n][1] \in E
        BY <2>2 DEF KeyAt
    <2>4. C[out[n][1]] = D[out[n][1]]
        BY <2>3
    <2>5. out[n] \in Fair(j, D)
        OBVIOUS
    <2> QED BY <2>4, <2>5, Zenon DEF Fair
<1>3. out \in Seq(Fair(j, C))
    BY <1>2
<1>4. RecordRows(e, k, j, C[e]) \in Seq(Fair(j, C))
    BY RecordRowsAre, Zenon
<1> QED BY <1>3, <1>4

\* A stream stays what it is when other events go on.
LEMMA StreamStays ==
    ASSUME NEW out, NEW S, NEW R, NEW D, NEW j, NEW E, StreamIs(out, S, R, D, j, E),
           NEW T, NEW C, Agree(R, D, T, C, E)
    PROVE  StreamIs(out, S, T, C, j, E)
<1>1. Wanted(S, T, C, j, E) = Wanted(S, R, D, j, E)
    BY WantedSame
<1>2. Bears(out, Wanted(S, R, D, j, E)) /\ Together(out)
    BY Zenon DEF StreamIs
<1> QED BY <1>1, <1>2 DEF StreamIs

------------------------------------------------------------------------------
(* What the properties say of a stream *)

\* What an item lost, as the properties say it.
LEMMA UnallocatedIs ==
    ASSUME NEW e \in Events, NEW i \in Item, NEW g, NEW s \in {-2, -1} \cup Sample
    PROVE  Unallocated(e, i, s, g) = LossOf(e, i, s, g, drawn[e])
<1>1. CASE s \in {-2, -1}
    BY <1>1, SMT DEF Unallocated, LossOf
<1>2. CASE s \in Sample
    <2>1. Sampled(CdfOf[<<e, KeyOf[i]>>], i, g, drawn[e])[s] =
            getgul(CdfOf[<<e, KeyOf[i]>>], BinOf(CdfOf[<<e, KeyOf[i]>>], drawn[e][g][s]), Tiv[CoverageOf[i]])
        BY <1>2, SampledIs
    <2> QED BY <2>1 DEF Unallocated, LossOf
<1> QED BY <1>1, <1>2

\* The items that met a CDF.
LEMMA ArrivedIs ==
    ASSUME NEW e, NEW i \in Item
    PROVE  i \in Arrived(e) <=> <<e, KeyOf[i]>> \in Pairs(read)
BY DEF Arrived, Pairs

\* The records of an event that is over are those of its items.
LEMMA CountsAre ==
    ASSUME opt_ \in Options, NEW j \in Streams, NEW E,
           StreamIs(Out(j), Sample, Pairs(read), drawn, j, E),
           NEW e \in E, e \in Events, NEW i \in Item, NEW s \in {-3, -2, -1} \cup Sample
    PROVE  Cardinality(RowsOf(Out(j), e, i, s)) =
                IF i \in Arrived(e) /\ (s < 0 \/ Unallocated(e, i, s, GroupIn(i, j)) > 0)
                THEN 1 ELSE 0
<1> PICK K : K = Wanted(Sample, Pairs(read), drawn, j, E)
    OBVIOUS
<1>1. Bears(Out(j), K)
    BY Zenon DEF StreamIs
<1>2. Cardinality(RowsOf(Out(j), e, i, s)) = IF <<e, i, s>> \in K THEN 1 ELSE 0
    BY <1>1, BearsCount
<1>3. <<e, i, s>> \in K <=> /\ <<e, KeyOf[i]>> \in Pairs(read)
                            /\ s \in Wants(Sample, e, i, GroupIn(i, j), drawn[e])
    BY WantedIs
<1>4. <<e, KeyOf[i]>> \in Pairs(read) <=> i \in Arrived(e)
    BY ArrivedIs, Zenon
<1>5. s \in Wants(Sample, e, i, GroupIn(i, j), drawn[e]) <=>
            s < 0 \/ Unallocated(e, i, s, GroupIn(i, j)) > 0
    <2>1. CASE s \in {-3, -2, -1}
        BY <2>1 DEF Wants
    <2>2. CASE s \in Sample
        <3>1. s > 0 /\ s \notin {-3, -2, -1}
            BY <2>2, SampleFacts, Zenon
        <3>2. Unallocated(e, i, s, GroupIn(i, j)) = LossOf(e, i, s, GroupIn(i, j), drawn[e])
            BY <2>2, UnallocatedIs
        <3> QED BY <2>2, <3>1, <3>2 DEF Wants
    <2> QED BY <2>1, <2>2
<1> QED BY <1>2, <1>3, <1>4, <1>5, Zenon

\* Without allocation a record holds what its item lost, and there is none
\* where it lost nothing.
LEMMA ReportedIs ==
    ASSUME opt_ \in Options, NEW j \in Streams, NEW E, NEW out,
           StreamIs(out, Sample, Pairs(read), drawn, j, E), out \in Seq(Fair(j, drawn)),
           NEW e \in E, e \in Events, drawn[e] \in Numbers, NEW i \in Item,
           NEW s \in {-2, -1} \cup Sample
    PROVE  Reported(out, e, i, s) =
                IF <<e, KeyOf[i]>> \in Pairs(read) THEN LossOf(e, i, s, GroupIn(i, j), drawn[e]) ELSE 0
<1> PICK K : K = Wanted(Sample, Pairs(read), drawn, j, E)
    OBVIOUS
<1> PICK g : g = GroupIn(i, j)
    OBVIOUS
<1>1. Bears(out, K)
    BY Zenon DEF StreamIs
<1>2. <<e, i, s>> \in K <=> /\ <<e, KeyOf[i]>> \in Pairs(read)
                            /\ s \in Wants(Sample, e, i, g, drawn[e])
    BY WantedIs
<1> DEFINE loss == [n \in 1 .. Len(out) |-> out[n][4]]
<1>3. Reported(out, e, i, s) = SumOf(loss, RowsOf(out, e, i, s))
    BY Zenon DEF Reported
<1>4. CASE <<e, i, s>> \in K
    <2>1. PICK n \in 1 .. Len(out) : RowsOf(out, e, i, s) = {n} /\ KeyAt(out[n]) = <<e, i, s>>
        BY <1>1, <1>4, BearsOne
    <2>2. out[n] \in Fair(j, drawn)
        OBVIOUS
    <2>3. out[n] \in Rec /\ out[n][4] = WorthOf(out[n][1], out[n][2], out[n][3], GroupIn(out[n][2], j), drawn[out[n][1]])
        BY <2>2, Zenon DEF Fair
    <2>4. out[n][1] = e /\ out[n][2] = i /\ out[n][3] = s
        BY <2>1 DEF KeyAt
    <2>5. s # -3
        BY SampleFacts
    <2>6. loss[n] = LossOf(e, i, s, g, drawn[e])
        BY <2>3, <2>4, <2>5 DEF WorthOf
    <2>7. loss[n] \in Int
        BY <2>3 DEF Rec
    <2> HIDE DEF loss
    <2>8. SumOf(loss, {n}) = loss[n]
        BY <2>7, SumOne
    <2> QED BY <1>2, <1>3, <1>4, <2>1, <2>6, <2>8, Zenon
<1>5. CASE <<e, i, s>> \notin K
    <2>1. RowsOf(out, e, i, s) = {}
        BY <1>1, <1>5, BearsNone, Zenon
    <2>2. Reported(out, e, i, s) = 0
        BY <1>3, <2>1, SumEmpty, Zenon
    <2>3. <<e, KeyOf[i]>> \in Pairs(read) => LossOf(e, i, s, g, drawn[e]) = 0
        <3> SUFFICES ASSUME <<e, KeyOf[i]>> \in Pairs(read) PROVE LossOf(e, i, s, g, drawn[e]) = 0
            OBVIOUS
        <3>1. s \notin Wants(Sample, e, i, g, drawn[e])
            BY <1>2, <1>5, Zenon
        <3>2. s \in Sample /\ ~(LossOf(e, i, s, g, drawn[e]) > 0)
            BY <3>1 DEF Wants
        <3>3. g \in Groups
            BY GroupsAre
        <3>4. LossOf(e, i, s, g, drawn[e]) \in Nat
            BY <3>2, <3>3, LossType
        <3> QED BY <3>2, <3>4
    <2> QED BY <2>2, <2>3, Zenon
<1> QED BY <1>4, <1>5

-----------------------------------------------------------------------------
(* The rows of a coverage in mode 1 *)

ItemLoss == [item : Item, loss : Int]
\* A row has each item of X once.
RowIs(row, X) ==
    /\ row \in Seq(ItemLoss)
    /\ \A n \in 1 .. Len(row) : row[n].item \in X
    /\ \A x \in X : \E n \in 1 .. Len(row) : row[n].item = x
    /\ \A n, m \in 1 .. Len(row) : row[n].item = row[m].item => n = m

\* A row with the same items in their places.
LEMMA SameItems ==
    ASSUME NEW row, NEW X, RowIs(row, X), NEW new,
           DOMAIN new = 1 .. Len(row), new = [n \in 1 .. Len(row) |-> new[n]],
           \A n \in 1 .. Len(row) : new[n] \in ItemLoss /\ new[n].item = row[n].item
    PROVE  RowIs(new, X)
<1>1. row \in Seq(ItemLoss) /\ Len(row) \in Nat
    BY DEF RowIs
<1>2. new \in [1 .. Len(row) -> ItemLoss]
    OBVIOUS
<1>3. new \in Seq(ItemLoss) /\ Len(new) = Len(row)
    BY <1>1, <1>2
<1> QED BY <1>3 DEF RowIs

\* The total of a row.
LEMMA TotalType ==
    ASSUME NEW row \in Seq(ItemLoss)
    PROVE  Total(row) \in Int
<1>1. Len(row) \in Int /\ 1 \in Int
    OBVIOUS
<1>2. IsFiniteSet(1 .. Len(row))
    BY <1>1, FS_Interval, Zenon
<1> DEFINE loss == [n \in 1 .. Len(row) |-> row[n].loss]
<1>3. ASSUME NEW n \in 1 .. Len(row) PROVE loss[n] \in Int
    <2>1. row[n] \in ItemLoss
        OBVIOUS
    <2> QED BY <2>1 DEF ItemLoss
<1>4. Total(row) = SumOf(loss, 1 .. Len(row))
    BY Zenon DEF Total
<1> HIDE DEF loss
<1> QED BY <1>2, <1>3, <1>4, SumType, Zenon

\* Splitting the exposure leaves the items.
LEMMA SplitIs ==
    ASSUME NEW row, NEW X, RowIs(row, X), NEW tiv \in Nat
    PROVE  RowIs(splittiv(row, tiv), X)
<1>1. row \in Seq(ItemLoss)
    BY DEF RowIs
<1> PICK total : total = Total(row)
    OBVIOUS
<1>2. total \in Int
    BY <1>1, TotalType
<1>3. CASE tiv > 0 /\ total > tiv
    <2> DEFINE new == [n \in 1 .. Len(row) |-> [row[n] EXCEPT !.loss = (@ * tiv) \div total]]
    <2>1. splittiv(row, tiv) = new
        BY <1>3 DEF splittiv
    <2>2. ASSUME NEW n \in 1 .. Len(row)
          PROVE  new[n] \in ItemLoss /\ new[n].item = row[n].item
        <3>1. row[n] \in ItemLoss
            BY <1>1
        <3>2. row[n].loss * tiv \in Int
            BY <3>1 DEF ItemLoss
        <3>3. total \in Nat \ {0}
            BY <1>2, <1>3
        <3>4. (row[n].loss * tiv) \div total \in Int
            BY <3>2, <3>3, Divided, Zenon
        <3>5. new[n] = [row[n] EXCEPT !.loss = (row[n].loss * tiv) \div total]
            OBVIOUS
        <3> PICK q : q = (row[n].loss * tiv) \div total
            OBVIOUS
        <3>6. new[n] = [row[n] EXCEPT !.loss = q] /\ q \in Int
            BY <3>4, <3>5, Zenon
        <3> HIDE DEF new
        <3> QED BY <3>1, <3>6 DEF ItemLoss
    <2>3. DOMAIN new = 1 .. Len(row) /\ new = [n \in 1 .. Len(row) |-> new[n]]
        OBVIOUS
    <2> HIDE DEF new
    <2>4. RowIs(new, X)
        BY <2>2, <2>3, SameItems
    <2> QED BY <2>1, <2>4, Zenon
<1>4. CASE ~(tiv > 0 /\ total > tiv)
    <2>1. splittiv(row, tiv) = row
        BY <1>4 DEF splittiv
    <2> QED BY <2>1, Zenon
<1> QED BY <1>3, <1>4

\* Keeping the maximum leaves the items.
LEMMA MaxLossIs ==
    ASSUME NEW row, NEW X, RowIs(row, X)
    PROVE  RowIs(setmaxloss(row), X)
<1>1. row \in Seq(ItemLoss) /\ Len(row) \in Nat
    BY DEF RowIs
<1> PICK most : most = Max({0} \cup {row[n].loss : n \in 1 .. Len(row)})
    OBVIOUS
<1> DEFINE T == {n \in 1 .. Len(row) : row[n].loss = most}
<1> PICK count : count = Cardinality(T)
    OBVIOUS
<1> DEFINE new == [n \in 1 .. Len(row) |->
                      [row[n] EXCEPT !.loss = IF @ = most THEN @ \div count ELSE 0]]
<1>2. setmaxloss(row) = new
    BY Zenon DEF setmaxloss
<1>3. ASSUME NEW n \in 1 .. Len(row) PROVE new[n] \in ItemLoss /\ new[n].item = row[n].item
    <2>1. row[n] \in ItemLoss
        BY <1>1
    <2> PICK q : q = IF row[n].loss = most THEN row[n].loss \div count ELSE 0
        OBVIOUS
    <2>2. new[n] = [row[n] EXCEPT !.loss = q]
        OBVIOUS
    <2>3. q \in Int
        <3>1. CASE row[n].loss = most
            <4>1. IsFiniteSet(1 .. Len(row))
                <5>1. Len(row) \in Int /\ 1 \in Int
                    BY <1>1
                <5> QED BY <5>1, FS_Interval
            <4>2. IsFiniteSet(T)
                BY <4>1, FS_Subset
            <4>3. n \in T
                BY <3>1
            <4>4. count \in Nat \ {0}
                <5> HIDE DEF T
                <5> QED BY <4>2, <4>3, FS_EmptySet, FS_CardinalityType
            <4>5. row[n].loss \in Int
                BY <2>1 DEF ItemLoss
            <4>6. row[n].loss \div count \in Int
                BY <4>4, <4>5, Divided, Zenon
            <4> QED BY <3>1, <4>6
        <3>2. CASE row[n].loss # most
            BY <3>2
        <3> QED BY <3>1, <3>2
    <2> HIDE DEF new
    <2> QED BY <2>1, <2>2, <2>3 DEF ItemLoss
<1>4. DOMAIN new = 1 .. Len(row) /\ new = [n \in 1 .. Len(row) |-> new[n]]
    OBVIOUS
<1> HIDE DEF new
<1>5. RowIs(new, X)
    BY <1>3, <1>4, SameItems
<1> QED BY <1>2, <1>5, Zenon

\* Some of a row.
Selects(row, I, Y) ==
    /\ I \in SUBSET (1 .. Len(row))
    /\ \A n \in I : row[n].item \in Y
    /\ \A x \in Y : \E n \in I : row[n].item = x

\* Part of a row has the items of that part.
LEMMA SomeOfRow ==
    ASSUME NEW row, NEW X, RowIs(row, X), NEW I, NEW Y, Selects(row, I, Y)
    PROVE  RowIs(Picked(row, I), Y)
<1>0. /\ I \in SUBSET (1 .. Len(row))
      /\ \A n \in I : row[n].item \in Y
      /\ \A x \in Y : \E n \in I : row[n].item = x
    BY Zenon DEF Selects
<1>1. row \in Seq(ItemLoss)
    BY DEF RowIs
<1> PICK r, at : r = Picked(row, I) /\ at = Sorted(I)
    OBVIOUS
<1>2. PicksAt(r, at, row, I, ItemLoss)
    <2>1. PicksAt(Picked(row, I), Sorted(I), row, I, ItemLoss)
        BY <1>0, <1>1, PicksAre, Zenon
    <2> QED BY <2>1, Zenon
<1>3. /\ r \in Seq(ItemLoss)
      /\ \A n \in 1 .. Len(r) : r[n] = row[at[n]] /\ at[n] \in I
      /\ \A m \in I : \E n \in 1 .. Len(r) : at[n] = m
      /\ \A n, m \in 1 .. Len(r) : at[n] = at[m] => n = m
    BY <1>2, Zenon DEF PicksAt
<1>4. ASSUME NEW n \in 1 .. Len(r) PROVE r[n].item \in Y
    <2>1. r[n] = row[at[n]] /\ at[n] \in I
        BY <1>3, Zenon
    <2> QED BY <1>0, <2>1, Zenon
<1>5. ASSUME NEW x \in Y PROVE \E n \in 1 .. Len(r) : r[n].item = x
    <2>1. PICK m \in I : row[m].item = x
        BY <1>0, Zenon
    <2>2. PICK n \in 1 .. Len(r) : at[n] = m
        BY <1>3
    <2> QED BY <1>3, <2>1, <2>2
<1>6. ASSUME NEW n \in 1 .. Len(r), NEW m \in 1 .. Len(r), r[n].item = r[m].item PROVE n = m
    <2>1. at[n] \in 1 .. Len(row) /\ at[m] \in 1 .. Len(row) /\ row[at[n]].item = row[at[m]].item
        BY <1>0, <1>3, <1>6
    <2>2. at[n] = at[m]
        BY <2>1 DEF RowIs
    <2> QED BY <1>3, <2>2
<1>7. RowIs(r, Y)
    BY <1>3, <1>4, <1>5, <1>6, Zenon DEF RowIs
<1> QED BY <1>7, Zenon

-----------------------------------------------------------------------------
(* The items of a coverage in mode 1 *)

StatOf(e) == {[item |-> i, cdf |-> CdfOf[<<e, KeyOf[i]>>]] : i \in Item}
\* The items X of an event, each once and with its CDF.
StatsIs(stats, e, X) ==
    /\ stats \in Seq(StatOf(e))
    /\ \A n \in 1 .. Len(stats) : stats[n].item \in X
    /\ \A x \in X : \E n \in 1 .. Len(stats) : stats[n].item = x
    /\ \A n, m \in 1 .. Len(stats) : stats[n].item = stats[m].item => n = m

\* The losses of the items by the sample s, as gilv has them.
StatLoss(st, s, c, count, numbers, j) ==
    IF s = -3 THEN Tiv[c] \div count
    ELSE IF s = -2 THEN std_dev(st.cdf, Tiv[c])
    ELSE IF s = -1 THEN gul_mean(st.cdf, Tiv[c])
    ELSE Sampled(st.cdf, st.item, IF j THEN 0 ELSE GroupOf[st.item], numbers)[s]
RowOf(stats, c, s, numbers, j) ==
    [n \in 1 .. Len(stats) |->
        [item |-> stats[n].item, loss |-> StatLoss(stats[n], s, c, Len(stats), numbers, j)]]

\* gilv has the row of each sample, without the losses below the threshold.
LEMMA GilvAt ==
    ASSUME NEW stats, NEW c, NEW numbers, NEW j
    PROVE  /\ DOMAIN Gilv(stats, c, numbers, j) = {-3, -2, -1} \cup Sample
           /\ \A s \in {-3, -2, -1} \cup Sample :
                Gilv(stats, c, numbers, j)[s] =
                    IF s < 0 THEN RowOf(stats, c, s, numbers, j)
                    ELSE fillgulitemloss(RowOf(stats, c, s, numbers, j))
BY Zenon DEF Gilv, RowOf, StatLoss

\* One of the items.
LEMMA StatIs ==
    ASSUME NEW e \in Events, NEW st \in StatOf(e)
    PROVE  st.item \in Item /\ st.cdf = CdfOf[<<e, KeyOf[st.item]>>]
<1>1. PICK i \in Item : st = [item |-> i, cdf |-> CdfOf[<<e, KeyOf[i]>>]]
    BY DEF StatOf
<1> QED BY <1>1

\* What one of the items lost.
LEMMA StatLossIs ==
    ASSUME opt_ \in Options, NEW e \in Events, NEW j \in Streams, NEW numbers \in Numbers,
           NEW st \in StatOf(e), NEW c, CoverageOf[st.item] = c, NEW count \in Nat \ {0},
           NEW s \in {-3, -2, -1} \cup Sample
    PROVE  /\ StatLoss(st, s, c, count, numbers, j) \in Int
           /\ s \in Sample =>
                (StatLoss(st, s, c, count, numbers, j) >= loss_threshold <=>
                    s \in Wants(Sample, e, st.item, GroupIn(st.item, j), numbers))
<1> PICK i : i = st.item
    OBVIOUS
<1> PICK g : g = GroupIn(i, j)
    OBVIOUS
<1>1. i \in Item /\ st.cdf = CdfOf[<<e, KeyOf[i]>>] /\ CoverageOf[i] = c /\ c \in Coverage
    BY StatIs, ColumnFacts
<1>2. g \in Groups /\ g = IF j THEN 0 ELSE GroupOf[i]
    BY <1>1, GroupsAre DEF GroupIn
<1>3. CASE s = -3
    <2>1. Tiv[c] \in Nat
        BY <1>1, ColumnFacts
    <2>2. Tiv[c] \div count \in Nat
        BY <2>1, Divided
    <2>3. s \notin Sample
        BY <1>3, SampleFacts
    <2> QED BY <1>3, <2>2, <2>3 DEF StatLoss
<1>4. CASE s \in {-2, -1}
    <2>1. StatLoss(st, s, c, count, numbers, j) = LossOf(e, i, s, g, numbers)
        BY <1>1, <1>4 DEF StatLoss, LossOf
    <2>2. LossOf(e, i, s, g, numbers) \in Int
        BY <1>1, <1>2, <1>4, LossType
    <2>3. s \notin Sample
        BY <1>4, SampleFacts
    <2> QED BY <2>1, <2>2, <2>3
<1>5. CASE s \in Sample
    <2> PICK losses : losses = Sampled(CdfOf[<<e, KeyOf[i]>>], i, g, numbers)
        OBVIOUS
    <2>1. /\ losses[s] \in Nat
          /\ losses[s] >= loss_threshold <=> LossOf(e, i, s, g, numbers) > 0
        BY <1>1, <1>2, <1>5, KeptIs
    <2>2. s > 0 /\ s \notin {-3, -2, -1}
        BY <1>5, SampleFacts
    <2>3. StatLoss(st, s, c, count, numbers, j) = losses[s]
        BY <1>1, <1>2, <2>2 DEF StatLoss
    <2>4. s \in Wants(Sample, e, i, g, numbers) <=> LossOf(e, i, s, g, numbers) > 0
        BY <1>5, <2>2 DEF Wants
    <2> QED BY <2>1, <2>3, <2>4
<1> QED BY <1>3, <1>4, <1>5

\* The losses of all items by a sample.
OfCoverage(X, c) == X # {} /\ \A i \in X : CoverageOf[i] = c
Reaches(row, e, s, j, numbers) ==
    s \in Sample => \A n \in 1 .. Len(row) : row[n].loss >= loss_threshold <=>
                s \in Wants(Sample, e, row[n].item, GroupIn(row[n].item, j), numbers)

\* The row of a sample has each item of the coverage, and the threshold tells
\* those that want a record.
LEMMA RowOfIs ==
    ASSUME opt_ \in Options, NEW e \in Events, NEW j \in Streams, NEW numbers \in Numbers,
           NEW stats, NEW X, StatsIs(stats, e, X), NEW c, OfCoverage(X, c),
           NEW s \in {-3, -2, -1} \cup Sample,
           NEW row, row = RowOf(stats, c, s, numbers, j)
    PROVE  RowIs(row, X) /\ Reaches(row, e, s, j, numbers)
<1> PICK l : l = Len(stats)
    OBVIOUS
<1>1. /\ stats \in Seq(StatOf(e)) /\ \A n \in 1 .. l : stats[n].item \in X
      /\ \A x \in X : \E n \in 1 .. l : stats[n].item = x
      /\ \A n, m \in 1 .. l : stats[n].item = stats[m].item => n = m
    BY Zenon DEF StatsIs
<1>2. l \in Nat \ {0} /\ \A n \in 1 .. l : stats[n] \in StatOf(e)
    <2>1. l \in Nat /\ \A n \in 1 .. l : stats[n] \in StatOf(e)
        BY <1>1
    <2>2. PICK x : x \in X
        BY DEF OfCoverage
    <2>3. PICK n \in 1 .. l : stats[n].item = x
        BY <1>1, <2>2
    <2> QED BY <2>1, <2>3
<1>3. row = [n \in 1 .. l |-> [item |-> stats[n].item, loss |-> StatLoss(stats[n], s, c, l, numbers, j)]]
    BY Zenon DEF RowOf
<1>4. ASSUME NEW n \in 1 .. l
      PROVE  /\ row[n] \in ItemLoss /\ row[n].item = stats[n].item
             /\ s \in Sample => (row[n].loss >= loss_threshold <=>
                  s \in Wants(Sample, e, row[n].item, GroupIn(row[n].item, j), numbers))
    <2> PICK st : st = stats[n]
        OBVIOUS
    <2> PICK loss : loss = StatLoss(st, s, c, l, numbers, j)
        OBVIOUS
    <2>1. st \in StatOf(e) /\ CoverageOf[st.item] = c
        BY <1>1, <1>2 DEF OfCoverage
    <2>2. /\ loss \in Int
          /\ s \in Sample => (loss >= loss_threshold <=>
                s \in Wants(Sample, e, st.item, GroupIn(st.item, j), numbers))
        BY <1>2, <2>1, StatLossIs
    <2>3. row[n] = [item |-> st.item, loss |-> loss]
        BY <1>3
    <2>4. st.item \in Item
        BY <2>1, StatIs
    <2> QED BY <2>2, <2>3, <2>4 DEF ItemLoss
<1>5. row \in Seq(ItemLoss) /\ Len(row) = l
    <2>1. row \in [1 .. l -> ItemLoss]
        BY <1>3, <1>4
    <2> QED BY <1>2, <2>1
<1>6. RowIs(row, X)
    BY <1>1, <1>4, <1>5 DEF RowIs
<1>7. Reaches(row, e, s, j, numbers)
    BY <1>4, <1>5 DEF Reaches
<1> QED BY <1>6, <1>7

\* The items of X that have a record by a sample.
Wanting(X, e, s, j, numbers) == {i \in X : s \in Wants(Sample, e, i, GroupIn(i, j), numbers)}

\* gilv has them.
LEMMA GilvIs ==
    ASSUME opt_ \in Options, NEW e \in Events, NEW j \in Streams, NEW numbers \in Numbers,
           NEW stats, NEW X, StatsIs(stats, e, X), NEW c, OfCoverage(X, c),
           NEW s \in {-3, -2, -1} \cup Sample
    PROVE  RowIs(Gilv(stats, c, numbers, j)[s], Wanting(X, e, s, j, numbers))
<1> PICK row : row = RowOf(stats, c, s, numbers, j)
    OBVIOUS
<1> PICK got : got = Gilv(stats, c, numbers, j)[s]
    OBVIOUS
<1> PICK Y : Y = Wanting(X, e, s, j, numbers)
    OBVIOUS
<1>1. got = IF s < 0 THEN row ELSE fillgulitemloss(row)
    BY GilvAt
<1>2. RowIs(row, X) /\ Reaches(row, e, s, j, numbers)
    BY RowOfIs, Zenon
<1>3. CASE s \in {-3, -2, -1}
    <2>1. s < 0
        BY <1>3
    <2>2. Y = X
        BY <1>3 DEF Wanting, Wants
    <2> QED BY <1>1, <1>2, <2>1, <2>2
<1>4. CASE s \in Sample
    <2>1. s > 0 /\ s \in Int
        BY <1>4, SampleFacts
    <2> PICK I : I = {n \in 1 .. Len(row) : row[n].loss >= loss_threshold}
        OBVIOUS
    <2>2. got = Picked(row, I)
        <3>1. got = fillgulitemloss(row)
            BY <1>1, <2>1
        <3>2. row \in Seq(ItemLoss)
            BY <1>2, Zenon DEF RowIs
        <3>3. DOMAIN row = 1 .. Len(row)
            BY <3>2
        <3> QED BY <3>1, <3>3, Zenon DEF fillgulitemloss
    <2>3. I \in SUBSET (1 .. Len(row))
        OBVIOUS
    <2>4. ASSUME NEW n \in I PROVE row[n].item \in Y
        <3>1. n \in 1 .. Len(row) /\ row[n].loss >= loss_threshold
            OBVIOUS
        <3>2. row[n].item \in X
            BY <1>2, <3>1, Zenon DEF RowIs
        <3> QED BY <1>2, <1>4, <3>1, <3>2, Zenon DEF Wanting, Reaches
    <2>5. ASSUME NEW x \in Y PROVE \E n \in I : row[n].item = x
        <3>1. x \in X /\ s \in Wants(Sample, e, x, GroupIn(x, j), numbers)
            BY Zenon DEF Wanting
        <3>2. PICK n \in 1 .. Len(row) : row[n].item = x
            BY <1>2, <3>1, Zenon DEF RowIs
        <3>3. row[n].loss >= loss_threshold
            BY <1>2, <1>4, <3>1, <3>2, Zenon DEF Reaches
        <3> QED BY <3>2, <3>3
    <2>6. RowIs(Picked(row, I), Y)
        <3>1. Selects(row, I, Y)
            BY <2>3, <2>4, <2>5, Zenon DEF Selects
        <3> QED BY <1>2, <3>1, SomeOfRow, Zenon
    <2> QED BY <2>2, <2>6, Zenon
<1>5. RowIs(got, Y)
    BY <1>3, <1>4
<1> QED BY <1>5, Zenon

-----------------------------------------------------------------------------
(* The records of a coverage in mode 1 *)

\* Rows by ascending sample.
Rising(rows) == \A n, m \in 1 .. Len(rows) : n < m => rows[n][3] <= rows[m][3]
\* Every item with a record has one with its exposure, the first of its own.
Headed(K, e) ==
    \A x \in K : x = <<e, x[2], x[3]>> /\ <<e, x[2], -3>> \in K /\ x[3] \in Int /\ x[3] >= -3
At(K, i) == {x \in K : x[2] = i}
Places(rows, i) == {m \in 1 .. Len(rows) : rows[m][2] = i}

\* The rows of an item are its block.
LEMMA PickedBlock ==
    ASSUME NEW rows, NEW K, Bears(rows, K), Rising(rows), NEW e, Headed(K, e), NEW i,
           NEW r, r = Picked(rows, Places(rows, i))
    PROVE  Bears(r, At(K, i)) /\ Together(r)
<1> PICK I, at : I = Places(rows, i) /\ at = Sorted(I)
    OBVIOUS
<1>1. rows \in Seq(Rec)
    BY Zenon DEF Bears
<1>2. I \in SUBSET (1 .. Len(rows)) /\ \A m \in 1 .. Len(rows) : m \in I <=> rows[m][2] = i
    BY DEF Places
<1>3. PicksAt(r, at, rows, I, Rec)
    <2>1. PicksAt(Picked(rows, I), Sorted(I), rows, I, Rec)
        BY <1>1, <1>2, PicksAre, Zenon
    <2> QED BY <2>1, Zenon
<1>4. /\ r \in Seq(Rec) /\ Len(r) = Len(at) /\ Increasing(at)
      /\ \A n \in 1 .. Len(r) : r[n] = rows[at[n]] /\ at[n] \in I
      /\ \A m \in I : \E n \in 1 .. Len(r) : at[n] = m
      /\ \A n, m \in 1 .. Len(r) : at[n] = at[m] => n = m
    BY <1>3, Zenon DEF PicksAt
<1>5. /\ \A n \in 1 .. Len(rows) : KeyAt(rows[n]) \in K
      /\ \A x \in K : \E n \in 1 .. Len(rows) : KeyAt(rows[n]) = x
      /\ \A n, m \in 1 .. Len(rows) : KeyAt(rows[n]) = KeyAt(rows[m]) => n = m
    BY Zenon DEF Bears
<1>6. ASSUME NEW n \in 1 .. Len(r)
      PROVE  /\ at[n] \in 1 .. Len(rows) /\ r[n] = rows[at[n]] /\ r[n] \in Rec
             /\ KeyAt(r[n]) \in K /\ KeyAt(r[n]) = <<e, i, r[n][3]>>
             /\ r[n][1] = e /\ r[n][2] = i /\ r[n][3] \in Int /\ r[n][3] >= -3
    <2>1. at[n] \in 1 .. Len(rows) /\ r[n] = rows[at[n]] /\ rows[at[n]][2] = i
        BY <1>2, <1>4
    <2>2. KeyAt(r[n]) \in K
        BY <1>5, <2>1
    <2> PICK x : x = KeyAt(r[n])
        OBVIOUS
    <2>3. x = <<e, x[2], x[3]>> /\ x[3] \in Int /\ x[3] >= -3
        BY <2>2, Zenon DEF Headed
    <2>4. x[1] = r[n][1] /\ x[2] = r[n][2] /\ x[3] = r[n][3]
        BY DEF KeyAt
    <2>5. x[1] = e
        BY <2>3
    <2>6. r[n] \in Rec
        BY <1>4
    <2> QED BY <2>1, <2>2, <2>3, <2>4, <2>5, <2>6
<1>7. \A n \in 1 .. Len(r) : KeyAt(r[n]) \in At(K, i)
    BY <1>6 DEF At
<1>8. ASSUME NEW x \in At(K, i) PROVE \E n \in 1 .. Len(r) : KeyAt(r[n]) = x
    <2>1. x \in K /\ x[2] = i
        BY DEF At
    <2>2. PICK m \in 1 .. Len(rows) : KeyAt(rows[m]) = x
        BY <1>5, <2>1
    <2>3. rows[m][2] = i
        BY <2>1, <2>2 DEF KeyAt
    <2>4. PICK n \in 1 .. Len(r) : at[n] = m
        BY <1>2, <1>4, <2>3
    <2> QED BY <1>6, <2>2, <2>4
<1>9. ASSUME NEW n \in 1 .. Len(r), NEW m \in 1 .. Len(r), KeyAt(r[n]) = KeyAt(r[m]) PROVE n = m
    <2>1. at[n] = at[m]
        <3>1. r[n] = rows[at[n]] /\ at[n] \in 1 .. Len(rows) /\ r[m] = rows[at[m]] /\ at[m] \in 1 .. Len(rows)
            BY <1>6
        <3>2. KeyAt(rows[at[n]]) = KeyAt(rows[at[m]])
            BY <1>9, <3>1, Zenon
        <3> QED BY <1>5, <3>1, <3>2, Zenon
    <2> QED BY <1>4, <2>1
<1>10. Bears(r, At(K, i))
    BY <1>4, <1>7, <1>8, <1>9, Zenon DEF Bears
<1>11. ASSUME NEW n \in 1 .. Len(r), NEW m \in 1 .. Len(r), n < m PROVE r[n][3] <= r[m][3]
    <2>1. at[n] < at[m]
        BY <1>4, <1>11 DEF Increasing
    <2>2. r[n] = rows[at[n]] /\ at[n] \in 1 .. Len(rows) /\ r[m] = rows[at[m]] /\ at[m] \in 1 .. Len(rows)
        BY <1>6
    <2>3. rows[at[n]][3] <= rows[at[m]][3]
        BY <2>1, <2>2, Zenon DEF Rising
    <2> QED BY <2>2, <2>3
<1>12. ASSUME NEW n \in 1 .. Len(r), r[n][3] # -3
       PROVE  n > 1 /\ r[n - 1][1] = r[n][1] /\ r[n - 1][2] = r[n][2] /\ r[n - 1][3] < r[n][3]
    <2>1. <<e, i, -3>> \in At(K, i)
        <3>1. KeyAt(r[n]) \in K /\ KeyAt(r[n])[2] = i
            BY <1>6
        <3>2. <<e, i, -3>> \in K
            BY <3>1, Zenon DEF Headed
        <3> QED BY <3>2 DEF At
    <2>2. PICK p \in 1 .. Len(r) : KeyAt(r[p]) = <<e, i, -3>>
        BY <1>8, <2>1
    <2>3. r[p][3] = -3
        BY <2>2 DEF KeyAt
    <2>4. ~(n < p)
        BY <1>6, <1>11, <1>12, <2>3
    <2>5. n > 1 /\ n - 1 \in 1 .. Len(r) /\ n - 1 < n
        BY <1>12, <2>3, <2>4
    <2>6. r[n - 1][3] <= r[n][3]
        BY <1>11, <2>5
    <2>7. r[n - 1][3] # r[n][3]
        <3>0. /\ KeyAt(r[n - 1]) = <<e, i, r[n - 1][3]>>
              /\ KeyAt(r[n]) = <<e, i, r[n][3]>>
            BY <1>6, <2>5, Zenon
        <3>1. r[n - 1][3] = r[n][3] => KeyAt(r[n - 1]) = KeyAt(r[n])
            BY <3>0, Zenon
        <3>2. n - 1 # n
            BY <2>5
        <3> QED BY <1>9, <2>5, <3>1, <3>2
    <2> QED BY <1>6, <2>5, <2>6, <2>7
<1>13. Together(r)
    BY <1>12, Zenon DEF Together
<1> QED BY <1>10, <1>13

\* The rows item by item are the blocks of the items.
ItemByItem(rows) ==
    LET items == Sorted({rows[n][2] : n \in 1 .. Len(rows)})
    IN FlattenSeq([n \in 1 .. Len(items) |-> Picked(rows, {m \in 1 .. Len(rows) : rows[m][2] = items[n]})])

\* Sorted item by item, rising rows become the items' blocks.
LEMMA ItemByItemIs ==
    ASSUME NEW rows, NEW K, Bears(rows, K), Rising(rows), NEW e, Headed(K, e)
    PROVE  Bears(ItemByItem(rows), K) /\ Together(ItemByItem(rows))
<1> PICK ids : ids = {rows[n][2] : n \in 1 .. Len(rows)}
    OBVIOUS
<1> PICK items : items = Sorted(ids)
    OBVIOUS
<1>1. rows \in Seq(Rec) /\ Len(rows) \in Nat
    BY DEF Bears
<1>2. ids \subseteq Int
    <2>1. \A n \in 1 .. Len(rows) : rows[n] \in Rec
        BY <1>1
    <2>2. \A n \in 1 .. Len(rows) : rows[n][2] \in Int
        BY <2>1 DEF Rec
    <2> QED BY <2>2, Zenon
<1>3. IsFiniteSet(ids)
    <2>1. Len(rows) \in Int /\ 1 \in Int
        BY <1>1
    <2>2. IsFiniteSet(1 .. Len(rows))
        BY <2>1, FS_Interval, Zenon
    <2> DEFINE id == [n \in 1 .. Len(rows) |-> rows[n][2]]
               T == {id[n] : n \in 1 .. Len(rows)}
    <2>3. ids = T
        OBVIOUS
    <2>4. id \in Surjection(1 .. Len(rows), T)
        BY DEF Surjection
    <2> HIDE DEF id, T
    <2> QED BY <2>2, <2>3, <2>4, FS_Surjection, Zenon
<1>4. Lists(items, ids)
    <2>1. Lists(Sorted(ids), ids)
        BY <1>2, <1>3, SortedIs
    <2> QED BY <2>1, Zenon
<1> PICK l : l = Len(items)
    OBVIOUS
<1>5. /\ l \in Nat /\ \A i \in ids : \E n \in 1 .. l : items[n] = i
      /\ \A n, m \in 1 .. l : items[n] = items[m] => n = m
    <2>1. items \in Seq(ids)
        BY <1>4, Zenon DEF Lists
    <2>2. /\ \A i \in ids : \E n \in 1 .. Len(items) : items[n] = i
          /\ \A n, m \in 1 .. Len(items) : items[n] = items[m] => n = m
        BY <1>4, Zenon DEF Lists
    <2>3. Len(items) \in Nat
        BY <2>1
    <2> QED BY <2>2, <2>3, Zenon
<1> DEFINE q == [n \in 1 .. l |-> Picked(rows, Places(rows, items[n]))]
           W == [n \in 1 .. l |-> At(K, items[n])]
<1>6. ItemByItem(rows) = FlattenSeq(q)
    BY Zenon DEF ItemByItem, Places
<1>7. ASSUME NEW n \in 1 .. l PROVE Bears(q[n], W[n]) /\ Together(q[n])
    <2>1. q[n] = Picked(rows, Places(rows, items[n])) /\ W[n] = At(K, items[n])
        OBVIOUS
    <2>2. /\ Bears(Picked(rows, Places(rows, items[n])), At(K, items[n]))
          /\ Together(Picked(rows, Places(rows, items[n])))
        BY PickedBlock, Zenon
    <2> HIDE DEF q, W
    <2> QED BY <2>1, <2>2, Zenon
<1>8. ASSUME NEW n \in 1 .. l, NEW m \in 1 .. l, n # m PROVE W[n] \cap W[m] = {}
    <2>1. items[n] # items[m]
        BY <1>5, <1>8, Zenon
    <2>2. W[n] = At(K, items[n]) /\ W[m] = At(K, items[m])
        OBVIOUS
    <2> HIDE DEF W
    <2>3. ASSUME NEW x \in At(K, items[n]), x \in At(K, items[m]) PROVE FALSE
        BY <2>1, <2>3, Zenon DEF At
    <2> QED BY <2>2, <2>3, Zenon
<1>9. DOMAIN q = 1 .. l /\ q = [n \in 1 .. l |-> q[n]]
    BY Zenon
<1>10. ASSUME NEW x PROVE x \in K <=> x \in AllOf(W, l)
    <2>1. ASSUME x \in K PROVE x \in AllOf(W, l)
        <3>1. PICK n \in 1 .. Len(rows) : KeyAt(rows[n]) = x
            BY <2>1 DEF Bears
        <3>2. x[2] \in ids
            BY <3>1 DEF KeyAt
        <3>3. PICK m \in 1 .. l : items[m] = x[2]
            BY <1>5, <3>2, Zenon
        <3>4. x \in W[m]
            BY <2>1, <3>3 DEF At
        <3> HIDE DEF W
        <3> QED BY <3>4, Zenon DEF AllOf
    <2>2. ASSUME x \in AllOf(W, l) PROVE x \in K
        <3>1. PICK m \in 1 .. l : x \in W[m]
            BY <2>2, Zenon DEF AllOf
        <3> QED BY <3>1 DEF At
    <2> QED BY <2>1, <2>2
<1> HIDE DEF q, W
<1>11. AllOf(W, l) = K
    BY <1>10
<1>12. AllBear(q, W, l)
    BY <1>7, <1>8, <1>9, Zenon DEF AllBear
<1>13. Bears(FlattenSeq(q), AllOf(W, l)) /\ q \in [1 .. l -> Seq(Rec)]
    BY <1>5, <1>12, BearsPieces, Zenon
<1>14. Together(FlattenSeq(q))
    BY <1>5, <1>7, <1>13, TogetherPieces, Zenon
<1> QED BY <1>6, <1>11, <1>13, <1>14, Zenon

-----------------------------------------------------------------------------
(* The rows of the samples in turn *)

\* What the items X of an event have records for.
KeysFor(S, X, e, j, numbers) == UNION {ItemKeys(S, e, i, GroupIn(i, j), numbers) : i \in X}
IsKeysFor(K, S, X, e, j, numbers) ==
    /\ \A f, i, s : <<f, i, s>> \in K <=>
            f = e /\ i \in X /\ s \in Wants(S, e, i, GroupIn(i, j), numbers)
    /\ \A x \in K : x = <<e, x[2], x[3]>>

\* One key of them.
LEMMA KeysForAre ==
    ASSUME NEW S, NEW X, NEW e, NEW j, NEW numbers
    PROVE  IsKeysFor(KeysFor(S, X, e, j, numbers), S, X, e, j, numbers)
<1> PICK K : K = KeysFor(S, X, e, j, numbers)
    OBVIOUS
<1>1. ASSUME NEW x \in K
      PROVE  \E i \in X : \E s \in Wants(S, e, i, GroupIn(i, j), numbers) : x = <<e, i, s>>
    <2>1. PICK i \in X : x \in ItemKeys(S, e, i, GroupIn(i, j), numbers)
        BY Zenon DEF KeysFor
    <2> QED BY <2>1, Zenon DEF ItemKeys
<1>2. ASSUME NEW i \in X, NEW s \in Wants(S, e, i, GroupIn(i, j), numbers)
      PROVE  <<e, i, s>> \in K
    <2>1. <<e, i, s>> \in ItemKeys(S, e, i, GroupIn(i, j), numbers)
        BY Zenon DEF ItemKeys
    <2> QED BY <2>1, Zenon DEF KeysFor
<1>3. ASSUME NEW f, NEW i, NEW s, <<f, i, s>> \in K
      PROVE  f = e /\ i \in X /\ s \in Wants(S, e, i, GroupIn(i, j), numbers)
    <2>1. PICK h \in X : \E t \in Wants(S, e, h, GroupIn(h, j), numbers) : <<f, i, s>> = <<e, h, t>>
        BY <1>1, <1>3, Zenon
    <2>2. PICK t \in Wants(S, e, h, GroupIn(h, j), numbers) : <<f, i, s>> = <<e, h, t>>
        BY <2>1
    <2>3. f = e /\ i = h /\ s = t
        BY <2>2
    <2> QED BY <2>2, <2>3, Zenon
<1>4. ASSUME NEW x \in K PROVE x = <<e, x[2], x[3]>>
    BY <1>1
<1>5. IsKeysFor(K, S, X, e, j, numbers)
    BY <1>2, <1>3, <1>4, Zenon DEF IsKeysFor
<1> QED BY <1>5, Zenon

\* One row as records.
SampleRow(row, e, s) == [n \in 1 .. Len(row) |-> Row(e, row[n].item, s, row[n].loss)]
SampleKeys(Y, e, s) == {<<e, i, s>> : i \in Y}
Stamped(out, s) == \A n \in 1 .. Len(out) : out[n][3] = s

\* They bear one key for each item of the row.
LEMMA SampleRowIs ==
    ASSUME NEW row, NEW Y, RowIs(row, Y), NEW e \in Int, NEW s \in Int
    PROVE  /\ Bears(SampleRow(row, e, s), SampleKeys(Y, e, s))
           /\ Stamped(SampleRow(row, e, s), s)
<1> PICK out : out = SampleRow(row, e, s)
    OBVIOUS
<1>1. /\ row \in Seq(ItemLoss)
      /\ \A n \in 1 .. Len(row) : row[n].item \in Y
      /\ \A x \in Y : \E n \in 1 .. Len(row) : row[n].item = x
      /\ \A n, m \in 1 .. Len(row) : row[n].item = row[m].item => n = m
    BY Zenon DEF RowIs
<1>2. ASSUME NEW n \in 1 .. Len(row)
      PROVE  /\ out[n] = <<e, row[n].item, s, row[n].loss>> /\ out[n] \in Rec
             /\ KeyAt(out[n]) = <<e, row[n].item, s>> /\ out[n][3] = s
    <2>1. out[n] = <<e, row[n].item, s, row[n].loss>>
        BY DEF SampleRow, Row
    <2>2. row[n].item \in Int /\ row[n].loss \in Int
        <3>1. row[n] \in ItemLoss
            BY <1>1
        <3> QED BY <3>1, ColumnFacts DEF ItemLoss
    <2> QED BY <2>1, <2>2 DEF Rec, KeyAt
<1>3. out \in Seq(Rec) /\ Len(out) = Len(row)
    <2>1. DOMAIN out = 1 .. Len(row) /\ out = [n \in 1 .. Len(row) |-> out[n]]
        BY DEF SampleRow
    <2>2. out \in [1 .. Len(row) -> Rec]
        BY <1>2, <2>1
    <2>3. Len(row) \in Nat
        BY <1>1
    <2> QED BY <2>2, <2>3
<1>4. \A n \in 1 .. Len(out) : KeyAt(out[n]) \in SampleKeys(Y, e, s)
    BY <1>1, <1>2, <1>3 DEF SampleKeys
<1>5. ASSUME NEW x \in SampleKeys(Y, e, s) PROVE \E n \in 1 .. Len(out) : KeyAt(out[n]) = x
    <2>1. PICK i \in Y : x = <<e, i, s>>
        BY DEF SampleKeys
    <2>2. PICK n \in 1 .. Len(row) : row[n].item = i
        BY <1>1
    <2> QED BY <1>2, <1>3, <2>1, <2>2
<1>6. ASSUME NEW n \in 1 .. Len(out), NEW m \in 1 .. Len(out), KeyAt(out[n]) = KeyAt(out[m]) PROVE n = m
    <2>1. row[n].item = row[m].item
        BY <1>2, <1>3, <1>6
    <2> QED BY <1>1, <1>3, <2>1
<1>7. Bears(out, SampleKeys(Y, e, s))
    BY <1>3, <1>4, <1>5, <1>6, Zenon DEF Bears
<1>8. Stamped(out, s)
    BY <1>2, <1>3, Zenon DEF Stamped
<1> QED BY <1>7, <1>8, Zenon

\* The losses of a sample after the allocation.
Allotted(gilv, s, c) ==
    splittiv(IF allocRule = 2 /\ s # -3 THEN setmaxloss(gilv[s]) ELSE gilv[s], Tiv[c])

\* An allocation keeps the items of a row.
LEMMA AllottedIs ==
    ASSUME NEW gilv, NEW s, NEW c \in Coverage, NEW Y, RowIs(gilv[s], Y)
    PROVE  RowIs(Allotted(gilv, s, c), Y)
<1> PICK row : row = IF allocRule = 2 /\ s # -3 THEN setmaxloss(gilv[s]) ELSE gilv[s]
    OBVIOUS
<1>1. RowIs(row, Y)
    BY MaxLossIs
<1>2. Tiv[c] \in Nat
    BY ColumnFacts
<1>3. RowIs(splittiv(row, Tiv[c]), Y)
    BY <1>1, <1>2, SplitIs
<1> QED BY <1>3, Zenon DEF Allotted

\* The sample indices in order.
LEMMA IndicesAre ==
    ASSUME opt_ \in Options, NEW Y, Y = {-3, -2, -1} \cup Sample
    PROVE  /\ Lists(Sorted(Y), Y) /\ Increasing(Sorted(Y)) /\ Len(Sorted(Y)) = samplesize + 3
           /\ Y \subseteq Int
<1> PICK N : N = samplesize
    OBVIOUS
<1>1. N \in Nat /\ Sample = 1 .. N /\ Y = -3 .. -1 \cup 1 .. N
    <2>1. samplesize \in Nat
        BY SampleFacts
    <2>2. Sample = 1 .. N
        BY DEF Sample
    <2>3. {-3, -2, -1} = -3 .. -1
        OBVIOUS
    <2> QED BY <2>1, <2>2, <2>3
<1>2. /\ IsFiniteSet(-3 .. -1) /\ Cardinality(-3 .. -1) = 3
      /\ IsFiniteSet(1 .. N) /\ Cardinality(1 .. N) = N
    <2>1. -3 \in Int /\ -1 \in Int /\ 1 \in Int /\ N \in Int
        BY <1>1
    <2>2. IsFiniteSet(-3 .. -1) /\ Cardinality(-3 .. -1) = IF -3 > -1 THEN 0 ELSE -1 - (-3) + 1
        BY <2>1, FS_Interval
    <2>3. IsFiniteSet(1 .. N) /\ Cardinality(1 .. N) = IF 1 > N THEN 0 ELSE N - 1 + 1
        BY <2>1, FS_Interval
    <2> QED BY <1>1, <2>2, <2>3
<1>3. -3 .. -1 \cap 1 .. N = {}
    BY <1>1
<1>4. IsFiniteSet(Y) /\ Cardinality(Y) = N + 3
    <2> PICK P, Q : P = -3 .. -1 /\ Q = 1 .. N
        OBVIOUS
    <2>1. /\ IsFiniteSet(P) /\ Cardinality(P) = 3 /\ IsFiniteSet(Q) /\ Cardinality(Q) = N
          /\ P \cap Q = {} /\ Y = P \cup Q
        BY <1>1, <1>2, <1>3, Zenon
    <2>2. /\ IsFiniteSet(P \cup Q)
          /\ Cardinality(P \cup Q) = Cardinality(P) + Cardinality(Q) - Cardinality(P \cap Q)
        BY <2>1, FS_Union, Zenon
    <2>3. Cardinality(P \cap Q) = 0
        BY <2>1, FS_EmptySet, Zenon
    <2>4. Cardinality(P \cup Q) = N + 3
        BY <1>1, <2>1, <2>2, <2>3
    <2> QED BY <2>1, <2>2, <2>4, Zenon
<1>5. Y \subseteq Int
    BY <1>1
<1> QED BY <1>4, <1>5, SortedIs

-----------------------------------------------------------------------------
(* The rows of a coverage *)

RowsBySample(gilv, e, c) ==
    FlattenSeq([m \in 1 .. samplesize + 3 |->
        SampleRow(Allotted(gilv, Sorted(DOMAIN gilv)[m], c), e, Sorted(DOMAIN gilv)[m])])

\* They rise, as their pieces do.
LinesUp(at, k) == Increasing(at) /\ Len(at) = k /\ \A m \in 1 .. k : at[m] \in Int
StampedBy(q, at, k) == \A m \in 1 .. k : Stamped(q[m], at[m])

\* Pieces of rising samples rise together.
LEMMA PiecesRise ==
    ASSUME NEW k \in Nat, NEW q \in [1 .. k -> Seq(Rec)], NEW at, LinesUp(at, k), StampedBy(q, at, k)
    PROVE  Rising(FlattenSeq(q))
<1> PICK r : r = FlattenSeq(q)
    OBVIOUS
<1>1. r \in Seq(Rec) /\ \E b, p : Pieces(r, q, k, b, p)
    BY FlattenIs
<1>2. PICK b, p : Pieces(r, q, k, b, p)
    BY <1>1
<1>3. /\ \A n \in 1 .. Len(r) : b[n] \in 1 .. k /\ r[n][3] = at[b[n]]
      /\ \A n, m \in 1 .. Len(r) : n < m => b[n] < b[m] \/ b[n] = b[m]
    <2>1. /\ b \in [1 .. Len(r) -> 1 .. k]
          /\ \A n \in 1 .. Len(r) : p[n] \in 1 .. Len(q[b[n]]) /\ r[n] = q[b[n]][p[n]]
          /\ \A n, m \in 1 .. Len(r) : n < m => b[n] < b[m] \/ (b[n] = b[m] /\ p[n] < p[m])
        BY <1>2, Zenon DEF Pieces
    <2>2. ASSUME NEW n \in 1 .. Len(r) PROVE b[n] \in 1 .. k /\ r[n][3] = at[b[n]]
        <3>1. b[n] \in 1 .. k
            BY <2>1
        <3>2. Stamped(q[b[n]], at[b[n]])
            BY <3>1, Zenon DEF StampedBy
        <3> PICK t, z, y : t = q[b[n]] /\ z = at[b[n]] /\ y = p[n]
            OBVIOUS
        <3>3. y \in 1 .. Len(t) /\ r[n] = t[y]
            BY <2>1
        <3>4. Stamped(t, z)
            BY <3>2, Zenon
        <3>5. t[y][3] = z
            BY <3>3, <3>4, Zenon DEF Stamped
        <3>6. r[n][3] = z
            BY <3>3, <3>5, Zenon
        <3>7. r[n][3] = at[b[n]]
            BY <3>6, Zenon
        <3> QED BY <3>1, <3>7
    <2> QED BY <2>1, <2>2, Zenon
<1>0. Increasing(at) /\ Len(at) = k /\ \A m \in 1 .. k : at[m] \in Int
    BY Zenon DEF LinesUp
<1>4. ASSUME NEW n \in 1 .. Len(r), NEW m \in 1 .. Len(r), n < m PROVE r[n][3] <= r[m][3]
    <2> PICK x, y : x = b[n] /\ y = b[m]
        OBVIOUS
    <2>1. /\ x \in 1 .. k /\ y \in 1 .. k /\ r[n][3] = at[x] /\ r[m][3] = at[y]
          /\ at[x] \in Int /\ at[y] \in Int
        BY <1>0, <1>3
    <2>2. x < y \/ x = y
        BY <1>3, <1>4
    <2>3. x < y => at[x] < at[y]
        BY <1>0, <2>1 DEF Increasing
    <2> QED BY <2>1, <2>2, <2>3
<1>5. Rising(r)
    BY <1>4, Zenon DEF Rising
<1> QED BY <1>5, Zenon

\* The records of different samples are different.
LEMMA KeysApart ==
    ASSUME NEW V, NEW Z, NEW e, NEW s, NEW t, s # t
    PROVE  SampleKeys(V, e, s) \cap SampleKeys(Z, e, t) = {}
<1> SUFFICES ASSUME NEW x, x \in SampleKeys(V, e, s), x \in SampleKeys(Z, e, t) PROVE FALSE
    OBVIOUS
<1>1. x[3] = s
    BY DEF SampleKeys
<1>2. x[3] = t
    BY DEF SampleKeys
<1> QED BY <1>1, <1>2

\* They have what the items of the coverage are to have.
LEMMA BySampleIs ==
    ASSUME opt_ \in Options, NEW e \in Events, NEW j \in Streams, NEW numbers \in Numbers,
           NEW stats, NEW X, StatsIs(stats, e, X), NEW c \in Coverage, OfCoverage(X, c),
           NEW gilv, gilv = Gilv(stats, c, numbers, j)
    PROVE  /\ Bears(RowsBySample(gilv, e, c), KeysFor(Sample, X, e, j, numbers))
           /\ Rising(RowsBySample(gilv, e, c))
<1> PICK Y : Y = {-3, -2, -1} \cup Sample
    OBVIOUS
<1> PICK k : k = samplesize + 3
    OBVIOUS
<1> PICK at : at = Sorted(Y)
    OBVIOUS
<1>1. DOMAIN gilv = Y
    BY GilvAt
<1>2. Lists(at, Y) /\ Increasing(at) /\ Len(at) = k /\ Y \subseteq Int
    BY IndicesAre
<1>3. /\ k \in Nat /\ \A m \in 1 .. k : at[m] \in Y /\ at[m] \in Int
      /\ \A s \in Y : \E m \in 1 .. k : at[m] = s
      /\ \A m, n \in 1 .. k : at[m] = at[n] => m = n
    <2>1. at \in Seq(Y)
        BY <1>2, Zenon DEF Lists
    <2>2. k \in Nat /\ \A m \in 1 .. k : at[m] \in Y
        BY <1>2, <2>1
    <2>3. \A m \in 1 .. k : at[m] \in Int
        BY <1>2, <2>2
    <2>4. /\ \A s \in Y : \E m \in 1 .. Len(at) : at[m] = s
          /\ \A m, n \in 1 .. Len(at) : at[m] = at[n] => m = n
        BY <1>2, Zenon DEF Lists
    <2>5. Len(at) = k
        BY <1>2, Zenon
    <2>6. \A s \in Y : \E m \in 1 .. k : at[m] = s
        BY <2>4, <2>5, Zenon
    <2>7. \A m, n \in 1 .. k : at[m] = at[n] => m = n
        BY <2>4, <2>5, Zenon
    <2> QED BY <2>2, <2>3, <2>6, <2>7, Zenon
<1>4. e \in Int
    BY ColumnFacts
<1> DEFINE q == [m \in 1 .. k |-> SampleRow(Allotted(gilv, at[m], c), e, at[m])]
           W == [m \in 1 .. k |-> SampleKeys(Wanting(X, e, at[m], j, numbers), e, at[m])]
<1>5. RowsBySample(gilv, e, c) = FlattenSeq(q)
    <2>1. at = Sorted(DOMAIN gilv)
        BY <1>1, Zenon
    <2> QED BY <2>1, Zenon DEF RowsBySample
<1>6. ASSUME NEW m \in 1 .. k
      PROVE  Bears(q[m], W[m]) /\ Stamped(q[m], at[m])
    <2> PICK s : s = at[m]
        OBVIOUS
    <2>1. s \in Y /\ s \in Int
        BY <1>3, Zenon
    <2>2. RowIs(gilv[s], Wanting(X, e, s, j, numbers))
        BY <2>1, GilvIs
    <2>3. RowIs(Allotted(gilv, s, c), Wanting(X, e, s, j, numbers))
        BY <2>2, AllottedIs, Zenon
    <2> PICK row : row = Allotted(gilv, s, c)
        OBVIOUS
    <2> PICK Z : Z = Wanting(X, e, s, j, numbers)
        OBVIOUS
    <2>4. q[m] = SampleRow(row, e, s) /\ W[m] = SampleKeys(Z, e, s)
        OBVIOUS
    <2>5. RowIs(row, Z)
        BY <2>3, Zenon
    <2>6. Bears(SampleRow(row, e, s), SampleKeys(Z, e, s)) /\ Stamped(SampleRow(row, e, s), s)
        BY <1>4, <2>1, <2>5, SampleRowIs, Zenon
    <2> HIDE DEF q, W
    <2> QED BY <2>4, <2>6, Zenon
<1>7. ASSUME NEW m \in 1 .. k, NEW n \in 1 .. k, m # n PROVE W[m] \cap W[n] = {}
    <2>1. at[m] # at[n]
        BY <1>3, <1>7, Zenon
    <2> PICK V, Z : V = Wanting(X, e, at[m], j, numbers) /\ Z = Wanting(X, e, at[n], j, numbers)
        OBVIOUS
    <2>2. W[m] = SampleKeys(V, e, at[m]) /\ W[n] = SampleKeys(Z, e, at[n])
        OBVIOUS
    <2> HIDE DEF W
    <2>3. SampleKeys(V, e, at[m]) \cap SampleKeys(Z, e, at[n]) = {}
        BY <2>1, KeysApart
    <2> QED BY <2>2, <2>3, Zenon
<1>8. DOMAIN q = 1 .. k /\ q = [m \in 1 .. k |-> q[m]]
    BY Zenon
<1> PICK K : K = KeysFor(Sample, X, e, j, numbers)
    OBVIOUS
<1>9. IsKeysFor(K, Sample, X, e, j, numbers)
    <2>1. IsKeysFor(KeysFor(Sample, X, e, j, numbers), Sample, X, e, j, numbers)
        BY KeysForAre, Zenon
    <2> QED BY <2>1, Zenon
<1>10. ASSUME NEW x \in K PROVE x \in AllOf(W, k)
    <2> PICK i, s : i = x[2] /\ s = x[3]
        OBVIOUS
    <2>1. x = <<e, i, s>>
        BY <1>9, Zenon DEF IsKeysFor
    <2>2. <<e, i, s>> \in K
        BY <2>1
    <2>3. i \in X /\ s \in Wants(Sample, e, i, GroupIn(i, j), numbers)
        BY <1>9, <2>2, Zenon DEF IsKeysFor
    <2>4. s \in Y
        BY <2>3 DEF Wants
    <2>5. PICK m \in 1 .. k : at[m] = s
        BY <1>3, <2>4, Zenon
    <2>6. i \in Wanting(X, e, s, j, numbers)
        BY <2>3, Zenon DEF Wanting
    <2>7. <<e, i, s>> \in SampleKeys(Wanting(X, e, s, j, numbers), e, s)
        BY <2>6, Zenon DEF SampleKeys
    <2>8. W[m] = SampleKeys(Wanting(X, e, s, j, numbers), e, s)
        BY <2>5, Zenon
    <2> HIDE DEF W
    <2>9. x \in W[m]
        BY <2>1, <2>7, <2>8
    <2> QED BY <2>9, Zenon DEF AllOf
<1>11. ASSUME NEW x \in AllOf(W, k) PROVE x \in K
    <2>1. PICK m \in 1 .. k : x \in W[m]
        BY Zenon DEF AllOf
    <2> PICK s : s = at[m]
        OBVIOUS
    <2>2. x \in SampleKeys(Wanting(X, e, s, j, numbers), e, s)
        <3>1. W[m] = SampleKeys(Wanting(X, e, s, j, numbers), e, s)
            BY Zenon
        <3> HIDE DEF W
        <3> QED BY <2>1, <3>1, Zenon
    <2>3. PICK i \in Wanting(X, e, s, j, numbers) : x = <<e, i, s>>
        BY <2>2, Zenon DEF SampleKeys
    <2>4. i \in X /\ s \in Wants(Sample, e, i, GroupIn(i, j), numbers)
        BY Zenon DEF Wanting
    <2>5. <<e, i, s>> \in K
        BY <1>9, <2>4, Zenon DEF IsKeysFor
    <2> QED BY <2>3, <2>5
<1> HIDE DEF q, W
<1>12. AllOf(W, k) = K
    BY <1>10, <1>11, Zenon
<1>13. AllBear(q, W, k)
    BY <1>6, <1>7, <1>8, Zenon DEF AllBear
<1>14. Bears(FlattenSeq(q), AllOf(W, k)) /\ q \in [1 .. k -> Seq(Rec)]
    BY <1>3, <1>13, BearsPieces, Zenon
<1>15. Rising(FlattenSeq(q))
    <2>1. LinesUp(at, k)
        BY <1>2, <1>3, Zenon DEF LinesUp
    <2>2. StampedBy(q, at, k)
        BY <1>6, Zenon DEF StampedBy
    <2> QED BY <1>3, <1>14, <2>1, <2>2, PiecesRise, Zenon
<1> QED BY <1>5, <1>12, <1>14, <1>15, Zenon

\* The code puts them together item by item.
LEMMA WrittenAs ==
    ASSUME NEW e, NEW c, NEW gilv
    PROVE  writemode1output(e, c, gilv) = ItemByItem(RowsBySample(gilv, e, c))
BY Zenon DEF writemode1output, ItemByItem, RowsBySample, Allotted, SampleRow

\* The records of a coverage are the blocks of its items.
LEMMA CoverageRowsAre ==
    ASSUME opt_ \in Options, NEW e \in Events, NEW j \in Streams, NEW numbers \in Numbers,
           NEW stats, NEW X, StatsIs(stats, e, X), NEW c \in Coverage, OfCoverage(X, c),
           NEW out, out = writemode1output(e, c, Gilv(stats, c, numbers, j))
    PROVE  Bears(out, KeysFor(Sample, X, e, j, numbers)) /\ Together(out)
<1> PICK gilv : gilv = Gilv(stats, c, numbers, j)
    OBVIOUS
<1> PICK rows : rows = RowsBySample(gilv, e, c)
    OBVIOUS
<1> PICK K : K = KeysFor(Sample, X, e, j, numbers)
    OBVIOUS
<1>1. Bears(rows, K) /\ Rising(rows)
    <2>1. /\ Bears(RowsBySample(gilv, e, c), KeysFor(Sample, X, e, j, numbers))
          /\ Rising(RowsBySample(gilv, e, c))
        BY BySampleIs, Zenon
    <2> QED BY <2>1, Zenon
<1>2. out = ItemByItem(rows)
    BY WrittenAs, Zenon
<1>3. IsKeysFor(K, Sample, X, e, j, numbers)
    <2>1. IsKeysFor(KeysFor(Sample, X, e, j, numbers), Sample, X, e, j, numbers)
        BY KeysForAre, Zenon
    <2> QED BY <2>1, Zenon
<1>4. Headed(K, e)
    <2>1. ASSUME NEW x \in K
          PROVE  x = <<e, x[2], x[3]>> /\ <<e, x[2], -3>> \in K /\ x[3] \in Int /\ x[3] >= -3
        <3> PICK i, s : i = x[2] /\ s = x[3]
            OBVIOUS
        <3>1. x = <<e, i, s>>
            BY <1>3, Zenon DEF IsKeysFor
        <3>2. <<e, i, s>> \in K
            BY <3>1
        <3>3. i \in X /\ s \in Wants(Sample, e, i, GroupIn(i, j), numbers)
            BY <1>3, <3>2, Zenon DEF IsKeysFor
        <3>4. -3 \in Wants(Sample, e, i, GroupIn(i, j), numbers) /\ s \in {-3, -2, -1} \cup Sample
            BY <3>3 DEF Wants
        <3>5. <<e, i, -3>> \in K
            BY <1>3, <3>3, <3>4, Zenon DEF IsKeysFor
        <3>6. s \in Int /\ s >= -3
            BY <3>4, SampleFacts
        <3> QED BY <3>1, <3>5, <3>6, Zenon
    <2> QED BY <2>1, Zenon DEF Headed
<1>5. Bears(ItemByItem(rows), K) /\ Together(ItemByItem(rows))
    BY <1>1, <1>4, ItemByItemIs, Zenon
<1> QED BY <1>2, <1>5, Zenon

-----------------------------------------------------------------------------
(* What mode 1 holds of an event *)

\* The items of coverage c that met a CDF in the event e, by the CDFs R.
ItemsAt(R, e, c) == {i \in Item : CoverageOf[i] = c /\ <<e, KeyOf[i]>> \in R}
CoveragesAt(R, e) == {c \in Coverage : ItemsAt(R, e, c) # {}}
HeldIs(stats, used, e, R) ==
    /\ stats = [c \in Coverage |-> stats[c]]
    /\ \A c \in Coverage : StatsIs(stats[c], e, ItemsAt(R, e, c))
    /\ Lists(used, CoveragesAt(R, e))

\* No items, no stats.
LEMMA StatsEmpty ==
    ASSUME NEW stats, NEW e, NEW X, StatsIs(stats, e, X)
    PROVE  stats = <<>> <=> X = {}
<1>1. /\ stats \in Seq(StatOf(e))
      /\ \A n \in 1 .. Len(stats) : stats[n].item \in X
      /\ \A x \in X : \E n \in 1 .. Len(stats) : stats[n].item = x
    BY Zenon DEF StatsIs
<1>2. ASSUME X = {} PROVE stats = <<>>
    <2>1. 1 .. Len(stats) = {}
        BY <1>1, <1>2, Zenon
    <2>2. Len(stats) \in Nat
        BY <1>1
    <2>3. Len(stats) = 0
        BY <2>1, <2>2
    <2> QED BY <1>1, <2>3, EmptySeq
<1>3. ASSUME stats = <<>> PROVE X = {}
    <2>1. 1 .. Len(stats) = {}
        BY <1>3
    <2> QED BY <1>1, <2>1, Zenon
<1> QED BY <1>2, <1>3

\* With nothing held, there is nothing.
LEMMA HeldNothing ==
    ASSUME NEW e, NEW R, \A i \in Item : <<e, KeyOf[i]>> \notin R
    PROVE  HeldIs(NoStats, <<>>, e, R)
<1>1. ASSUME NEW c PROVE ItemsAt(R, e, c) = {}
    BY Zenon DEF ItemsAt
<1>2. CoveragesAt(R, e) = {}
    BY <1>1, Zenon DEF CoveragesAt
<1>3. Lists(<<>>, {})
    BY DEF Lists
<1>4. StatsIs(<<>>, e, {})
    BY DEF StatsIs
<1>5. NoStats = [c \in Coverage |-> NoStats[c]] /\ \A c \in Coverage : NoStats[c] = <<>>
    BY DEF NoStats
<1>6. \A c \in Coverage : StatsIs(NoStats[c], e, ItemsAt(R, e, c))
    BY <1>1, <1>4, <1>5
<1> QED BY <1>2, <1>3, <1>5, <1>6 DEF HeldIs

\* What is held is forgotten when it is output.
LEMMA HeldCleared ==
    ASSUME NEW e, NEW R, HeldIs(mode1_stats_, mode1UsedCoverageIDs_, e, R)
    PROVE  clearmode1_data = NoStats
<1> PICK used : used = mode1UsedCoverageIDs_
    OBVIOUS
<1>1. Lists(used, CoveragesAt(R, e)) /\ \A c \in Coverage : StatsIs(mode1_stats_[c], e, ItemsAt(R, e, c))
    BY Zenon DEF HeldIs
<1>2. used \in Seq(CoveragesAt(R, e)) /\ \A c \in CoveragesAt(R, e) : \E n \in 1 .. Len(used) : used[n] = c
    BY <1>1, Zenon DEF Lists
<1>3. ASSUME NEW c \in Coverage
      PROVE  (IF c \in Range(used) THEN <<>> ELSE mode1_stats_[c]) = <<>>
    <2>1. CASE ItemsAt(R, e, c) = {}
        BY <1>1, <2>1, StatsEmpty
    <2>2. CASE ItemsAt(R, e, c) # {}
        <3>1. c \in CoveragesAt(R, e)
            BY <2>2 DEF CoveragesAt
        <3>2. PICK n \in 1 .. Len(used) : used[n] = c
            BY <1>2, <3>1
        <3>3. DOMAIN used = 1 .. Len(used)
            BY <1>2
        <3>4. c \in Range(used)
            BY <3>2, <3>3 DEF Range
        <3> QED BY <3>4
    <2> QED BY <2>1, <2>2
<1>4. [c \in Coverage |-> IF c \in Range(used) THEN <<>> ELSE mode1_stats_[c]] = [c \in Coverage |-> <<>>]
    BY <1>3, Zenon
<1> QED BY <1>4, Zenon DEF clearmode1_data, NoStats

\* The records of an event are those of its coverages.
CoverageKeys(S, R, D, j, e, used) ==
    [n \in 1 .. Len(used) |-> KeysFor(S, ItemsAt(R, e, used[n]), e, j, D[e])]
Apart(W, k) == \A m, n \in 1 .. k : m # n => W[m] \cap W[n] = {}

\* Coverage by coverage they are what is wanted of the event, and no key is
\* of two coverages.
LEMMA EventKeysAre ==
    ASSUME NEW S, NEW R, NEW D, NEW j, NEW e, NEW used, Lists(used, CoveragesAt(R, e))
    PROVE  /\ AllOf(CoverageKeys(S, R, D, j, e, used), Len(used)) = Wanted(S, R, D, j, {e})
           /\ Apart(CoverageKeys(S, R, D, j, e, used), Len(used))
<1> PICK W : W = CoverageKeys(S, R, D, j, e, used)
    OBVIOUS
<1> PICK l : l = Len(used)
    OBVIOUS
<1>1. /\ \A n \in 1 .. l : used[n] \in CoveragesAt(R, e)
      /\ \A c \in CoveragesAt(R, e) : \E n \in 1 .. l : used[n] = c
      /\ \A m, n \in 1 .. l : used[m] = used[n] => m = n
    <2>1. used \in Seq(CoveragesAt(R, e))
        BY Zenon DEF Lists
    <2>2. \A n \in 1 .. l : used[n] \in CoveragesAt(R, e)
        BY <2>1
    <2>3. /\ \A c \in CoveragesAt(R, e) : \E n \in 1 .. Len(used) : used[n] = c
          /\ \A m, n \in 1 .. Len(used) : used[m] = used[n] => m = n
        BY Zenon DEF Lists
    <2> QED BY <2>2, <2>3, Zenon
<1> PICK K : K = Wanted(S, R, D, j, {e})
    OBVIOUS
<1>2. IsWanted(K, S, R, D, j, {e})
    <2>1. IsWanted(Wanted(S, R, D, j, {e}), S, R, D, j, {e})
        BY WantedIs DEF IsWanted
    <2> QED BY <2>1, Zenon
<1>3. ASSUME NEW n \in 1 .. l PROVE IsKeysFor(W[n], S, ItemsAt(R, e, used[n]), e, j, D[e])
    <2>1. W[n] = KeysFor(S, ItemsAt(R, e, used[n]), e, j, D[e])
        BY DEF CoverageKeys
    <2>2. IsKeysFor(KeysFor(S, ItemsAt(R, e, used[n]), e, j, D[e]), S, ItemsAt(R, e, used[n]), e, j, D[e])
        BY KeysForAre, Zenon
    <2> QED BY <2>1, <2>2
<1>4. ASSUME NEW m \in 1 .. l, NEW n \in 1 .. l, m # n PROVE W[m] \cap W[n] = {}
    <2> SUFFICES ASSUME NEW x, x \in W[m], x \in W[n] PROVE FALSE
        OBVIOUS
    <2> PICK i, s : i = x[2] /\ s = x[3]
        OBVIOUS
    <2>1. x = <<e, i, s>>
        BY <1>3, Zenon DEF IsKeysFor
    <2>2. <<e, i, s>> \in W[m] /\ <<e, i, s>> \in W[n]
        BY <2>1
    <2>3. i \in ItemsAt(R, e, used[m]) /\ i \in ItemsAt(R, e, used[n])
        BY <1>3, <2>2, Zenon DEF IsKeysFor
    <2>4. used[m] = used[n]
        BY <2>3 DEF ItemsAt
    <2> QED BY <1>1, <1>4, <2>4, Zenon
<1>5. ASSUME NEW x \in K PROVE x \in AllOf(W, l)
    <2> PICK f, i, s : f = x[1] /\ i = x[2] /\ s = x[3]
        OBVIOUS
    <2>1. x = <<f, i, s>>
        BY <1>2, Zenon DEF IsWanted
    <2>2. <<f, i, s>> \in K
        BY <2>1
    <2>3. /\ f \in {e} /\ i \in Item /\ <<f, KeyOf[i]>> \in R
          /\ s \in Wants(S, f, i, GroupIn(i, j), D[f])
        BY <1>2, <2>2, Zenon DEF IsWanted
    <2> PICK c : c = CoverageOf[i]
        OBVIOUS
    <2>4. f = e /\ i \in ItemsAt(R, e, c) /\ s \in Wants(S, e, i, GroupIn(i, j), D[e])
        BY <2>3 DEF ItemsAt
    <2>5. c \in CoveragesAt(R, e)
        BY <2>3, <2>4, ColumnFacts DEF CoveragesAt
    <2>6. PICK n \in 1 .. l : used[n] = c
        BY <1>1, <2>5, Zenon
    <2>7. <<e, i, s>> \in W[n]
        <3>1. IsKeysFor(W[n], S, ItemsAt(R, e, used[n]), e, j, D[e])
            BY <1>3
        <3>2. i \in ItemsAt(R, e, used[n])
            BY <2>4, <2>6
        <3> QED BY <2>4, <3>1, <3>2 DEF IsKeysFor
    <2>8. x \in W[n]
        BY <2>1, <2>4, <2>7
    <2> QED BY <2>8, Zenon DEF AllOf
<1>6. ASSUME NEW x \in AllOf(W, l) PROVE x \in K
    <2>1. PICK n \in 1 .. l : x \in W[n]
        BY Zenon DEF AllOf
    <2> PICK i, s : i = x[2] /\ s = x[3]
        OBVIOUS
    <2>2. x = <<e, i, s>>
        BY <1>3, <2>1, Zenon DEF IsKeysFor
    <2>3. <<e, i, s>> \in W[n]
        BY <2>1, <2>2
    <2>4. i \in ItemsAt(R, e, used[n]) /\ s \in Wants(S, e, i, GroupIn(i, j), D[e])
        BY <1>3, <2>3, Zenon DEF IsKeysFor
    <2>5. i \in Item /\ <<e, KeyOf[i]>> \in R
        BY <2>4 DEF ItemsAt
    <2>6. e \in {e}
        OBVIOUS
    <2>7. <<e, i, s>> \in K
        BY <1>2, <2>4, <2>5, <2>6, Zenon DEF IsWanted
    <2> QED BY <2>2, <2>7
<1>7. AllOf(W, l) = K
    BY <1>5, <1>6, Zenon
<1>8. Apart(W, l)
    BY <1>4, Zenon DEF Apart
<1> QED BY <1>7, <1>8, Zenon

\* The rows that mode 1 has for an event.
LEMMA EventRowsAre ==
    ASSUME opt_ \in Options, NEW e \in Events, NEW j \in Streams, drawn[e] \in Numbers,
           NEW R, HeldIs(mode1_stats_, mode1UsedCoverageIDs_, e, R)
    PROVE  StreamIs(outputmode1data(e, j), Sample, R, drawn, j, {e})
<1> PICK used : used = mode1UsedCoverageIDs_
    OBVIOUS
<1> PICK l : l = Len(used)
    OBVIOUS
<1> PICK numbers : numbers = drawn[e]
    OBVIOUS
<1>1. Lists(used, CoveragesAt(R, e)) /\ \A c \in Coverage : StatsIs(mode1_stats_[c], e, ItemsAt(R, e, c))
    BY Zenon DEF HeldIs
<1>2. used \in Seq(CoveragesAt(R, e))
    BY <1>1, Zenon DEF Lists
<1>3. l \in Nat /\ \A n \in 1 .. l : used[n] \in CoveragesAt(R, e)
    BY <1>2
<1> DEFINE q == [n \in 1 .. l |-> writemode1output(e, used[n], Gilv(mode1_stats_[used[n]], used[n], numbers, j))]
           W == [n \in 1 .. l |-> KeysFor(Sample, ItemsAt(R, e, used[n]), e, j, numbers)]
<1>4. outputmode1data(e, j) = FlattenSeq(q)
    BY Zenon DEF outputmode1data
<1>5. ASSUME NEW n \in 1 .. l PROVE Bears(q[n], W[n]) /\ Together(q[n])
    <2> PICK c, stats, X : c = used[n] /\ stats = mode1_stats_[c] /\ X = ItemsAt(R, e, c)
        OBVIOUS
    <2>1. c \in CoveragesAt(R, e)
        BY <1>3
    <2>2. c \in Coverage /\ OfCoverage(X, c)
        BY <2>1 DEF CoveragesAt, ItemsAt, OfCoverage
    <2>3. StatsIs(stats, e, X)
        BY <1>1, <2>2
    <2>4. /\ q[n] = writemode1output(e, c, Gilv(stats, c, numbers, j))
          /\ W[n] = KeysFor(Sample, X, e, j, numbers)
        OBVIOUS
    <2> HIDE DEF q, W
    <2> QED BY <2>2, <2>3, <2>4, CoverageRowsAre
<1>6. DOMAIN q = 1 .. l /\ q = [n \in 1 .. l |-> q[n]]
    BY Zenon
<1>7. AllOf(W, l) = Wanted(Sample, R, drawn, j, {e}) /\ Apart(W, l)
    <2>1. W = CoverageKeys(Sample, R, drawn, j, e, used)
        BY Zenon DEF CoverageKeys
    <2>2. /\ AllOf(CoverageKeys(Sample, R, drawn, j, e, used), Len(used)) =
                Wanted(Sample, R, drawn, j, {e})
          /\ Apart(CoverageKeys(Sample, R, drawn, j, e, used), Len(used))
        BY <1>1, EventKeysAre, Zenon
    <2> HIDE DEF W
    <2> QED BY <2>1, <2>2, Zenon
<1> HIDE DEF q, W
<1>8. AllBear(q, W, l)
    BY <1>5, <1>6, <1>7, Zenon DEF AllBear, Apart
<1>9. Bears(FlattenSeq(q), AllOf(W, l)) /\ q \in [1 .. l -> Seq(Rec)]
    BY <1>3, <1>8, BearsPieces, Zenon
<1>10. Together(FlattenSeq(q))
    BY <1>3, <1>5, <1>9, TogetherPieces, Zenon
<1> QED BY <1>4, <1>7, <1>9, <1>10, Zenon DEF StreamIs

-----------------------------------------------------------------------------
(* One more CDF in mode 1 *)

\* The items of coverage c that it concerns, as they are held.
ItemsFor(k, c) == {i \in Item : KeyOf[i] = k /\ CoverageOf[i] = c}
NewStats(e, k, c) ==
    LET ids == Sorted({i \in Item : KeyOf[i] = k /\ CoverageOf[i] = c}) IN
    [n \in 1 .. Len(ids) |-> [item |-> ids[n], cdf |-> CdfOf[<<e, k>>]]]

\* They are the items of the key and the coverage, each once.
LEMMA NewStatsAre ==
    ASSUME NEW e, NEW k, NEW c
    PROVE  StatsIs(NewStats(e, k, c), e, ItemsFor(k, c))
<1> PICK X : X = ItemsFor(k, c)
    OBVIOUS
<1> PICK ids : ids = Sorted(X)
    OBVIOUS
<1>1. X \subseteq Int /\ IsFiniteSet(X) /\ X \subseteq Item /\ \A i \in X : KeyOf[i] = k
    BY ColumnFacts, FS_Subset DEF ItemsFor
<1>2. Lists(Sorted(X), X)
    BY <1>1, SortedIs
<1>3. /\ ids \in Seq(X)
      /\ \A x \in X : \E n \in 1 .. Len(ids) : ids[n] = x
      /\ \A n, m \in 1 .. Len(ids) : ids[n] = ids[m] => n = m
    <2>1. Lists(ids, X)
        BY <1>2, Zenon
    <2> QED BY <2>1, Zenon DEF Lists
<1> PICK new : new = NewStats(e, k, c)
    OBVIOUS
<1>4. new = [n \in 1 .. Len(ids) |-> [item |-> ids[n], cdf |-> CdfOf[<<e, k>>]]]
    BY Zenon DEF NewStats, ItemsFor
<1>5. Len(ids) \in Nat /\ \A n \in 1 .. Len(ids) : ids[n] \in X
    BY <1>3
<1>6. ASSUME NEW n \in 1 .. Len(ids) PROVE new[n] \in StatOf(e) /\ new[n].item = ids[n]
    <2> PICK i : i = ids[n]
        OBVIOUS
    <2>1. i \in Item /\ KeyOf[i] = k
        BY <1>1, <1>5
    <2>2. new[n] = [item |-> i, cdf |-> CdfOf[<<e, KeyOf[i]>>]]
        BY <1>4, <2>1
    <2> QED BY <2>1, <2>2 DEF StatOf
<1>7. new \in Seq(StatOf(e)) /\ Len(new) = Len(ids)
    <2>1. new \in [1 .. Len(ids) -> StatOf(e)]
        BY <1>4, <1>6
    <2> QED BY <1>5, <2>1
<1>8. StatsIs(new, e, X)
    BY <1>3, <1>5, <1>6, <1>7 DEF StatsIs
<1> QED BY <1>8, Zenon

\* Items after items.
LEMMA StatsJoin ==
    ASSUME NEW e, NEW r, NEW X, StatsIs(r, e, X), NEW t, NEW Y, StatsIs(t, e, Y), X \cap Y = {}
    PROVE  StatsIs(r \o t, e, X \cup Y)
<1> DEFINE s == r \o t
           l == Len(r)
<1>1. r \in Seq(StatOf(e)) /\ t \in Seq(StatOf(e))
    BY Zenon DEF StatsIs
<1>2. l \in Nat /\ Len(t) \in Nat /\ Len(s) = l + Len(t) /\ s \in Seq(StatOf(e))
    BY <1>1
<1>3. /\ \A n \in 1 .. l : s[n] = r[n] /\ n \in 1 .. Len(s)
      /\ \A n \in 1 .. Len(s) : n > l => s[n] = t[n - l] /\ n - l \in 1 .. Len(t)
      /\ \A m \in 1 .. Len(t) : s[l + m] = t[m] /\ l + m \in 1 .. Len(s)
      /\ \A n \in 1 .. Len(s) : n > l \/ n \in 1 .. l
    BY <1>1, <1>2
<1> HIDE DEF s, l
<1>4. /\ \A n \in 1 .. l : r[n].item \in X
      /\ \A x \in X : \E n \in 1 .. l : r[n].item = x
      /\ \A n, m \in 1 .. l : r[n].item = r[m].item => n = m
    BY Zenon DEF StatsIs, l
<1>5. /\ \A n \in 1 .. Len(t) : t[n].item \in Y
      /\ \A x \in Y : \E n \in 1 .. Len(t) : t[n].item = x
      /\ \A n, m \in 1 .. Len(t) : t[n].item = t[m].item => n = m
    BY Zenon DEF StatsIs
<1>6. ASSUME NEW n \in 1 .. Len(s) PROVE s[n].item \in X \cup Y
    <2>1. CASE n \in 1 .. l
        BY <1>3, <1>4, <2>1
    <2>2. CASE n > l
        BY <1>3, <1>5, <2>2
    <2> QED BY <1>3, <2>1, <2>2
<1>7. ASSUME NEW x \in X \cup Y PROVE \E n \in 1 .. Len(s) : s[n].item = x
    <2>1. CASE x \in X
        <3>1. PICK n \in 1 .. l : r[n].item = x
            BY <1>4, <2>1, Zenon
        <3> QED BY <1>3, <3>1, Zenon
    <2>2. CASE x \in Y
        <3>1. PICK m \in 1 .. Len(t) : t[m].item = x
            BY <1>5, <2>2, Zenon
        <3> QED BY <1>3, <3>1, Zenon
    <2> QED BY <2>1, <2>2
<1>8. ASSUME NEW n \in 1 .. Len(s), NEW m \in 1 .. Len(s), s[n].item = s[m].item PROVE n = m
    <2>1. CASE n \in 1 .. l /\ m \in 1 .. l
        BY <1>3, <1>4, <1>8, <2>1
    <2>2. CASE n > l /\ m > l
        <3>1. n - l \in 1 .. Len(t) /\ m - l \in 1 .. Len(t) /\ s[n] = t[n - l] /\ s[m] = t[m - l]
            BY <1>3, <2>2
        <3>2. n - l = m - l
            BY <1>5, <1>8, <3>1
        <3> QED BY <1>2, <3>2
    <2>3. CASE n \in 1 .. l /\ m > l
        <3>1. s[n] = r[n] /\ s[m] = t[m - l] /\ m - l \in 1 .. Len(t)
            BY <1>3, <2>3
        <3>2. s[n].item \in X /\ s[m].item \in Y
            BY <1>4, <1>5, <2>3, <3>1, Zenon
        <3> QED BY <1>8, <3>2
    <2>4. CASE n > l /\ m \in 1 .. l
        <3>1. s[n] = t[n - l] /\ n - l \in 1 .. Len(t) /\ s[m] = r[m]
            BY <1>3, <2>4
        <3>2. s[n].item \in Y /\ s[m].item \in X
            BY <1>4, <1>5, <2>4, <3>1, Zenon
        <3> QED BY <1>8, <3>2
    <2> QED BY <1>3, <2>1, <2>2, <2>3, <2>4
<1>9. StatsIs(s, e, X \cup Y)
    BY <1>2, <1>6, <1>7, <1>8, Zenon DEF StatsIs
<1> QED BY <1>9 DEF s

\* The coverages that have items, noted as the items come.
NoteOf(stats, ids, i) ==
    IF stats[CoverageOf[i]] # <<>> \/ Contains(ids, CoverageOf[i]) THEN ids
    ELSE Append(ids, CoverageOf[i])
Notes == INSTANCE Folding WITH op <- NoteOf
Noted(stats, used, k) ==
    FoldLeft(LAMBDA ids, i : IF stats[CoverageOf[i]] # <<>> \/ Contains(ids, CoverageOf[i]) THEN ids
                             ELSE Append(ids, CoverageOf[i]),
             used, ItemsOf(k))

\* The coverages are noted item by item.
LEMMA NotedFolds ==
    ASSUME NEW stats, NEW used, NEW k
    PROVE  Noted(stats, used, k) = Notes!OverSeq(stats, used, ItemsOf(k))
BY SMT DEF Noted, Notes!OverSeq, NoteOf, FoldLeft, Notes!FoldLeft,
           MapThenFoldSet, Notes!MapThenFoldSet, Max, Notes!Max

\* One item's coverage.
LEMMA NoteIs ==
    ASSUME NEW stats, NEW ids, NEW U, Lists(ids, U), NEW i,
           stats[CoverageOf[i]] # <<>> => CoverageOf[i] \in U
    PROVE  Lists(NoteOf(stats, ids, i), U \cup {CoverageOf[i]})
<1> PICK c : c = CoverageOf[i]
    OBVIOUS
<1>1. /\ ids \in Seq(U)
      /\ \A x \in U : \E n \in 1 .. Len(ids) : ids[n] = x
      /\ \A n, m \in 1 .. Len(ids) : ids[n] = ids[m] => n = m
    BY Zenon DEF Lists
<1>2. \A n \in 1 .. Len(ids) : ids[n] \in U
    BY <1>1
<1>3. Contains(ids, c) <=> c \in U
    BY <1>1, <1>2 DEF Contains
<1>4. CASE c \in U
    <2>1. NoteOf(stats, ids, i) = ids /\ U \cup {c} = U
        BY <1>3, <1>4 DEF NoteOf
    <2> QED BY <2>1
<1>5. CASE c \notin U
    <2> PICK s : s = Append(ids, c)
        OBVIOUS
    <2> PICK l : l = Len(ids)
        OBVIOUS
    <2>1. NoteOf(stats, ids, i) = s
        BY <1>3, <1>5 DEF NoteOf
    <2>2. ids \in Seq(U \cup {c})
        BY <1>1
    <2>3. /\ s \in Seq(U \cup {c}) /\ l \in Nat /\ Len(s) = l + 1
          /\ \A n \in 1 .. l : s[n] = ids[n] /\ n \in 1 .. Len(s)
          /\ s[l + 1] = c /\ l + 1 \in 1 .. Len(s)
          /\ \A n \in 1 .. Len(s) : n = l + 1 \/ n \in 1 .. l
        BY <2>2
    <2>4. ASSUME NEW x \in U \cup {c} PROVE \E n \in 1 .. Len(s) : s[n] = x
        <3>1. CASE x = c
            BY <2>3, <3>1
        <3>2. CASE x \in U
            <4>1. PICK n \in 1 .. l : ids[n] = x
                BY <1>1, <3>2
            <4> QED BY <2>3, <4>1
        <3> QED BY <3>1, <3>2
    <2>5. ASSUME NEW n \in 1 .. Len(s), NEW m \in 1 .. Len(s), s[n] = s[m] PROVE n = m
        BY <1>1, <1>2, <1>5, <2>3, <2>5
    <2>6. Lists(s, U \cup {c})
        BY <2>3, <2>4, <2>5, Zenon DEF Lists
    <2> QED BY <2>1, <2>6
<1> QED BY <1>4, <1>5

\* The coverages of all the items of a key.
LEMMA NotedAre ==
    ASSUME NEW stats, NEW used, NEW U, Lists(used, U), \A c \in Coverage : stats[c] # <<>> => c \in U,
           NEW k
    PROVE  Lists(Noted(stats, used, k), U \cup {CoverageOf[i] : i \in Holders(k)})
<1> PICK items : items = ItemsOf(k)
    OBVIOUS
<1> PICK l : l = Len(items)
    OBVIOUS
<1>1. Lists(items, Holders(k))
    BY ItemsOfAre
<1>2. /\ items \in Seq(Holders(k))
      /\ \A x \in Holders(k) : \E n \in 1 .. l : items[n] = x
    BY <1>1, Zenon DEF Lists
<1>3. l \in Nat /\ DOMAIN items = 1 .. l /\ \A n \in 1 .. l : items[n] \in Holders(k)
    BY <1>2
<1>4. Noted(stats, used, k) = Notes!OverSeq(stats, used, items)
    BY NotedFolds
<1>5. \E acc : Notes!Along(acc, stats, used, items, l) /\ Notes!OverSeq(stats, used, items) = acc[l]
    BY <1>3, Notes!FoldsAlong
<1>6. PICK acc : Notes!Along(acc, stats, used, items, l) /\ Notes!OverSeq(stats, used, items) = acc[l]
    BY <1>5
<1>7. acc[0] = used /\ \A n \in 1 .. l : acc[n] = NoteOf(stats, acc[n - 1], items[n])
    BY <1>6, Zenon DEF Notes!Along
<1> DEFINE V(n) == U \cup {CoverageOf[items[m]] : m \in 1 .. n}
           T == {n \in 0 .. l : Lists(acc[n], V(n))}
<1>8. 0 \in T
    <2>1. V(0) = U
        OBVIOUS
    <2> HIDE DEF V
    <2> QED BY <1>3, <1>7, <2>1
<1>9. ASSUME NEW n \in 0 .. l, n \in T, n < l PROVE n + 1 \in T
    <2>1. n + 1 \in 1 .. l /\ (n + 1) - 1 = n /\ n + 1 \in 0 .. l
        BY <1>3, <1>9
    <2>2. acc[n + 1] = NoteOf(stats, acc[n], items[n + 1])
        BY <1>7, <2>1
    <2>3. V(n + 1) = V(n) \cup {CoverageOf[items[n + 1]]}
        BY <2>1
    <2>4. stats[CoverageOf[items[n + 1]]] # <<>> => CoverageOf[items[n + 1]] \in V(n)
        <3>1. items[n + 1] \in Item
            BY <1>3, <2>1 DEF Holders
        <3>2. CoverageOf[items[n + 1]] \in Coverage
            BY <3>1, ColumnFacts, Zenon
        <3> QED BY <3>2
    <2>5. Lists(acc[n], V(n))
        BY <1>9
    <2> HIDE DEF V
    <2>6. Lists(NoteOf(stats, acc[n], items[n + 1]), V(n) \cup {CoverageOf[items[n + 1]]})
        BY <2>4, <2>5, NoteIs
    <2> QED BY <2>1, <2>2, <2>3, <2>6
<1>10. \A n \in 0 .. l : n \in T
    <2> HIDE DEF T
    <2>1. \A n \in 0 .. l : n \in T /\ n < l => n + 1 \in T
        BY <1>9
    <2> QED BY <1>3, <1>8, <2>1, Notes!Induction
<1>11. Lists(acc[l], V(l))
    <2>1. l \in T
        <3> HIDE DEF T
        <3>1. l \in 0 .. l
            BY <1>3
        <3> QED BY <1>10, <3>1, Zenon
    <2> HIDE DEF V
    <2> QED BY <2>1
<1>12. V(l) = U \cup {CoverageOf[i] : i \in Holders(k)}
    BY <1>2, <1>3
<1> HIDE DEF V
<1> QED BY <1>4, <1>6, <1>11, <1>12

\* What is held of the event, with one more CDF.
HeldWith(stats, e, k) == [c \in Coverage |-> stats[c] \o NewStats(e, k, c)]

\* mode1 holds the items of one more CDF.
LEMMA HeldGrows ==
    ASSUME NEW stats, NEW used, NEW e, NEW R, HeldIs(stats, used, e, R), NEW k, <<e, k>> \notin R
    PROVE  HeldIs(HeldWith(stats, e, k), Noted(stats, used, k), e, R \cup {<<e, k>>})
<1> PICK T : T = R \cup {<<e, k>>}
    OBVIOUS
<1> PICK new : new = [c \in Coverage |-> stats[c] \o NewStats(e, k, c)]
    OBVIOUS
<1>1. Lists(used, CoveragesAt(R, e)) /\ \A c \in Coverage : StatsIs(stats[c], e, ItemsAt(R, e, c))
    BY Zenon DEF HeldIs
<1>2. ASSUME NEW c
      PROVE  ItemsAt(T, e, c) = ItemsAt(R, e, c) \cup ItemsFor(k, c) /\ ItemsAt(R, e, c) \cap ItemsFor(k, c) = {}
    BY DEF ItemsAt, ItemsFor
<1>3. ASSUME NEW c \in Coverage PROVE StatsIs(new[c], e, ItemsAt(T, e, c))
    <2>1. StatsIs(stats[c] \o NewStats(e, k, c), e, ItemsAt(R, e, c) \cup ItemsFor(k, c))
        BY <1>1, <1>2, NewStatsAre, StatsJoin, Zenon
    <2>2. new[c] = stats[c] \o NewStats(e, k, c)
        OBVIOUS
    <2> QED BY <1>2, <2>1, <2>2, Zenon
<1>4. \A c \in Coverage : stats[c] # <<>> => c \in CoveragesAt(R, e)
    BY <1>1, StatsEmpty DEF CoveragesAt
<1>5. Lists(Noted(stats, used, k), CoveragesAt(R, e) \cup {CoverageOf[i] : i \in Holders(k)})
    BY <1>1, <1>4, NotedAre, Zenon
<1>6. CoveragesAt(T, e) = CoveragesAt(R, e) \cup {CoverageOf[i] : i \in Holders(k)}
    <2>1. ASSUME NEW c \in CoveragesAt(T, e)
          PROVE  c \in CoveragesAt(R, e) \cup {CoverageOf[i] : i \in Holders(k)}
        <3>1. c \in Coverage /\ ItemsAt(T, e, c) # {}
            BY DEF CoveragesAt
        <3>2. CASE ItemsAt(R, e, c) # {}
            BY <3>1, <3>2 DEF CoveragesAt
        <3>3. CASE ItemsFor(k, c) # {}
            <4>1. PICK i : i \in ItemsFor(k, c)
                BY <3>3
            <4> QED BY <4>1 DEF ItemsFor, Holders
        <3> QED BY <1>2, <3>1, <3>2, <3>3, Zenon
    <2>2. ASSUME NEW c \in CoveragesAt(R, e) PROVE c \in CoveragesAt(T, e)
        BY <1>2 DEF CoveragesAt
    <2>3. ASSUME NEW i \in Holders(k) PROVE CoverageOf[i] \in CoveragesAt(T, e)
        <3> PICK c : c = CoverageOf[i]
            OBVIOUS
        <3>1. i \in ItemsFor(k, c) /\ c \in Coverage
            BY ColumnFacts DEF Holders, ItemsFor
        <3>2. ItemsAt(T, e, c) # {}
            BY <1>2, <3>1
        <3> QED BY <3>1, <3>2 DEF CoveragesAt
    <2> QED BY <2>1, <2>2, <2>3
<1>7. new = [c \in Coverage |-> new[c]]
    BY Zenon
<1>8. Lists(Noted(stats, used, k), CoveragesAt(T, e))
    BY <1>5, <1>6, Zenon
<1>9. HeldIs(new, Noted(stats, used, k), e, T)
    BY <1>3, <1>7, <1>8, Zenon DEF HeldIs
<1> QED BY <1>9, Zenon DEF HeldWith

\* One more event in a stream.
LEMMA StreamEvent ==
    ASSUME NEW S, NEW R, NEW D, NEW j, NEW E, NEW e, e \notin E,
           NEW out, StreamIs(out, S, R, D, j, E), NEW rows, StreamIs(rows, S, R, D, j, {e})
    PROVE  StreamIs(out \o rows, S, R, D, j, E \cup {e})
<1> PICK V, W : V = Wanted(S, R, D, j, E) /\ W = Wanted(S, R, D, j, {e})
    OBVIOUS
<1>1. Bears(out, V) /\ Together(out) /\ Bears(rows, W) /\ Together(rows)
    BY Zenon DEF StreamIs
<1>2. V \cap W = {}
    <2>1. \A x \in V : x[1] \in E
        BY WantedIs, Zenon
    <2>2. \A x \in W : x[1] \in {e}
        BY WantedIs, Zenon
    <2> QED BY <2>1, <2>2
<1>3. Wanted(S, R, D, j, E \cup {e}) = V \cup W
    BY DEF Wanted
<1>4. Bears(out \o rows, V \cup W)
    BY <1>1, <1>2, BearsBoth, Zenon
<1>5. Together(out \o rows)
    <2>1. out \in Seq(Rec) /\ rows \in Seq(Rec)
        BY <1>1, Zenon DEF Bears
    <2> QED BY <1>1, <2>1, TogetherBoth, Zenon
<1> QED BY <1>3, <1>4, <1>5, Zenon DEF StreamIs

-----------------------------------------------------------------------------
(* The sums of the coverages *)

\* What the items of a coverage lost together, in an event and sample.
ItemLosses(e, s, numbers) == [i \in Item |-> LossOf(e, i, s, GroupOf[i], numbers)]
CovLoss(R, D, e, c, s) == SumOf(ItemLosses(e, s, D[e]), ItemsAt(R, e, c))
SumsAt(S, R, D, e, c) ==
    IF ItemsAt(R, e, c) = {} THEN <<>> ELSE [s \in {-2, -1} \cup S |-> CovLoss(R, D, e, c, s)]
SumsIs(sums, S, R, D, e) ==
    sums = [c \in Coverage |-> sums[c]] /\ \A c \in Coverage : sums[c] = SumsAt(S, R, D, e, c)

\* A group's numbers are drawn for every item.
LEMMA ItemGroup ==
    ASSUME NEW i \in Item
    PROVE  GroupOf[i] \in Groups
BY DEF Groups

\* The losses of items are integers.
LEMMA ItemLossesAre ==
    ASSUME opt_ \in Options, NEW e \in Events, NEW numbers \in Numbers,
           NEW s \in {-2, -1} \cup Sample
    PROVE  /\ \A i \in Item : ItemLosses(e, s, numbers)[i] = LossOf(e, i, s, GroupOf[i], numbers)
           /\ \A i \in Item : ItemLosses(e, s, numbers)[i] \in Int
<1>1. ASSUME NEW i \in Item PROVE ItemLosses(e, s, numbers)[i] = LossOf(e, i, s, GroupOf[i], numbers)
    BY Zenon DEF ItemLosses
<1>2. ASSUME NEW i \in Item PROVE LossOf(e, i, s, GroupOf[i], numbers) \in Int
    <2>1. GroupOf[i] \in Groups
        BY ItemGroup
    <2>2. /\ LossOf(e, i, -2, GroupOf[i], numbers) \in Int
          /\ LossOf(e, i, -1, GroupOf[i], numbers) \in Int
          /\ \A t \in Sample : LossOf(e, i, t, GroupOf[i], numbers) \in Nat
        BY <2>1, LossType
    <2> QED BY <2>2
<1> QED BY <1>1, <1>2

\* A coverage has finitely many items.
LEMMA ItemsFinite ==
    ASSUME NEW R, NEW e, NEW k, NEW c
    PROVE  IsFiniteSet(ItemsAt(R, e, c)) /\ IsFiniteSet(ItemsFor(k, c))
BY ColumnFacts, FS_Subset DEF ItemsAt, ItemsFor

\* The sums of an event that has none.
LEMMA SumsNothing ==
    ASSUME NEW R, NEW D, NEW e, \A i \in Item : <<e, KeyOf[i]>> \notin R
    PROVE  SumsIs(NoSums, Sample, R, D, e)
<1>1. ASSUME NEW c PROVE ItemsAt(R, e, c) = {}
    BY Zenon DEF ItemsAt
<1>2. NoSums = [c \in Coverage |-> NoSums[c]] /\ \A c \in Coverage : NoSums[c] = <<>>
    BY DEF NoSums
<1> QED BY <1>1, <1>2 DEF SumsIs, SumsAt

\* What a CDF adds to a coverage.
Added(e, k, c, s, numbers) == SumOf(ItemLosses(e, s, numbers), ItemsFor(k, c))

\* The loss of a coverage grows by what the CDF adds.
LEMMA CovLossGrows ==
    ASSUME opt_ \in Options, NEW e \in Events, NEW k, NEW R, <<e, k>> \notin R, NEW D, NEW C,
           C[e] \in Numbers, NEW c, ItemsAt(R, e, c) # {} => D[e] = C[e],
           NEW s \in {-2, -1} \cup Sample
    PROVE  /\ ItemsAt(R, e, c) = {} =>
                CovLoss(R \cup {<<e, k>>}, C, e, c, s) = Added(e, k, c, s, C[e])
           /\ ItemsAt(R, e, c) # {} =>
                CovLoss(R \cup {<<e, k>>}, C, e, c, s) = CovLoss(R, D, e, c, s) + Added(e, k, c, s, C[e])
<1> PICK f : f = ItemLosses(e, s, C[e])
    OBVIOUS
<1> PICK A, B : A = ItemsAt(R, e, c) /\ B = ItemsFor(k, c)
    OBVIOUS
<1>1. ItemsAt(R \cup {<<e, k>>}, e, c) = A \cup B /\ A \cap B = {}
    BY DEF ItemsAt, ItemsFor
<1>2. IsFiniteSet(A) /\ IsFiniteSet(B) /\ A \subseteq Item /\ B \subseteq Item
    <2>1. IsFiniteSet(ItemsAt(R, e, c)) /\ IsFiniteSet(ItemsFor(k, c))
        BY ItemsFinite
    <2>2. IsFiniteSet(A) /\ IsFiniteSet(B)
        BY <2>1, Zenon
    <2>3. A \subseteq Item /\ B \subseteq Item
        BY DEF ItemsAt, ItemsFor
    <2> QED BY <2>2, <2>3
<1>3. \A i \in Item : f[i] \in Int
    <2>1. \A i \in Item : ItemLosses(e, s, C[e])[i] \in Int
        BY ItemLossesAre, Zenon
    <2> QED BY <2>1, Zenon
<1>4. \A i \in A \cup B : f[i] \in Int
    BY <1>2, <1>3
<1>5. SumOf(f, A \cup B) = SumOf(f, A) + SumOf(f, B)
    BY <1>1, <1>2, <1>4, SumBoth, Zenon
<1>6. CovLoss(R \cup {<<e, k>>}, C, e, c, s) = SumOf(f, A \cup B)
    BY <1>1, Zenon DEF CovLoss
<1>7. Added(e, k, c, s, C[e]) = SumOf(f, B)
    BY Zenon DEF Added
<1>8. CASE A = {}
    <2>1. A \cup B = B
        BY <1>8
    <2> QED BY <1>6, <1>7, <1>8, <2>1
<1>9. CASE A # {}
    <2>1. CovLoss(R, D, e, c, s) = SumOf(f, A)
        BY <1>9, Zenon DEF CovLoss
    <2> QED BY <1>5, <1>6, <1>7, <1>9, <2>1
<1> QED BY <1>8, <1>9

\* As the code adds it.
LEMMA AddedIs ==
    ASSUME opt_ \in Options, ~correlatedLevelOutput, NEW e \in Events, NEW k \in Keys,
           NEW numbers \in Numbers, NEW c, NEW s \in {-2, -1} \cup Sample,
           NEW f, \A i \in ItemsFor(k, c) : f[i] =
                IF s = -2 THEN std_dev(CdfOf[<<e, k>>], Tiv[CoverageOf[i]])
                ELSE IF s = -1 THEN gul_mean(CdfOf[<<e, k>>], Tiv[CoverageOf[i]])
                ELSE IF Sampled(CdfOf[<<e, k>>], i, GroupOf[i], numbers)[s] >= loss_threshold
                     THEN Sampled(CdfOf[<<e, k>>], i, GroupOf[i], numbers)[s] ELSE 0
    PROVE  SumOf(f, ItemsFor(k, c)) = Added(e, k, c, s, numbers)
<1> PICK X : X = ItemsFor(k, c)
    OBVIOUS
<1> PICK h : h = ItemLosses(e, s, numbers)
    OBVIOUS
<1>1. IsFiniteSet(X) /\ \A i \in X : i \in Item /\ KeyOf[i] = k
    <2>1. IsFiniteSet(ItemsFor(k, c))
        BY ItemsFinite
    <2>2. \A i \in X : i \in Item /\ KeyOf[i] = k
        BY DEF ItemsFor
    <2> QED BY <2>1, <2>2, Zenon
<1>2. ASSUME NEW i \in X PROVE f[i] \in Int /\ f[i] = h[i]
    <2>1. i \in Item /\ KeyOf[i] = k
        BY <1>1
    <2>2. /\ ItemLosses(e, s, numbers)[i] = LossOf(e, i, s, GroupOf[i], numbers)
          /\ ItemLosses(e, s, numbers)[i] \in Int
        BY <2>1, ItemLossesAre
    <2>3. h[i] = LossOf(e, i, s, GroupOf[i], numbers) /\ h[i] \in Int
        BY <2>2, Zenon
    <2>4. CASE s = -2
        BY <2>1, <2>3, <2>4 DEF LossOf
    <2>5. CASE s = -1
        BY <2>1, <2>3, <2>5 DEF LossOf
    <2>6. CASE s \in Sample
        <3>1. s # -2 /\ s # -1
            BY <2>6, SampleFacts
        <3> PICK cdf, b, l : /\ cdf = CdfOf[<<e, k>>] /\ b = BinOf(cdf, numbers[GroupOf[i]][s])
                             /\ l = getgul(cdf, b, Tiv[CoverageOf[i]])
            OBVIOUS
        <3>2. Sampled(CdfOf[<<e, KeyOf[i]>>], i, GroupOf[i], numbers)[s]
                = getgul(CdfOf[<<e, KeyOf[i]>>], BinOf(CdfOf[<<e, KeyOf[i]>>], numbers[GroupOf[i]][s]),
                         Tiv[CoverageOf[i]])
            BY <2>1, <2>6, SampledIs
        <3>3. Sampled(CdfOf[<<e, k>>], i, GroupOf[i], numbers)[s] = l
            BY <2>1, <3>2
        <3>4. LossOf(e, i, s, GroupOf[i], numbers) = IF l >= loss_threshold THEN l ELSE 0
            BY <2>1, <3>1 DEF LossOf
        <3>5. f[i] = IF l >= loss_threshold THEN l ELSE 0
            BY <3>1, <3>3
        <3> QED BY <2>3, <3>4, <3>5
    <2> QED BY <2>4, <2>5, <2>6
<1>3. SumOf(f, X) = SumOf(h, X)
    BY <1>1, <1>2, SumSame, Zenon
<1> QED BY <1>3, Zenon DEF Added

\* The sums with one more CDF.
LEMMA SumsGrow ==
    ASSUME opt_ \in Options, coverageLevelOutput, ~correlatedLevelOutput,
           NEW e \in Events, NEW k \in Keys, NEW R, <<e, k>> \notin R, NEW D, NEW C,
           C[e] \in Numbers, \A o : <<e, o>> \in R => D[e] = C[e],
           NEW sums, SumsIs(sums, Sample, R, D, e)
    PROVE  SumsIs(gencovoutput(sums, e, k, C[e]), Sample, R \cup {<<e, k>>}, C, e)
<1> PICK T : T = R \cup {<<e, k>>}
    OBVIOUS
<1> PICK new : new = gencovoutput(sums, e, k, C[e])
    OBVIOUS
<1> DEFINE Of(i, s) ==
        IF s = -2 THEN std_dev(CdfOf[<<e, k>>], Tiv[CoverageOf[i]])
        ELSE IF s = -1 THEN gul_mean(CdfOf[<<e, k>>], Tiv[CoverageOf[i]])
        ELSE IF Sampled(CdfOf[<<e, k>>], i, GroupOf[i], C[e])[s] >= loss_threshold /\ ~correlatedLevelOutput
             THEN Sampled(CdfOf[<<e, k>>], i, GroupOf[i], C[e])[s] ELSE 0
           F(c, s) == [i \in ItemsFor(k, c) |-> Of(i, s)]
           Sum(c) == [s \in {-2, -1} \cup Sample |->
                        (IF sums[c] = <<>> THEN 0 ELSE sums[c][s]) + SumOf(F(c, s), ItemsFor(k, c))]
<1>1. new = [c \in Coverage |-> IF ItemsFor(k, c) = {} THEN sums[c] ELSE Sum(c)]
    BY Zenon DEF gencovoutput, ItemsFor
<1>2. ASSUME NEW c \in Coverage, NEW s \in {-2, -1} \cup Sample
      PROVE  SumOf(F(c, s), ItemsFor(k, c)) = Added(e, k, c, s, C[e])
    <2>1. \A i \in ItemsFor(k, c) : F(c, s)[i] = Of(i, s)
        OBVIOUS
    <2>2. \A i \in ItemsFor(k, c) : F(c, s)[i] =
                IF s = -2 THEN std_dev(CdfOf[<<e, k>>], Tiv[CoverageOf[i]])
                ELSE IF s = -1 THEN gul_mean(CdfOf[<<e, k>>], Tiv[CoverageOf[i]])
                ELSE IF Sampled(CdfOf[<<e, k>>], i, GroupOf[i], C[e])[s] >= loss_threshold
                     THEN Sampled(CdfOf[<<e, k>>], i, GroupOf[i], C[e])[s] ELSE 0
        <3> HIDE DEF F
        <3> QED BY <2>1
    <2> HIDE DEF F
    <2> QED BY <2>2, AddedIs
<1> HIDE DEF F
<1>3. ASSUME NEW c \in Coverage PROVE new[c] = SumsAt(Sample, T, C, e, c)
    <2> PICK A, B : A = ItemsAt(R, e, c) /\ B = ItemsFor(k, c)
        OBVIOUS
    <2>1. ItemsAt(T, e, c) = A \cup B
        BY DEF ItemsAt, ItemsFor
    <2>2. sums[c] = SumsAt(Sample, R, D, e, c)
        BY Zenon DEF SumsIs
    <2>3. A # {} => D[e] = C[e]
        BY DEF ItemsAt
    <2>4. CASE B = {}
        <3>1. new[c] = sums[c] /\ ItemsAt(T, e, c) = A
            BY <1>1, <2>1, <2>4
        <3>2. A # {} => \A s : CovLoss(T, C, e, c, s) = CovLoss(R, D, e, c, s)
            BY <2>3, <3>1, Zenon DEF CovLoss
        <3> QED BY <2>2, <3>1, <3>2 DEF SumsAt
    <2>5. CASE B # {}
        <3>1. new[c] = Sum(c) /\ ItemsAt(T, e, c) # {}
            BY <1>1, <2>1, <2>5
        <3>2. ASSUME NEW s \in {-2, -1} \cup Sample
              PROVE  (IF sums[c] = <<>> THEN 0 ELSE sums[c][s]) + SumOf(F(c, s), ItemsFor(k, c))
                        = CovLoss(T, C, e, c, s)
            <4>1. SumOf(F(c, s), ItemsFor(k, c)) = Added(e, k, c, s, C[e])
                BY <1>2
            <4>2. /\ A = {} => CovLoss(T, C, e, c, s) = Added(e, k, c, s, C[e])
                  /\ A # {} => CovLoss(T, C, e, c, s) = CovLoss(R, D, e, c, s) + Added(e, k, c, s, C[e])
                <5>1. ItemsAt(R, e, c) # {} => D[e] = C[e]
                    BY <2>3, Zenon
                <5>2. /\ ItemsAt(R, e, c) = {} =>
                            CovLoss(R \cup {<<e, k>>}, C, e, c, s) = Added(e, k, c, s, C[e])
                      /\ ItemsAt(R, e, c) # {} =>
                            CovLoss(R \cup {<<e, k>>}, C, e, c, s)
                                = CovLoss(R, D, e, c, s) + Added(e, k, c, s, C[e])
                    BY <5>1, CovLossGrows
                <5> QED BY <5>2, Zenon
            <4>3. Added(e, k, c, s, C[e]) \in Int
                <5>1. /\ IsFiniteSet(ItemsFor(k, c)) /\ ItemsFor(k, c) \subseteq Item
                      /\ \A i \in Item : ItemLosses(e, s, C[e])[i] \in Int
                    <6>1. IsFiniteSet(ItemsFor(k, c))
                        BY ItemsFinite
                    <6>2. ItemsFor(k, c) \subseteq Item
                        BY DEF ItemsFor
                    <6>3. \A i \in Item : ItemLosses(e, s, C[e])[i] \in Int
                        BY ItemLossesAre
                    <6> QED BY <6>1, <6>2, <6>3
                <5>2. \A i \in ItemsFor(k, c) : ItemLosses(e, s, C[e])[i] \in Int
                    BY <5>1
                <5> QED BY <5>1, <5>2, SumType, Zenon DEF Added
            <4>4. CASE A = {}
                <5>1. sums[c] = <<>>
                    BY <2>2, <4>4 DEF SumsAt
                <5> QED BY <4>1, <4>2, <4>3, <4>4, <5>1
            <4>5. CASE A # {}
                <5>1. sums[c] = [t \in {-2, -1} \cup Sample |-> CovLoss(R, D, e, c, t)]
                    BY <2>2, <4>5 DEF SumsAt
                <5>2. sums[c][s] = CovLoss(R, D, e, c, s)
                    BY <5>1
                <5>3. sums[c] # <<>>
                    <6>1. -1 \in DOMAIN sums[c]
                        BY <5>1
                    <6> QED BY <6>1
                <5> QED BY <4>1, <4>2, <4>5, <5>2, <5>3
            <4> QED BY <4>4, <4>5
        <3>3. Sum(c) = [s \in {-2, -1} \cup Sample |-> CovLoss(T, C, e, c, s)]
            BY <3>2
        <3> QED BY <3>1, <3>3, Zenon DEF SumsAt
    <2> QED BY <2>4, <2>5
<1>4. new = [c \in Coverage |-> new[c]]
    BY <1>1
<1>5. SumsIs(new, Sample, T, C, e)
    BY <1>3, <1>4, Zenon DEF SumsIs
<1> QED BY <1>5, Zenon

-----------------------------------------------------------------------------
(* The records of the coverages *)

\* What a coverage has for an event: its loss, capped; the samples it has a
\* record for; the keys of those records, for an event and for all.
CovWorth(R, D, e, c, s) == Capped(c, CovLoss(R, D, e, c, s))
CovWants(S, R, D, e, c) == {s \in {-1} \cup S : s = -1 \/ CovWorth(R, D, e, c, s) >= loss_threshold}
CovKeys(S, R, D, e, c) ==
    IF ItemsAt(R, e, c) = {} THEN {} ELSE {<<e, c, s>> : s \in CovWants(S, R, D, e, c)}
CovEvent(S, R, D, e) == UNION {CovKeys(S, R, D, e, c) : c \in Coverage}
CovWanted(S, R, D, E) == UNION {CovEvent(S, R, D, e) : e \in E}
CovFair(R, D) == {r \in Rec : r[4] = CovWorth(R, D, r[1], r[2], r[3])}
CovIs(out, S, R, D, E) == Bears(out, CovWanted(S, R, D, E)) /\ out \in Seq(CovFair(R, D))

\* The losses of coverages are integers.
LEMMA CovLossType ==
    ASSUME opt_ \in Options, NEW e \in Events, NEW R, NEW D, D[e] \in Numbers, NEW c \in Coverage,
           NEW s \in {-2, -1} \cup Sample
    PROVE  CovLoss(R, D, e, c, s) \in Int /\ CovWorth(R, D, e, c, s) \in Int
<1> PICK X, f : X = ItemsAt(R, e, c) /\ f = ItemLosses(e, s, D[e])
    OBVIOUS
<1>1. IsFiniteSet(X)
    <2>1. IsFiniteSet(ItemsAt(R, e, c))
        BY ItemsFinite
    <2> QED BY <2>1, Zenon
<1>2. X \subseteq Item
    BY DEF ItemsAt
<1>3. \A i \in Item : f[i] \in Int
    <2>1. \A i \in Item : ItemLosses(e, s, D[e])[i] \in Int
        BY ItemLossesAre
    <2> QED BY <2>1, Zenon
<1>4. SumOf(f, X) \in Int
    <2>1. \A i \in X : f[i] \in Int
        BY <1>2, <1>3
    <2> QED BY <1>1, <2>1, SumType, Zenon
<1>5. CovLoss(R, D, e, c, s) \in Int
    BY <1>4, Zenon DEF CovLoss
<1>6. Tiv[c] \in Int
    BY ColumnFacts
<1> QED BY <1>5, <1>6 DEF CovWorth, Capped, Least

\* Records of an id that list its samples.
LEMMA RowsBear ==
    ASSUME NEW e, NEW i, NEW X, NEW sids, Lists(sids, X), NEW w, NEW out, RowsAt(out, sids, e, i, w)
    PROVE  Bears(out, {<<e, i, s>> : s \in X})
<1> PICK l : l = Len(sids)
    OBVIOUS
<1>1. /\ \A x \in X : \E n \in 1 .. l : sids[n] = x
      /\ \A n \in 1 .. l : sids[n] \in X
      /\ \A n, m \in 1 .. l : sids[n] = sids[m] => n = m
    <2>1. /\ \A x \in X : \E n \in 1 .. Len(sids) : sids[n] = x
          /\ \A n \in 1 .. Len(sids) : sids[n] \in X
          /\ \A n, m \in 1 .. Len(sids) : sids[n] = sids[m] => n = m
        BY ListIs, Zenon
    <2> QED BY <2>1, Zenon
<1>2. out \in Seq(Rec) /\ Len(out) = l /\ \A n \in 1 .. l : out[n] = <<e, i, sids[n], w[sids[n]]>>
    BY Zenon DEF RowsAt
<1>3. \A n \in 1 .. l : KeyAt(out[n]) = <<e, i, sids[n]>>
    BY <1>2 DEF KeyAt
<1>4. \A n \in 1 .. l : KeyAt(out[n]) \in {<<e, i, s>> : s \in X}
    BY <1>1, <1>3
<1>5. ASSUME NEW x \in {<<e, i, s>> : s \in X} PROVE \E n \in 1 .. l : KeyAt(out[n]) = x
    <2>1. PICK s \in X : x = <<e, i, s>>
        OBVIOUS
    <2>2. PICK n \in 1 .. l : sids[n] = s
        BY <1>1
    <2> QED BY <1>3, <2>1, <2>2
<1>6. \A n, m \in 1 .. l : KeyAt(out[n]) = KeyAt(out[m]) => n = m
    BY <1>1, <1>3
<1> QED BY <1>2, <1>4, <1>5, <1>6 DEF Bears

\* The records that the code writes for a coverage.
CovRows(sums, e, c) ==
    LET rows == Sorted({s \in {-1} \cup Sample : s = -1 \/ Capped(c, sums[c][s]) >= loss_threshold})
    IN IF sums[c] = <<>> THEN <<>>
       ELSE [m \in 1 .. Len(rows) |-> Row(e, c, rows[m], Capped(c, sums[c][rows[m]]))]

\* They are the records that the coverage is to have.
LEMMA CovRowsAre ==
    ASSUME opt_ \in Options, NEW e \in Int, NEW R, NEW D, NEW c \in Coverage,
           ItemsAt(R, e, c) # {} => e \in Events /\ D[e] \in Numbers,
           NEW sums, sums[c] = SumsAt(Sample, R, D, e, c), NEW out, out = CovRows(sums, e, c)
    PROVE  Bears(out, CovKeys(Sample, R, D, e, c)) /\ out \in Seq(CovFair(R, D))
<1>1. CASE ItemsAt(R, e, c) = {}
    <2>1. out = <<>>
        <3>1. sums[c] = <<>>
            BY <1>1 DEF SumsAt
        <3> QED BY <3>1, Zenon DEF CovRows
    <2>2. CovKeys(Sample, R, D, e, c) = {}
        BY <1>1 DEF CovKeys
    <2> QED BY <2>1, <2>2, BearsNothing
<1>2. CASE ItemsAt(R, e, c) # {}
    <2> DEFINE w == [s \in {-2, -1} \cup Sample |-> CovWorth(R, D, e, c, s)]
    <2> PICK T : T = CovWants(Sample, R, D, e, c)
        OBVIOUS
    <2> PICK sids : sids = Sorted(T)
        OBVIOUS
    <2>1. sums[c] = [s \in {-2, -1} \cup Sample |-> CovLoss(R, D, e, c, s)]
        BY <1>2 DEF SumsAt
    <2>2. sums[c] # <<>>
        <3>1. -1 \in DOMAIN sums[c]
            BY <2>1
        <3> QED BY <3>1
    <2>3. \A s \in {-1} \cup Sample : Capped(c, sums[c][s]) = CovWorth(R, D, e, c, s)
        BY <2>1 DEF CovWorth
    <2>4. \A s \in {-1} \cup Sample : w[s] = CovWorth(R, D, e, c, s) /\ w[s] \in Int
        <3>1. \A s \in {-2, -1} \cup Sample : CovWorth(R, D, e, c, s) \in Int
            BY <1>2, CovLossType
        <3> QED BY <3>1
    <2> HIDE DEF w
    <2>5. {s \in {-1} \cup Sample : s = -1 \/ Capped(c, sums[c][s]) >= loss_threshold} = T
        BY <2>3 DEF CovWants
    <2>6. T \subseteq {-1} \cup Sample /\ T \subseteq Int /\ IsFiniteSet(T)
        <3>1. IsFiniteSet(Sample) /\ Sample \subseteq Int
            BY SampleFacts
        <3>2. T \subseteq Sample \cup {-1}
            BY DEF CovWants
        <3>3. IsFiniteSet(Sample \cup {-1})
            BY <3>1, FS_AddElement
        <3>4. IsFiniteSet(T)
            BY <3>2, <3>3, FS_Subset
        <3>5. ASSUME NEW s \in T PROVE s \in Int
            <4>1. s \in Sample \/ s = -1
                BY <3>2
            <4>2. s \in Sample => s \in Int
                BY <3>1, Zenon
            <4>3. s = -1 => s \in Int
                OBVIOUS
            <4> QED BY <4>1, <4>2, <4>3
        <3> QED BY <3>2, <3>4, <3>5
    <2>7. Lists(sids, T)
        <3>1. Lists(Sorted(T), T)
            BY <2>6, SortedIs
        <3> QED BY <3>1, Zenon
    <2>8. sids \in Seq(T) /\ Len(sids) \in Nat /\ \A n \in 1 .. Len(sids) : sids[n] \in T
        BY <2>7, ListIs, Zenon
    <2>9. out = [m \in 1 .. Len(sids) |-> Row(e, c, sids[m], Capped(c, sums[c][sids[m]]))]
        BY <2>2, <2>5, Zenon DEF CovRows
    <2>10. out = [m \in 1 .. Len(sids) |-> <<e, c, sids[m], w[sids[m]]>>]
        <3>1. ASSUME NEW m \in 1 .. Len(sids)
              PROVE  Row(e, c, sids[m], Capped(c, sums[c][sids[m]])) = <<e, c, sids[m], w[sids[m]]>>
            BY <2>3, <2>4, <2>6, <2>8 DEF Row
        <3> QED BY <2>9, <3>1, Zenon
    <2>11. RowsAt(out, sids, e, c, w)
        <3>1. c \in Int
            BY ColumnFacts
        <3>2. RowsAt([m \in 1 .. Len(sids) |-> <<e, c, sids[m], w[sids[m]]>>], sids, e, c, w)
            BY <2>4, <2>6, <2>8, <3>1, RowsFor
        <3> QED BY <2>10, <3>2, Zenon
    <2>12. Bears(out, {<<e, c, s>> : s \in T})
        BY <2>7, <2>11, RowsBear
    <2>13. CovKeys(Sample, R, D, e, c) = {<<e, c, s>> : s \in T}
        BY <1>2, Zenon DEF CovKeys
    <2>14. out \in Seq(CovFair(R, D))
        <3>1. out \in Seq(Rec) /\ Len(out) = Len(sids)
            BY <2>11, Zenon DEF RowsAt
        <3>2. ASSUME NEW m \in 1 .. Len(out) PROVE out[m] \in CovFair(R, D)
            <4>1. out[m] \in Rec /\ out[m] = <<e, c, sids[m], w[sids[m]]>> /\ sids[m] \in T
                BY <2>8, <2>11, <3>1 DEF RowsAt
            <4>2. w[sids[m]] = CovWorth(R, D, e, c, sids[m])
                BY <2>4, <2>6, <4>1
            <4> QED BY <4>1, <4>2 DEF CovFair
        <3> QED BY <3>1, <3>2
    <2> QED BY <2>12, <2>13, <2>14
<1> QED BY <1>1, <1>2

\* The records of two coverages, or of two events, have different keys.
LEMMA CovKeysDiffer ==
    ASSUME NEW S, NEW R, NEW D, NEW e, NEW c, NEW f, NEW d, e # f \/ c # d
    PROVE  CovKeys(S, R, D, e, c) \cap CovKeys(S, R, D, f, d) = {}
BY DEF CovKeys

\* The records that the code writes for an event.
LEMMA CovEventRows ==
    ASSUME opt_ \in Options, NEW e \in Int, NEW R, NEW D,
           \A i \in Item : <<e, KeyOf[i]>> \in R => e \in Events /\ D[e] \in Numbers,
           NEW sums, SumsIs(sums, Sample, R, D, e)
    PROVE  CovIs(outputcoveragedata(sums, e), Sample, R, D, {e})
<1> PICK l : l = Cardinality(Coverage)
    OBVIOUS
<1> PICK all : all = Sorted(Coverage)
    OBVIOUS
<1>1. l \in Nat /\ Lists(all, Coverage) /\ Len(all) = l
    <2>1. /\ Lists(Sorted(Coverage), Coverage)
          /\ Len(Sorted(Coverage)) = Cardinality(Coverage)
        BY ColumnFacts, SortedIs
    <2>2. Cardinality(Coverage) \in Nat
        BY ColumnFacts, FS_CardinalityType
    <2> QED BY <2>1, <2>2, Zenon
<1>2. /\ \A c \in Coverage : \E n \in 1 .. l : all[n] = c
      /\ \A n \in 1 .. l : all[n] \in Coverage
      /\ \A n, m \in 1 .. l : all[n] = all[m] => n = m
    <2>1. /\ all \in Seq(Coverage)
          /\ \A c \in Coverage : \E n \in 1 .. Len(all) : all[n] = c
          /\ \A n, m \in 1 .. Len(all) : all[n] = all[m] => n = m
        BY <1>1, Zenon DEF Lists
    <2>2. \A n \in 1 .. Len(all) : all[n] \in Coverage
        BY <2>1
    <2> QED BY <1>1, <2>1, <2>2, Zenon
<1> DEFINE q == [n \in 1 .. l |-> CovRows(sums, e, all[n])]
           W == [n \in 1 .. l |-> CovKeys(Sample, R, D, e, all[n])]
<1>3. outputcoveragedata(sums, e) = FlattenSeq(q)
    BY Zenon DEF outputcoveragedata, CovRows
<1>4. ASSUME NEW n \in 1 .. l PROVE Bears(q[n], W[n]) /\ q[n] \in Seq(CovFair(R, D))
    <2> PICK c : c = all[n]
        OBVIOUS
    <2>1. c \in Coverage
        BY <1>2
    <2>2. q[n] = CovRows(sums, e, c) /\ W[n] = CovKeys(Sample, R, D, e, c)
        OBVIOUS
    <2>3. ItemsAt(R, e, c) # {} => e \in Events /\ D[e] \in Numbers
        BY DEF ItemsAt
    <2>4. sums[c] = SumsAt(Sample, R, D, e, c)
        BY <2>1, Zenon DEF SumsIs
    <2> HIDE DEF q, W
    <2> QED BY <2>1, <2>2, <2>3, <2>4, CovRowsAre
<1>5. DOMAIN q = 1 .. l /\ q = [n \in 1 .. l |-> q[n]]
    BY Zenon
<1>6. ASSUME NEW m \in 1 .. l, NEW n \in 1 .. l, m # n PROVE W[m] \cap W[n] = {}
    <2> PICK c, d : c = all[m] /\ d = all[n]
        OBVIOUS
    <2>1. c # d
        BY <1>2, <1>6
    <2>2. W[m] = CovKeys(Sample, R, D, e, c) /\ W[n] = CovKeys(Sample, R, D, e, d)
        OBVIOUS
    <2> HIDE DEF W
    <2> QED BY <2>1, <2>2, CovKeysDiffer
<1>7. AllOf(W, l) = CovWanted(Sample, R, D, {e})
    <2> DEFINE K(c) == CovKeys(Sample, R, D, e, c)
    <2>1. \A n \in 1 .. l : W[n] = K(all[n])
        OBVIOUS
    <2>2. CovWanted(Sample, R, D, {e}) = UNION {K(c) : c \in Coverage}
        BY DEF CovWanted, CovEvent
    <2> HIDE DEF K, W
    <2>3. ASSUME NEW x PROVE x \in UNION {W[n] : n \in 1 .. l} <=> x \in UNION {K(c) : c \in Coverage}
        <3>1. x \in UNION {W[n] : n \in 1 .. l} <=> \E n \in 1 .. l : x \in K(all[n])
            BY <2>1
        <3>2. (\E n \in 1 .. l : x \in K(all[n])) <=> \E c \in Coverage : x \in K(c)
            BY <1>2
        <3> QED BY <3>1, <3>2
    <2>4. UNION {W[n] : n \in 1 .. l} = UNION {K(c) : c \in Coverage}
        BY <2>3
    <2> QED BY <2>2, <2>4, Zenon DEF AllOf
<1> HIDE DEF q, W
<1>8. AllBear(q, W, l)
    BY <1>4, <1>5, <1>6, Zenon DEF AllBear
<1>9. Bears(FlattenSeq(q), AllOf(W, l))
    BY <1>1, <1>8, BearsPieces, Zenon
<1>10. FlattenSeq(q) \in Seq(CovFair(R, D))
    <2>1. q \in [1 .. l -> Seq(CovFair(R, D))]
        BY <1>4, <1>5
    <2> QED BY <1>1, <2>1, FlattenIn, Zenon
<1> QED BY <1>3, <1>7, <1>9, <1>10, Zenon DEF CovIs

\* The records of another event.
LEMMA CovJoins ==
    ASSUME NEW S, NEW R, NEW D, NEW E, NEW e, e \notin E, NEW out, CovIs(out, S, R, D, E),
           NEW rows, CovIs(rows, S, R, D, {e})
    PROVE  CovIs(out \o rows, S, R, D, E \cup {e})
<1> PICK V, W : V = CovWanted(S, R, D, E) /\ W = CovWanted(S, R, D, {e})
    OBVIOUS
<1>1. Bears(out, V) /\ Bears(rows, W)
    BY DEF CovIs
<1>2. out \in Seq(CovFair(R, D)) /\ rows \in Seq(CovFair(R, D))
    BY Zenon DEF CovIs
<1>3. V \cap W = {}
    <2> SUFFICES ASSUME NEW x, x \in V, x \in W PROVE FALSE
        OBVIOUS
    <2>1. PICK f \in E : x \in CovEvent(S, R, D, f)
        BY DEF CovWanted
    <2>2. x \in CovEvent(S, R, D, e)
        BY DEF CovWanted
    <2>3. PICK c \in Coverage : x \in CovKeys(S, R, D, f, c)
        BY <2>1 DEF CovEvent
    <2>4. PICK d \in Coverage : x \in CovKeys(S, R, D, e, d)
        BY <2>2 DEF CovEvent
    <2>5. f # e
        OBVIOUS
    <2>6. CovKeys(S, R, D, f, c) \cap CovKeys(S, R, D, e, d) = {}
        BY <2>5, CovKeysDiffer
    <2> QED BY <2>3, <2>4, <2>6
<1>4. CovWanted(S, R, D, E \cup {e}) = V \cup W
    BY DEF CovWanted
<1>5. Bears(out \o rows, V \cup W)
    BY <1>1, <1>3, BearsBoth, Zenon
<1>6. out \o rows \in Seq(CovFair(R, D))
    BY <1>2
<1> QED BY <1>4, <1>5, <1>6, Zenon DEF CovIs

\* One record of them.
LEMMA CovWantedIs ==
    ASSUME NEW S, NEW R, NEW D, NEW E
    PROVE  \A e, c, s : <<e, c, s>> \in CovWanted(S, R, D, E) <=>
                /\ e \in E /\ c \in Coverage /\ ItemsAt(R, e, c) # {}
                /\ s \in CovWants(S, R, D, e, c)
<1> SUFFICES ASSUME NEW e, NEW c, NEW s
             PROVE  <<e, c, s>> \in CovWanted(S, R, D, E) <=>
                        /\ e \in E /\ c \in Coverage /\ ItemsAt(R, e, c) # {}
                        /\ s \in CovWants(S, R, D, e, c)
    OBVIOUS
<1>1. ASSUME NEW f, NEW d
      PROVE  <<e, c, s>> \in CovKeys(S, R, D, f, d) <=>
                e = f /\ c = d /\ ItemsAt(R, f, d) # {} /\ s \in CovWants(S, R, D, f, d)
    BY DEF CovKeys
<1>2. <<e, c, s>> \in CovWanted(S, R, D, E) <=>
            \E f \in E : \E d \in Coverage : <<e, c, s>> \in CovKeys(S, R, D, f, d)
    BY DEF CovWanted, CovEvent
<1> QED BY <1>1, <1>2, Zenon

\* What a coverage lost does not depend on other events.
LEMMA CovLossSame ==
    ASSUME NEW R, NEW D, NEW E, NEW T, NEW C, Agree(R, D, T, C, E), NEW e \in E
    PROVE  /\ \A c : ItemsAt(T, e, c) = ItemsAt(R, e, c)
           /\ \A c, s : CovWorth(T, C, e, c, s) = CovWorth(R, D, e, c, s)
<1>1. C[e] = D[e] /\ \A k : <<e, k>> \in T <=> <<e, k>> \in R
    BY Zenon DEF Agree
<1>2. \A c : ItemsAt(T, e, c) = ItemsAt(R, e, c)
    BY <1>1, Zenon DEF ItemsAt
<1>3. \A c, s : CovLoss(T, C, e, c, s) = CovLoss(R, D, e, c, s)
    BY <1>1, <1>2, Zenon DEF CovLoss
<1> QED BY <1>2, <1>3, Zenon DEF CovWorth

\* Nor do the records of coverages.
LEMMA CovStays ==
    ASSUME NEW out, NEW S, NEW R, NEW D, NEW E, CovIs(out, S, R, D, E), NEW T, NEW C,
           Agree(R, D, T, C, E)
    PROVE  CovIs(out, S, T, C, E)
<1>1. Bears(out, CovWanted(S, R, D, E)) /\ out \in Seq(CovFair(R, D))
    BY Zenon DEF CovIs
<1>2. ASSUME NEW e \in E PROVE CovEvent(S, T, C, e) = CovEvent(S, R, D, e)
    <2>1. ASSUME NEW c PROVE CovKeys(S, T, C, e, c) = CovKeys(S, R, D, e, c)
        <3>1. ItemsAt(T, e, c) = ItemsAt(R, e, c)
            BY CovLossSame
        <3>2. \A s : CovWorth(T, C, e, c, s) = CovWorth(R, D, e, c, s)
            BY CovLossSame
        <3>3. CovWants(S, T, C, e, c) = CovWants(S, R, D, e, c)
            BY <3>2 DEF CovWants
        <3> QED BY <3>1, <3>3, Zenon DEF CovKeys
    <2> QED BY <2>1, Zenon DEF CovEvent
<1>3. CovWanted(S, T, C, E) = CovWanted(S, R, D, E)
    BY <1>2, Zenon DEF CovWanted
<1>4. ASSUME NEW n \in 1 .. Len(out) PROVE out[n] \in CovFair(T, C)
    <2> PICK e, c, s : e = out[n][1] /\ c = out[n][2] /\ s = out[n][3]
        OBVIOUS
    <2>1. out[n] \in Rec /\ out[n][4] = CovWorth(R, D, e, c, s)
        <3>1. out[n] \in CovFair(R, D)
            BY <1>1
        <3> QED BY <3>1 DEF CovFair
    <2>2. <<e, c, s>> \in CovWanted(S, R, D, E)
        BY <1>1 DEF Bears, KeyAt
    <2>3. e \in E
        BY <2>2, CovWantedIs, Zenon
    <2>4. CovWorth(T, C, e, c, s) = CovWorth(R, D, e, c, s)
        BY <2>3, CovLossSame
    <2> QED BY <2>1, <2>4 DEF CovFair
<1>5. out \in Seq(CovFair(T, C))
    <2>1. out \in Seq(Rec)
        BY <1>1, Zenon DEF Bears
    <2> QED BY <1>4, <2>1
<1> QED BY <1>1, <1>3, <1>5, Zenon DEF CovIs

\* An event without items has no records.
LEMMA CovNothing ==
    ASSUME NEW out, NEW S, NEW R, NEW D, NEW E, NEW e,
           \A i \in Item : <<e, KeyOf[i]>> \notin R, CovIs(out, S, R, D, E \cup {e})
    PROVE  CovIs(out, S, R, D, E)
<1>1. \A c : CovKeys(S, R, D, e, c) = {}
    BY DEF CovKeys, ItemsAt
<1>2. CovEvent(S, R, D, e) = {}
    BY <1>1 DEF CovEvent
<1>3. CovWanted(S, R, D, E \cup {e}) = CovWanted(S, R, D, E)
    BY <1>2 DEF CovWanted
<1> QED BY <1>3, Zenon DEF CovIs

\* What the records of an event and sample of a coverage say.
LEMMA CovReportedIs ==
    ASSUME NEW S, NEW R, NEW D, NEW E, NEW out, CovIs(out, S, R, D, E),
           NEW e, NEW c, NEW s, <<e, c, s>> \in CovWanted(S, R, D, E)
    PROVE  Reported(out, e, c, s) = CovWorth(R, D, e, c, s)
<1>1. Bears(out, CovWanted(S, R, D, E)) /\ out \in Seq(CovFair(R, D))
    BY Zenon DEF CovIs
<1> DEFINE loss == [n \in 1 .. Len(out) |-> out[n][4]]
<1>2. Reported(out, e, c, s) = SumOf(loss, RowsOf(out, e, c, s))
    BY Zenon DEF Reported
<1>3. PICK n \in 1 .. Len(out) : RowsOf(out, e, c, s) = {n} /\ KeyAt(out[n]) = <<e, c, s>>
    BY <1>1, BearsOne
<1>4. out[n] \in Rec /\ out[n][4] = CovWorth(R, D, out[n][1], out[n][2], out[n][3])
    <2>1. out[n] \in CovFair(R, D)
        BY <1>1
    <2> QED BY <2>1, Zenon DEF CovFair
<1>5. out[n][1] = e /\ out[n][2] = c /\ out[n][3] = s
    BY <1>3 DEF KeyAt
<1>6. loss[n] = CovWorth(R, D, e, c, s) /\ loss[n] \in Int
    BY <1>4, <1>5 DEF Rec
<1> HIDE DEF loss
<1>7. SumOf(loss, {n}) = loss[n]
    BY <1>6, SumOne
<1> QED BY <1>2, <1>3, <1>6, <1>7, Zenon

\* The items of a coverage, as the item stream has them, sum to its loss.
LEMMA ItemsSum ==
    ASSUME opt_ \in Options, NEW E, NEW j \in Streams, \A i \in Item : GroupIn(i, j) = GroupOf[i],
           StreamIs(itemout, Sample, Pairs(read), drawn, j, E), itemout \in Seq(Fair(j, drawn)),
           NEW e \in E, e \in Events, drawn[e] \in Numbers,
           NEW c \in Coverage, NEW s \in {-1} \cup Sample, NEW items,
           items = {i \in Item : CoverageOf[i] = c},
           NEW f, \A i \in items : f[i] = Reported(itemout, e, i, s)
    PROVE  SumOf(f, items) = CovLoss(Pairs(read), drawn, e, c, s)
<1> PICK h : h = ItemLosses(e, s, drawn[e])
    OBVIOUS
<1> PICK X, Y : X = ItemsAt(Pairs(read), e, c) /\ Y = items \ X
    OBVIOUS
<1>1. IsFiniteSet(X) /\ IsFiniteSet(Y)
    <2>1. IsFiniteSet(ItemsAt(Pairs(read), e, c))
        BY ItemsFinite
    <2>2. IsFiniteSet(items)
        BY ColumnFacts, FS_Subset
    <2>3. IsFiniteSet(items \ X)
        BY <2>2, FS_Difference
    <2> QED BY <2>1, <2>3, Zenon
<1>2. X \subseteq items /\ X \cup Y = items /\ X \cap Y = {} /\ items \subseteq Item
    BY DEF ItemsAt
<1>3. ASSUME NEW i \in items
      PROVE  f[i] = IF <<e, KeyOf[i]>> \in Pairs(read)
                    THEN LossOf(e, i, s, GroupIn(i, j), drawn[e]) ELSE 0
    <2>1. Reported(itemout, e, i, s) = IF <<e, KeyOf[i]>> \in Pairs(read)
                    THEN LossOf(e, i, s, GroupIn(i, j), drawn[e]) ELSE 0
        <3>1. i \in Item /\ s \in {-2, -1} \cup Sample
            BY <1>2
        <3> QED BY <3>1, ReportedIs
    <2> QED BY <2>1
<1>4. ASSUME NEW i \in X PROVE f[i] \in Int /\ f[i] = h[i]
    <2>1. i \in items /\ i \in Item /\ <<e, KeyOf[i]>> \in Pairs(read)
        BY <1>2 DEF ItemsAt
    <2>2. f[i] = LossOf(e, i, s, GroupIn(i, j), drawn[e])
        BY <1>3, <2>1
    <2>3. /\ ItemLosses(e, s, drawn[e])[i] = LossOf(e, i, s, GroupOf[i], drawn[e])
          /\ ItemLosses(e, s, drawn[e])[i] \in Int
        BY <2>1, ItemLossesAre
    <2>4. GroupIn(i, j) = GroupOf[i]
        BY <2>1
    <2> QED BY <2>2, <2>3, <2>4, Zenon
<1>5. ASSUME NEW i \in Y PROVE f[i] = 0
    <2>1. i \in items /\ <<e, KeyOf[i]>> \notin Pairs(read)
        BY DEF ItemsAt
    <2> QED BY <1>3, <2>1
<1>6. \A i \in X \cup Y : f[i] \in Int
    BY <1>4, <1>5
<1>7. SumOf(f, X \cup Y) = SumOf(f, X) + SumOf(f, Y)
    <2>1. IsFiniteSet(X) /\ IsFiniteSet(Y) /\ X \cap Y = {}
        BY <1>1, <1>2
    <2> QED BY <1>6, <2>1, SumBoth
<1>8. SumOf(f, X) = SumOf(h, X) /\ SumOf(f, X) \in Int
    BY <1>1, <1>4, SumSame, SumType, Zenon
<1>9. SumOf(f, Y) = 0
    BY <1>1, <1>5, SumZero, Zenon
<1>10. SumOf(h, X) = CovLoss(Pairs(read), drawn, e, c, s)
    BY Zenon DEF CovLoss
<1>11. SumOf(f, items) = SumOf(f, X) + SumOf(f, Y)
    BY <1>2, <1>7, Zenon
<1>12. SumOf(f, items) = SumOf(h, X)
    BY <1>8, <1>9, <1>11
<1> QED BY <1>10, <1>12, Zenon

\* A coverage that an event touches has items that met a CDF.
LEMMA AffectedIs ==
    ASSUME NEW e, NEW c
    PROVE  c \in Affected(e) <=> ItemsAt(Pairs(read), e, c) # {}
<1>1. c \in Affected(e) <=> \E i \in Item : i \in Arrived(e) /\ CoverageOf[i] = c
    BY DEF Affected, Arrived
<1>2. \A i \in Item : i \in Arrived(e) <=> <<e, KeyOf[i]>> \in Pairs(read)
    BY ArrivedIs
<1> QED BY <1>1, <1>2 DEF ItemsAt

\* The property, for one event, coverage and sample.
CovSum(e, c, s) ==
    LET items == {i \in Item : CoverageOf[i] = c}
        sum == Least(Tiv[c], SumOf([i \in items |-> Reported(itemout, e, i, s)], items))
        present == c \in Affected(e) /\ (s = -1 \/ sum >= loss_threshold)
    IN /\ Cardinality(RowsOf(covout, e, c, s)) = IF present THEN 1 ELSE 0
       /\ present => Reported(covout, e, c, s) = sum

\* A record of a coverage against the records of its items.
LEMMA CovSumIs ==
    ASSUME opt_ \in Options, NEW E, NEW j \in Streams, \A i \in Item : GroupIn(i, j) = GroupOf[i],
           StreamIs(itemout, Sample, Pairs(read), drawn, j, E), itemout \in Seq(Fair(j, drawn)),
           NEW O, CovIs(covout, Sample, Pairs(read), drawn, O),
           NEW e \in E, e \in O, e \in Events, drawn[e] \in Numbers,
           NEW c \in Coverage, NEW s \in {-1} \cup Sample
    PROVE  CovSum(e, c, s)
<1> DEFINE items == {i \in Item : CoverageOf[i] = c}
           sum == Least(Tiv[c], SumOf([i \in items |-> Reported(itemout, e, i, s)], items))
           present == c \in Affected(e) /\ (s = -1 \/ sum >= loss_threshold)
<1> SUFFICES /\ Cardinality(RowsOf(covout, e, c, s)) = IF present THEN 1 ELSE 0
             /\ present => Reported(covout, e, c, s) = sum
    BY Zenon DEF CovSum
<1> PICK R : R = Pairs(read)
    OBVIOUS
<1> DEFINE f == [i \in items |-> Reported(itemout, e, i, s)]
<1>1. SumOf(f, items) = CovLoss(R, drawn, e, c, s)
    <2>1. \A i \in items : f[i] = Reported(itemout, e, i, s)
        BY Zenon
    <2> HIDE DEF f
    <2> QED BY <2>1, ItemsSum
<1>2. sum = CovWorth(R, drawn, e, c, s)
    <2>1. sum = Least(Tiv[c], SumOf(f, items))
        BY Zenon
    <2> HIDE DEF f
    <2>2. CovLoss(R, drawn, e, c, s) \in Int
        BY CovLossType
    <2>3. Tiv[c] \in Int
        BY ColumnFacts
    <2> QED BY <1>1, <2>1, <2>2, <2>3 DEF CovWorth, Capped, Least
<1> HIDE DEF f
<1>3. <<e, c, s>> \in CovWanted(Sample, R, drawn, O) <=> present
    <2>1. <<e, c, s>> \in CovWanted(Sample, R, drawn, O) <=>
            /\ ItemsAt(R, e, c) # {}
            /\ s \in CovWants(Sample, R, drawn, e, c)
        BY CovWantedIs, Zenon
    <2>2. c \in Affected(e) <=> ItemsAt(R, e, c) # {}
        BY AffectedIs, Zenon
    <2>3. s \in CovWants(Sample, R, drawn, e, c) <=> s = -1 \/ sum >= loss_threshold
        BY <1>2, Zenon DEF CovWants
    <2> QED BY <2>1, <2>2, <2>3, Zenon
<1>4. Cardinality(RowsOf(covout, e, c, s)) =
            IF <<e, c, s>> \in CovWanted(Sample, R, drawn, O) THEN 1 ELSE 0
    <2>1. Bears(covout, CovWanted(Sample, R, drawn, O))
        BY Zenon DEF CovIs
    <2> QED BY <2>1, BearsCount
<1>5. <<e, c, s>> \in CovWanted(Sample, R, drawn, O) =>
            Reported(covout, e, c, s) = CovWorth(R, drawn, e, c, s)
    BY CovReportedIs
<1> QED BY <1>2, <1>3, <1>4, <1>5, Zenon

-----------------------------------------------------------------------------
(* The inductive invariant *)

\* The events read; those whose records are in the item streams; the one whose
\* sums and items are held.
Seen(r) == {r[n][1] : n \in 1 .. Len(r)}
Written == IF mode = 0 THEN Seen(read) ELSE Finished
Current == IF done THEN 0 ELSE last_event_id

\* What is read is of the events and keys, and their numbers are drawn.
Shape ==
    /\ opt_ \in Options /\ done \in BOOLEAN
    /\ read \in Seq(Events \X Keys)
    /\ drawn = [e \in Events |-> drawn[e]]
    /\ \A e \in Seen(read) : drawn[e] \in Numbers
    /\ (last_event_id = -1 /\ read = <<>>) \/ last_event_id \in Seen(read)
\* Each stream bears what was written of the CDFs read, unallocated in mode 0.
Streamed ==
    \A j \in Streams :
        /\ StreamIs(Out(j), Sample, Pairs(read), drawn, j, Written)
        /\ mode = 0 => Out(j) \in Seq(Fair(j, drawn))
\* The sums of the current event, and the records of those that are over.
Summed ==
    coverageLevelOutput /\ ~correlatedLevelOutput =>
        /\ SumsIs(cov_, Sample, Pairs(read), drawn, Current)
        /\ CovIs(covout, Sample, Pairs(read), drawn, Finished)
\* The items of the current event.
Held == mode = 1 => HeldIs(mode1_stats_, mode1UsedCoverageIDs_, Current, Pairs(read))
IInv == Shape /\ Streamed /\ Summed /\ Held

\* The command line does not change, nor what it decides.
LEMMA Rigid ==
    ASSUME opt_' = opt_
    PROVE  /\ Sample' = Sample /\ mode' = mode /\ Numbers' = Numbers /\ Streams' = Streams
           /\ (coverageLevelOutput <=> coverageLevelOutput')
           /\ (correlatedLevelOutput <=> correlatedLevelOutput')
<1>1. Sample' = Sample
    BY DEF Sample, samplesize
<1>2. Groups' = Groups
    BY DEF Groups, correlatedLevelOutput
<1>3. Numbers' = Numbers
    BY <1>1, <1>2, Zenon DEF Numbers
<1>4. Streams' = Streams
    BY DEF Streams, correlatedLevelOutput
<1>5. mode' = mode
    BY DEF mode
<1> QED BY <1>1, <1>3, <1>4, <1>5 DEF coverageLevelOutput, correlatedLevelOutput

\* One more CDF.
IsMore(t, r, e, k) ==
    /\ t \in Seq(Events \X Keys) /\ Pairs(t) = Pairs(r) \cup {<<e, k>>} /\ Seen(t) = Seen(r) \cup {e}

\* Appending a CDF adds it to what is read.
LEMMA OneMore ==
    ASSUME NEW r \in Seq(Events \X Keys), NEW e \in Events, NEW k \in Keys, NEW t, t = Append(r, <<e, k>>)
    PROVE  IsMore(t, r, e, k)
<1>1. t \in Seq(Events \X Keys) /\ Len(t) = Len(r) + 1 /\ Len(r) \in Nat
    OBVIOUS
<1>2. t[Len(r) + 1] = <<e, k>> /\ \A n \in 1 .. Len(r) : t[n] = r[n]
    OBVIOUS
<1>3. 1 .. Len(t) = (1 .. Len(r)) \cup {Len(r) + 1}
    BY <1>1
<1>4. Pairs(t) = Pairs(r) \cup {<<e, k>>}
    BY <1>2, <1>3 DEF Pairs
<1>5. Seen(t) = Seen(r) \cup {e}
    <2>1. <<e, k>>[1] = e
        OBVIOUS
    <2> QED BY <1>2, <1>3, <2>1 DEF Seen
<1> QED BY <1>1, <1>4, <1>5, Zenon DEF IsMore

\* The events seen are those of the CDFs read.
LEMMA SeenIs ==
    ASSUME NEW r \in Seq(Events \X Keys)
    PROVE  /\ Seen(r) \subseteq Events
           /\ \A e, k : <<e, k>> \in Pairs(r) => e \in Seen(r)
<1>1. \A n \in 1 .. Len(r) : r[n] \in Events \X Keys
    OBVIOUS
<1>2. \A n \in 1 .. Len(r) : r[n][1] \in Events
    BY <1>1
<1> QED BY <1>2 DEF Seen, Pairs

\* A CDF that is sent is a new one, of the current event or of a new one.
LEMMA SentIs ==
    ASSUME read \in Seq(Events \X Keys), NEW e \in Events, NEW k \in Keys, Sent(e, k)
    PROVE  <<e, k>> \notin Pairs(read) /\ (e \in Seen(read) => e = last_event_id)
<1>1. \A n \in 1 .. Len(read) : read[n][1] = e => read[n][2] < k
    BY DEF Sent
<1>2. <<e, k>> \notin Pairs(read)
    <2> SUFFICES ASSUME NEW n \in 1 .. Len(read), read[n] = <<e, k>> PROVE FALSE
        BY DEF Pairs
    <2>1. read[n][1] = e /\ read[n][2] = k
        OBVIOUS
    <2> QED BY <1>1, <2>1, ColumnFacts
<1> QED BY <1>2 DEF Sent, Seen

\* What a turn of the read loop makes of the events and their numbers.
Turned(e, k, numbers) ==
    /\ opt_ \in Options /\ opt_' = opt_ /\ ~done /\ ~done'
    /\ done' \in BOOLEAN /\ last_event_id' = e
    /\ read' \in Seq(Events \X Keys)
    /\ Pairs(read') = Pairs(read) \cup {<<e, k>>} /\ <<e, k>> \notin Pairs(read)
    /\ Seen(read') = Seen(read) \cup {e}
    /\ numbers \in Numbers /\ drawn' = [drawn EXCEPT ![e] = numbers]
    /\ drawn' = [f \in Events |-> drawn'[f]] /\ drawn'[e] = numbers
    /\ \A f \in Seen(read) : drawn'[f] = drawn[f]
    /\ e \notin Finished'

\* A CDF that getmodel may send makes a turn, and ends the event before it if
\* that is another one.
LEMMA TurnIs ==
    ASSUME Shape, ~done, UNCHANGED <<opt_, done>>, NEW e \in Events, NEW k \in Keys, Sent(e, k),
           NEW numbers \in Drawn(e), drawn' = [drawn EXCEPT ![e] = numbers],
           last_event_id' = e, read' = Append(read, <<e, k>>)
    PROVE  /\ Turned(e, k, numbers)
           /\ Ends(e) => /\ last_event_id \in Seen(read) /\ last_event_id \in Events
                         /\ last_event_id \notin Finished /\ e \notin Seen(read)
                         /\ Finished' = Finished \cup {last_event_id}
           /\ ~Ends(e) => /\ Finished' = Finished
                          /\ e = last_event_id \/ (read = <<>> /\ last_event_id = -1)
<1>1. /\ opt_ \in Options /\ read \in Seq(Events \X Keys)
      /\ drawn = [f \in Events |-> drawn[f]]
      /\ \A f \in Seen(read) : drawn[f] \in Numbers
      /\ (last_event_id = -1 /\ read = <<>>) \/ last_event_id \in Seen(read)
    BY Zenon DEF Shape
<1>2. /\ read' \in Seq(Events \X Keys) /\ Pairs(read') = Pairs(read) \cup {<<e, k>>}
      /\ Seen(read') = Seen(read) \cup {e}
    <2>1. IsMore(read', read, e, k)
        BY <1>1, OneMore, Zenon
    <2> QED BY <2>1, Zenon DEF IsMore
<1>3. <<e, k>> \notin Pairs(read) /\ (e \in Seen(read) => e = last_event_id)
    BY <1>1, SentIs
<1>4. numbers \in Numbers /\ (e \in Seen(read) => numbers = drawn[e])
    <2>1. CASE e = last_event_id
        <3>1. numbers = drawn[e]
            BY <2>1 DEF Drawn
        <3>2. e # -1
            BY ColumnFacts
        <3> QED BY <1>1, <2>1, <3>1, <3>2
    <2>2. CASE e # last_event_id
        BY <1>3, <2>2 DEF Drawn
    <2> QED BY <2>1, <2>2
<1>5. /\ drawn' = [f \in Events |-> drawn'[f]] /\ drawn'[e] = numbers
      /\ \A f \in Events : f # e => drawn'[f] = drawn[f]
    BY <1>1
<1>6. \A f \in Seen(read) : f \in Events /\ f > 0
    BY <1>1, SeenIs, ColumnFacts
<1>7. \A f \in Seen(read) : drawn'[f] = drawn[f]
    BY <1>4, <1>5, <1>6
<1>8. Finished = Seen(read) \ {last_event_id} /\ Finished' = Seen(read') \ {e}
    BY DEF Finished, Seen
<1>9. Turned(e, k, numbers)
    <2>1. done' \in BOOLEAN
        BY Zenon DEF Shape
    <2> QED BY <1>1, <1>2, <1>3, <1>4, <1>5, <1>7, <1>8, <2>1 DEF Turned
<1>10. CASE Ends(e)
    <2>1. e # last_event_id /\ last_event_id > 0
        BY <1>10 DEF Ends
    <2>2. last_event_id \in Seen(read) /\ last_event_id \in Events
        BY <1>1, <1>6, <2>1
    <2>3. e \notin Seen(read)
        BY <1>3, <2>1
    <2> QED BY <1>2, <1>8, <1>9, <1>10, <2>2, <2>3
<1>11. CASE ~Ends(e)
    <2>1. e = last_event_id \/ ~(last_event_id > 0)
        BY <1>11 DEF Ends
    <2>2. e = last_event_id \/ (read = <<>> /\ last_event_id = -1)
        BY <1>1, <1>6, <2>1
    <2>3. Finished' = Finished
        <3>1. CASE e = last_event_id
            BY <1>2, <1>8, <3>1
        <3>2. CASE read = <<>>
            <4>1. Seen(read) = {}
                BY <3>2 DEF Seen
            <4> QED BY <1>2, <1>8, <4>1
        <3> QED BY <2>2, <3>1, <3>2
    <2> QED BY <1>9, <1>11, <2>2, <2>3
<1> QED BY <1>10, <1>11

-----------------------------------------------------------------------------
(* A turn of the read loop *)

\* What a turn leaves of the other events.
LEMMA OthersStay ==
    ASSUME NEW e, NEW k, NEW numbers, Turned(e, k, numbers), NEW E, E \subseteq Seen(read), e \notin E
    PROVE  Agree(Pairs(read), drawn, Pairs(read'), drawn', E)
<1>1. Pairs(read') = Pairs(read) \cup {<<e, k>>} /\ \A f \in Seen(read) : drawn'[f] = drawn[f]
    BY Zenon DEF Turned
<1> PICK R, T, C : R = Pairs(read) /\ T = Pairs(read') /\ C = drawn'
    OBVIOUS
<1>2. \A f \in E : C[f] = drawn[f]
    BY <1>1
<1>3. \A f \in E : \A o : <<f, o>> \in T <=> <<f, o>> \in R
    BY <1>1
<1> QED BY <1>2, <1>3, Zenon DEF Agree

\* The shape of the state after a turn.
LEMMA ShapeTurned ==
    ASSUME Shape, NEW e \in Events, NEW k \in Keys, NEW numbers, Turned(e, k, numbers)
    PROVE  Shape'
<1>1. /\ opt_' = opt_ /\ opt_ \in Options /\ ~done' /\ last_event_id' = e
      /\ read' \in Seq(Events \X Keys) /\ Seen(read') = Seen(read) \cup {e}
      /\ numbers \in Numbers /\ drawn' = [f \in Events |-> drawn'[f]] /\ drawn'[e] = numbers
      /\ \A f \in Seen(read) : drawn'[f] = drawn[f]
    BY Zenon DEF Turned
<1>2. \A f \in Seen(read) : drawn[f] \in Numbers
    BY Zenon DEF Shape
<1>3. Numbers' = Numbers
    BY <1>1, Rigid, Zenon
<1>4. \A f \in Seen(read') : drawn'[f] \in Numbers'
    <2> SUFFICES ASSUME NEW f \in Seen(read') PROVE drawn'[f] \in Numbers
        BY <1>3, Zenon
    <2> QED BY <1>1, <1>2
<1>5. last_event_id' \in Seen(read') /\ opt_' \in Options /\ done' \in BOOLEAN
    <2>1. done' \in BOOLEAN
        BY Zenon DEF Turned
    <2> QED BY <1>1, <2>1
<1> QED BY <1>1, <1>4, <1>5, Zenon DEF Shape

\* A stream in mode 0.
LEMMA SampledTurned ==
    ASSUME Shape, NEW e \in Events, NEW k \in Keys, NEW numbers, Turned(e, k, numbers),
           NEW j \in Streams, NEW out, StreamIs(out, Sample, Pairs(read), drawn, j, Seen(read)),
           out \in Seq(Fair(j, drawn))
    PROVE  /\ StreamIs(out \o RecordRows(e, k, j, numbers), Sample, Pairs(read'), drawn', j, Seen(read'))
           /\ out \o RecordRows(e, k, j, numbers) \in Seq(Fair(j, drawn'))
<1> PICK C : C = drawn'
    OBVIOUS
<1>1. /\ opt_ \in Options /\ <<e, k>> \notin Pairs(read) /\ numbers \in Numbers
      /\ Pairs(read') = Pairs(read) \cup {<<e, k>>} /\ Seen(read') = Seen(read) \cup {e}
      /\ C[e] = numbers /\ \A f \in Seen(read) : C[f] = drawn[f]
    BY DEF Turned
<1>2. \A o : <<e, o>> \in Pairs(read) => e \in Seen(read)
    <2>1. read \in Seq(Events \X Keys)
        BY Zenon DEF Shape
    <2> QED BY <2>1, SeenIs
<1>3. C[e] \in Numbers
    BY <1>1
<1>4. StreamIs(out \o RecordRows(e, k, j, C[e]), Sample, Pairs(read) \cup {<<e, k>>}, C, j, Seen(read) \cup {e})
    BY <1>1, <1>2, <1>3, StreamGrows
<1>5. out \o RecordRows(e, k, j, C[e]) \in Seq(Fair(j, C))
    BY <1>1, <1>3, FairGrows
<1> QED BY <1>1, <1>4, <1>5, Zenon

\* The streams in mode 0.
LEMMA StreamedTurned ==
    ASSUME Shape, Streamed, mode = 0, NEW e \in Events, NEW k \in Keys, NEW numbers,
           Turned(e, k, numbers), \A j \in Streams : Out(j)' = Out(j) \o RecordRows(e, k, j, numbers)
    PROVE  Streamed'
<1>1. Sample' = Sample /\ mode' = mode /\ Streams' = Streams
    BY Rigid, Zenon DEF Turned
<1>2. Written = Seen(read) /\ Written' = Seen(read')
    BY <1>1 DEF Written
<1>3. ASSUME NEW j \in Streams
      PROVE  /\ StreamIs(Out(j)', Sample, Pairs(read'), drawn', j, Seen(read'))
             /\ Out(j)' \in Seq(Fair(j, drawn'))
    <2> PICK out : out = Out(j)
        OBVIOUS
    <2>1. StreamIs(out, Sample, Pairs(read), drawn, j, Seen(read)) /\ out \in Seq(Fair(j, drawn))
        <3>1. /\ StreamIs(Out(j), Sample, Pairs(read), drawn, j, Written)
              /\ mode = 0 => Out(j) \in Seq(Fair(j, drawn))
            BY Zenon DEF Streamed
        <3> QED BY <1>2, <3>1, Zenon
    <2>2. Out(j)' = out \o RecordRows(e, k, j, numbers)
        BY Zenon
    <2>3. /\ StreamIs(out \o RecordRows(e, k, j, numbers), Sample, Pairs(read'), drawn', j, Seen(read'))
          /\ out \o RecordRows(e, k, j, numbers) \in Seq(Fair(j, drawn'))
        BY <2>1, SampledTurned
    <2> QED BY <2>2, <2>3, Zenon
<1> QED BY <1>1, <1>2, <1>3, Zenon DEF Streamed

\* An event without items holds nothing.
LEMMA HeldNone ==
    ASSUME NEW stats, NEW used, NEW e, NEW R, HeldIs(stats, used, e, R),
           \A i \in Item : <<e, KeyOf[i]>> \notin R
    PROVE  stats = NoStats /\ used = <<>>
<1>1. /\ stats = [c \in Coverage |-> stats[c]]
      /\ \A c \in Coverage : StatsIs(stats[c], e, ItemsAt(R, e, c))
      /\ Lists(used, CoveragesAt(R, e))
    BY Zenon DEF HeldIs
<1>2. ASSUME NEW c PROVE ItemsAt(R, e, c) = {}
    BY Zenon DEF ItemsAt
<1>3. CoveragesAt(R, e) = {}
    BY <1>2, Zenon DEF CoveragesAt
<1>4. \A c \in Coverage : stats[c] = <<>>
    BY <1>1, <1>2, StatsEmpty
<1>5. used = <<>>
    <2>1. used \in Seq({})
        BY <1>1, <1>3, Zenon DEF Lists
    <2> QED BY <2>1
<1> QED BY <1>1, <1>4, <1>5 DEF NoStats

\* Nor has it sums.
LEMMA SumsNone ==
    ASSUME NEW sums, NEW R, NEW D, NEW e, SumsIs(sums, Sample, R, D, e), \A i \in Item : <<e, KeyOf[i]>> \notin R
    PROVE  sums = NoSums
<1>1. sums = [c \in Coverage |-> sums[c]] /\ \A c \in Coverage : sums[c] = SumsAt(Sample, R, D, e, c)
    BY Zenon DEF SumsIs
<1>2. ASSUME NEW c PROVE ItemsAt(R, e, c) = {}
    BY Zenon DEF ItemsAt
<1>3. \A c \in Coverage : sums[c] = <<>>
    BY <1>1, <1>2 DEF SumsAt
<1> QED BY <1>1, <1>3 DEF NoSums

\* Sums and records of the coverages when an event is over: its records are
\* written and the sums are those of another, that has no CDF yet.
LEMMA SummedOver ==
    ASSUME opt_ \in Options, NEW e \in Int, NEW R, NEW D,
           \A i \in Item : <<e, KeyOf[i]>> \in R => e \in Events /\ D[e] \in Numbers,
           NEW sums, SumsIs(sums, Sample, R, D, e), NEW E, e \notin E, NEW out, CovIs(out, Sample, R, D, E)
    PROVE  CovIs(out \o outputcoveragedata(sums, e), Sample, R, D, E \cup {e})
<1>1. CovIs(outputcoveragedata(sums, e), Sample, R, D, {e})
    BY CovEventRows
<1> QED BY <1>1, CovJoins

\* The coverages, after a turn in mode 0.
LEMMA SummedTurned ==
    ASSUME Shape, Summed, NEW e \in Events, NEW k \in Keys, NEW numbers, Turned(e, k, numbers),
           Ends(e) => /\ last_event_id \in Seen(read) /\ last_event_id \in Events
                      /\ last_event_id \notin Finished /\ e \notin Seen(read)
                      /\ Finished' = Finished \cup {last_event_id},
           ~Ends(e) => /\ Finished' = Finished
                       /\ e = last_event_id \/ (read = <<>> /\ last_event_id = -1),
           covout' = IF Ends(e) THEN covout \o outputcoveragedata(cov_, last_event_id) ELSE covout,
           cov_' = gencovoutput(IF Ends(e) THEN NoSums ELSE cov_, e, k, numbers)
    PROVE  Summed'
<1> PICK R, C : R = Pairs(read) /\ C = drawn'
    OBVIOUS
<1>1. /\ opt_ \in Options /\ opt_' = opt_ /\ ~done /\ ~done' /\ last_event_id' = e
      /\ Pairs(read') = R \cup {<<e, k>>} /\ <<e, k>> \notin R
      /\ numbers \in Numbers /\ C[e] = numbers /\ e \notin Finished'
      /\ \A f \in Seen(read) : C[f] = drawn[f]
    BY DEF Turned
<1>2. /\ Sample' = Sample /\ (coverageLevelOutput <=> coverageLevelOutput')
      /\ (correlatedLevelOutput <=> correlatedLevelOutput')
    BY <1>1, Rigid
<1> SUFFICES ASSUME coverageLevelOutput, ~correlatedLevelOutput
             PROVE  /\ SumsIs(cov_', Sample, Pairs(read'), C, e)
                    /\ CovIs(covout', Sample, Pairs(read'), C, Finished')
    <2>1. Current' = e
        BY <1>1 DEF Current
    <2>2. (coverageLevelOutput' /\ ~correlatedLevelOutput') =>
                /\ SumsIs(cov_', Sample', Pairs(read'), drawn', Current')
                /\ CovIs(covout', Sample', Pairs(read'), drawn', Finished')
        BY <1>2, <2>1
    <2> QED BY <2>2, Zenon DEF Summed
<1>3. Current = last_event_id
    BY <1>1 DEF Current
<1>4. /\ SumsIs(cov_, Sample, R, drawn, last_event_id)
      /\ CovIs(covout, Sample, R, drawn, Finished)
    BY <1>3, Zenon DEF Summed
<1>5. read \in Seq(Events \X Keys) /\ \A f \in Seen(read) : drawn[f] \in Numbers
    BY Zenon DEF Shape
<1>6. \A f, o : <<f, o>> \in R => f \in Seen(read)
    BY <1>5, SeenIs
<1> PICK sums : sums = IF Ends(e) THEN NoSums ELSE cov_
    OBVIOUS
<1>7. SumsIs(sums, Sample, R, drawn, e) /\ CovIs(covout', Sample, R, drawn, Finished')
    <2>1. CASE Ends(e)
        <3>1. \A i \in Item : <<e, KeyOf[i]>> \notin R
            BY <1>6, <2>1
        <3>2. SumsIs(NoSums, Sample, R, drawn, e)
            BY <3>1, SumsNothing
        <3>3. last_event_id \in Int
            BY <2>1, ColumnFacts
        <3>4. \A i \in Item : <<last_event_id, KeyOf[i]>> \in R =>
                    last_event_id \in Events /\ drawn[last_event_id] \in Numbers
            BY <1>5, <2>1
        <3>5. CovIs(covout \o outputcoveragedata(cov_, last_event_id), Sample, R, drawn,
                    Finished \cup {last_event_id})
            <4> PICK f, E : f = last_event_id /\ E = Finished
                OBVIOUS
            <4>1. f \notin E /\ f \in Int /\ CovIs(covout, Sample, R, drawn, E) /\ SumsIs(cov_, Sample, R, drawn, f)
                BY <1>4, <2>1, <3>3
            <4>2. \A i \in Item : <<f, KeyOf[i]>> \in R => f \in Events /\ drawn[f] \in Numbers
                BY <3>4
            <4>3. CovIs(covout \o outputcoveragedata(cov_, f), Sample, R, drawn, E \cup {f})
                BY <1>1, <4>1, <4>2, SummedOver
            <4> QED BY <4>3, Zenon
        <3> QED BY <2>1, <3>2, <3>5, Zenon
    <2>2. CASE ~Ends(e)
        <3>1. SumsIs(cov_, Sample, R, drawn, e)
            <4>1. CASE e = last_event_id
                BY <1>4, <4>1, Zenon
            <4>2. CASE read = <<>>
                <5>1. R = {}
                    BY <4>2 DEF Pairs
                <5>2. cov_ = NoSums
                    <6>1. \A i \in Item : <<last_event_id, KeyOf[i]>> \notin R
                        BY <5>1
                    <6> QED BY <1>4, <6>1, SumsNone, Zenon
                <5>3. SumsIs(NoSums, Sample, R, drawn, e)
                    <6>1. \A i \in Item : <<e, KeyOf[i]>> \notin R
                        BY <5>1
                    <6> QED BY <6>1, SumsNothing
                <5> QED BY <5>2, <5>3, Zenon
            <4> QED BY <2>2, <4>1, <4>2
        <3> QED BY <1>4, <2>2, <3>1, Zenon
    <2> QED BY <2>1, <2>2
<1>8. SumsIs(cov_', Sample, Pairs(read'), C, e)
    <2>1. C[e] \in Numbers /\ \A o : <<e, o>> \in R => drawn[e] = C[e]
        BY <1>1, <1>6
    <2>2. SumsIs(gencovoutput(sums, e, k, C[e]), Sample, R \cup {<<e, k>>}, C, e)
        BY <1>1, <1>7, <2>1, SumsGrow
    <2>3. cov_' = gencovoutput(sums, e, k, C[e])
        BY <1>1, Zenon
    <2> QED BY <1>1, <2>2, <2>3, Zenon
<1>9. CovIs(covout', Sample, Pairs(read'), C, Finished')
    <2>1. Finished' \subseteq Seen(read)
        BY DEF Finished, Seen
    <2>2. Agree(Pairs(read), drawn, Pairs(read'), drawn', Finished')
        BY <1>1, <2>1, OthersStay
    <2>3. Agree(R, drawn, Pairs(read'), C, Finished')
        BY <2>2, Zenon
    <2> QED BY <1>7, <2>3, CovStays
<1> QED BY <1>8, <1>9

\* An event that holds nothing has no rows in mode 1.
LEMMA EventRowsNone ==
    ASSUME mode1UsedCoverageIDs_ = <<>>, NEW e, NEW j
    PROVE  outputmode1data(e, j) = <<>>
<1> DEFINE q == [n \in 1 .. Len(mode1UsedCoverageIDs_) |->
                    LET c == mode1UsedCoverageIDs_[n] IN
                    writemode1output(e, c, Gilv(mode1_stats_[c], c, drawn[e], j))]
<1>1. outputmode1data(e, j) = FlattenSeq(q)
    BY Zenon DEF outputmode1data
<1>2. 1 .. Len(mode1UsedCoverageIDs_) = 1 .. 0
    OBVIOUS
<1>3. q \in [1 .. 0 -> Seq({})]
    BY <1>2
<1> HIDE DEF q
<1>4. FlattenSeq(q) \in Seq({})
    BY <1>3, FlattenIn
<1> QED BY <1>1, <1>4

\* The rows of the current event, when it is over, in mode 1.
LEMMA StreamedOver ==
    ASSUME Shape, Streamed, Held, mode = 1, ~done, NEW j \in Streams, last_event_id \in Seen(read)
    PROVE  StreamIs(Out(j) \o outputmode1data(last_event_id, j), Sample, Pairs(read), drawn, j,
                    Finished \cup {last_event_id})
<1> PICK e, R, E : e = last_event_id /\ R = Pairs(read) /\ E = Finished
    OBVIOUS
<1>1. opt_ \in Options /\ e \in Events /\ drawn[e] \in Numbers
    BY SeenIs DEF Shape
<1>2. HeldIs(mode1_stats_, mode1UsedCoverageIDs_, e, R)
    <2>1. Current = e
        BY DEF Current
    <2> QED BY <2>1, Zenon DEF Held
<1>3. StreamIs(outputmode1data(e, j), Sample, R, drawn, j, {e})
    BY <1>1, <1>2, EventRowsAre
<1>4. StreamIs(Out(j), Sample, R, drawn, j, E)
    <2>1. Written = E
        BY DEF Written
    <2> QED BY <2>1, Zenon DEF Streamed
<1>5. e \notin E
    BY DEF Finished
<1>6. StreamIs(Out(j) \o outputmode1data(e, j), Sample, R, drawn, j, E \cup {e})
    BY <1>3, <1>4, <1>5, StreamEvent
<1> QED BY <1>6, Zenon

\* The streams, after a turn in mode 1.
LEMMA StreamedTurned1 ==
    ASSUME Shape, Streamed, Held, mode = 1, NEW e \in Events, NEW k \in Keys, NEW numbers,
           Turned(e, k, numbers),
           Ends(e) => /\ last_event_id \in Seen(read)
                      /\ Finished' = Finished \cup {last_event_id},
           ~Ends(e) => Finished' = Finished,
           \A j \in Streams : Out(j)' = IF Ends(e) THEN Out(j) \o outputmode1data(last_event_id, j) ELSE Out(j)
    PROVE  Streamed'
<1>1. Sample' = Sample /\ mode' = mode /\ Streams' = Streams
    BY Rigid, Zenon DEF Turned
<1>2. Written = Finished /\ Written' = Finished'
    BY <1>1 DEF Written
<1>3. Agree(Pairs(read), drawn, Pairs(read'), drawn', Finished')
    <2>1. Finished' \subseteq Seen(read) /\ e \notin Finished'
        <3>1. Finished \subseteq Seen(read)
            BY DEF Finished, Seen
        <3>2. e \notin Finished'
            BY Zenon DEF Turned
        <3> QED BY <3>1, <3>2
    <2> QED BY <2>1, OthersStay
<1>4. ASSUME NEW j \in Streams PROVE StreamIs(Out(j)', Sample, Pairs(read'), drawn', j, Finished')
    <2>1. StreamIs(Out(j)', Sample, Pairs(read), drawn, j, Finished')
        <3>1. CASE Ends(e)
            <4>1. ~done /\ last_event_id \in Seen(read)
                BY <3>1, Zenon DEF Turned
            <4>2. StreamIs(Out(j) \o outputmode1data(last_event_id, j), Sample, Pairs(read), drawn, j,
                           Finished \cup {last_event_id})
                BY <4>1, StreamedOver
            <4>3. Out(j)' = Out(j) \o outputmode1data(last_event_id, j) /\ Finished' = Finished \cup {last_event_id}
                BY <3>1, Zenon
            <4> QED BY <4>2, <4>3, Zenon
        <3>2. CASE ~Ends(e)
            <4>1. Out(j)' = Out(j) /\ Finished' = Written
                BY <1>2, <3>2, Zenon
            <4>2. StreamIs(Out(j), Sample, Pairs(read), drawn, j, Written)
                BY Zenon DEF Streamed
            <4> QED BY <4>1, <4>2, Zenon
        <3> QED BY <3>1, <3>2, Zenon
    <2> PICK out, E, R, T, C : /\ out = Out(j)' /\ E = Finished' /\ R = Pairs(read)
                               /\ T = Pairs(read') /\ C = drawn'
        OBVIOUS
    <2>2. StreamIs(out, Sample, R, drawn, j, E) /\ Agree(R, drawn, T, C, E)
        BY <1>3, <2>1
    <2>3. StreamIs(out, Sample, T, C, j, E)
        BY <2>2, StreamStays
    <2> QED BY <2>3, Zenon
<1>5. mode' # 0
    BY <1>1
<1> QED BY <1>1, <1>2, <1>4, <1>5, Zenon DEF Streamed

\* What is held, after a turn in mode 1.
LEMMA HeldTurned ==
    ASSUME Shape, Held, mode = 1, NEW e \in Events, NEW k \in Keys, NEW numbers,
           Turned(e, k, numbers),
           Ends(e) => e \notin Seen(read),
           ~Ends(e) => e = last_event_id \/ (read = <<>> /\ last_event_id = -1),
           NEW stats, stats = IF Ends(e) THEN clearmode1_data ELSE mode1_stats_,
           NEW used, used = IF Ends(e) THEN <<>> ELSE mode1UsedCoverageIDs_,
           mode1_stats_' = HeldWith(stats, e, k),
           mode1UsedCoverageIDs_' = Noted(stats, used, k)
    PROVE  Held'
<1> PICK R : R = Pairs(read)
    OBVIOUS
<1>1. ~done /\ ~done' /\ last_event_id' = e /\ Pairs(read') = R \cup {<<e, k>>} /\ <<e, k>> \notin R
    BY Zenon DEF Turned
<1>2. Current = last_event_id /\ Current' = e
    BY <1>1 DEF Current
<1>3. HeldIs(mode1_stats_, mode1UsedCoverageIDs_, last_event_id, R)
    BY <1>2, Zenon DEF Held
<1>4. HeldIs(stats, used, e, R)
    <2>1. CASE Ends(e)
        <3>1. \A i \in Item : <<e, KeyOf[i]>> \notin R
            <4>1. read \in Seq(Events \X Keys) /\ e \notin Seen(read)
                BY <2>1, Zenon DEF Shape
            <4> QED BY <4>1, SeenIs
        <3>2. HeldIs(NoStats, <<>>, e, R)
            BY <3>1, HeldNothing
        <3>3. clearmode1_data = NoStats
            BY <1>3, HeldCleared
        <3> QED BY <2>1, <3>2, <3>3, Zenon
    <2>2. CASE ~Ends(e)
        <3>1. stats = mode1_stats_ /\ used = mode1UsedCoverageIDs_
            BY <2>2
        <3>2. CASE e = last_event_id
            BY <1>3, <3>1, <3>2, Zenon
        <3>3. CASE read = <<>>
            <4>1. R = {}
                BY <3>3 DEF Pairs
            <4>2. HeldIs(NoStats, <<>>, e, R)
                <5>1. \A i \in Item : <<e, KeyOf[i]>> \notin R
                    BY <4>1
                <5> QED BY <5>1, HeldNothing
            <4>3. mode1_stats_ = NoStats /\ mode1UsedCoverageIDs_ = <<>>
                <5>1. \A i \in Item : <<last_event_id, KeyOf[i]>> \notin R
                    BY <4>1
                <5> QED BY <1>3, <5>1, HeldNone
            <4> QED BY <3>1, <4>2, <4>3, Zenon
        <3> QED BY <2>2, <3>2, <3>3
    <2> QED BY <2>1, <2>2
<1>5. HeldIs(HeldWith(stats, e, k), Noted(stats, used, k), e, R \cup {<<e, k>>})
    BY <1>1, <1>4, HeldGrows, Zenon
<1>6. HeldIs(mode1_stats_', mode1UsedCoverageIDs_', Current', Pairs(read'))
    BY <1>1, <1>2, <1>5, Zenon
<1> QED BY <1>6, Zenon DEF Held

-----------------------------------------------------------------------------
(* The invariant is inductive *)

\* The rows that mode 0 adds to the streams.
LEMMA StreamsSampled ==
    ASSUME NEW e, NEW k, NEW numbers,
           itemout' = itemout \o RecordRows(e, k, FALSE, numbers),
           corrout' = IF correlatedLevelOutput THEN corrout \o RecordRows(e, k, TRUE, numbers) ELSE corrout
    PROVE  \A j \in Streams : Out(j)' = Out(j) \o RecordRows(e, k, j, numbers)
<1>1. Out(FALSE)' = Out(FALSE) \o RecordRows(e, k, FALSE, numbers)
    BY Zenon DEF Out
<1>2. correlatedLevelOutput => Out(TRUE)' = Out(TRUE) \o RecordRows(e, k, TRUE, numbers)
    BY Zenon DEF Out
<1>3. \A j \in Streams : j = FALSE \/ (j = TRUE /\ correlatedLevelOutput)
    BY DEF Streams
<1> QED BY <1>1, <1>2, <1>3, Zenon

\* Those that mode 1 adds when an event is over.
LEMMA StreamsAllocated ==
    ASSUME NEW e, NEW over,
           itemout' = IF over THEN itemout \o outputmode1data(e, FALSE) ELSE itemout,
           corrout' = IF over /\ correlatedLevelOutput THEN corrout \o outputmode1data(e, TRUE) ELSE corrout
    PROVE  \A j \in Streams : Out(j)' = IF over THEN Out(j) \o outputmode1data(e, j) ELSE Out(j)
<1>1. Out(FALSE)' = IF over THEN Out(FALSE) \o outputmode1data(e, FALSE) ELSE Out(FALSE)
    BY Zenon DEF Out
<1>2. correlatedLevelOutput =>
            Out(TRUE)' = IF over THEN Out(TRUE) \o outputmode1data(e, TRUE) ELSE Out(TRUE)
    BY Zenon DEF Out
<1>3. \A j \in Streams : j = FALSE \/ (j = TRUE /\ correlatedLevelOutput)
    BY DEF Streams
<1> QED BY <1>1, <1>2, <1>3, Zenon

\* A turn in mode 0.
LEMMA Mode0Inv ==
    ASSUME IInv, ~done, UNCHANGED <<opt_, done>>, NEW e \in Events, NEW k \in Keys, Sent(e, k),
           mode0(e, k), last_event_id' = e, read' = Append(read, <<e, k>>)
    PROVE  IInv'
<1>1. Shape /\ Streamed /\ Summed
    BY Zenon DEF IInv
<1>2. mode = 0
    BY Zenon DEF mode0
<1>3. PICK numbers \in Drawn(e) :
        /\ drawn' = [drawn EXCEPT ![e] = numbers]
        /\ itemout' = itemout \o RecordRows(e, k, FALSE, numbers)
        /\ corrout' = IF correlatedLevelOutput THEN corrout \o RecordRows(e, k, TRUE, numbers) ELSE corrout
        /\ covout' = IF Ends(e) THEN covout \o outputcoveragedata(cov_, last_event_id) ELSE covout
        /\ cov_' = gencovoutput(IF Ends(e) THEN NoSums ELSE cov_, e, k, numbers)
    BY Zenon DEF mode0, RecordRows, GroupIn
<1>4. /\ Turned(e, k, numbers)
      /\ Ends(e) => /\ last_event_id \in Seen(read) /\ last_event_id \in Events
                    /\ last_event_id \notin Finished /\ e \notin Seen(read)
                    /\ Finished' = Finished \cup {last_event_id}
      /\ ~Ends(e) => /\ Finished' = Finished
                     /\ e = last_event_id \/ (read = <<>> /\ last_event_id = -1)
    BY <1>1, <1>3, TurnIs
<1>5. \A j \in Streams : Out(j)' = Out(j) \o RecordRows(e, k, j, numbers)
    BY <1>3, StreamsSampled
<1>6. Shape'
    BY <1>1, <1>4, ShapeTurned
<1>7. Streamed'
    BY <1>1, <1>2, <1>4, <1>5, StreamedTurned
<1>8. Summed'
    BY <1>1, <1>3, <1>4, SummedTurned
<1>9. Held'
    <2>1. mode' = mode
        BY Rigid
    <2>2. mode' # 1
        BY <1>2, <2>1
    <2> QED BY <2>2, Zenon DEF Held
<1> QED BY <1>6, <1>7, <1>8, <1>9, Zenon DEF IInv


\* A turn in mode 1.
LEMMA Mode1Inv ==
    ASSUME IInv, ~done, UNCHANGED <<opt_, done>>, NEW e \in Events, NEW k \in Keys, Sent(e, k),
           mode1(e, k), last_event_id' = e, read' = Append(read, <<e, k>>)
    PROVE  IInv'
<1>1. Shape /\ Streamed /\ Held
    BY Zenon DEF IInv
<1>2. mode = 1
    BY Zenon DEF mode1
<1>3. mode1_stats_' = HeldWith(IF Ends(e) THEN clearmode1_data ELSE mode1_stats_, e, k)
    BY Zenon DEF mode1, HeldWith, NewStats
<1>4. mode1UsedCoverageIDs_' = Noted(IF Ends(e) THEN clearmode1_data ELSE mode1_stats_,
                                     IF Ends(e) THEN <<>> ELSE mode1UsedCoverageIDs_, k)
    BY Zenon DEF mode1, Noted
<1> PICK stats, used : /\ stats = IF Ends(e) THEN clearmode1_data ELSE mode1_stats_
                       /\ used = IF Ends(e) THEN <<>> ELSE mode1UsedCoverageIDs_
    OBVIOUS
<1>5. /\ itemout' = IF Ends(e) THEN itemout \o outputmode1data(last_event_id, FALSE) ELSE itemout
      /\ corrout' = IF Ends(e) /\ correlatedLevelOutput
                    THEN corrout \o outputmode1data(last_event_id, TRUE) ELSE corrout
      /\ mode1_stats_' = HeldWith(stats, e, k)
      /\ mode1UsedCoverageIDs_' = Noted(stats, used, k)
    <2>1. /\ itemout' = IF Ends(e) THEN itemout \o outputmode1data(last_event_id, FALSE) ELSE itemout
          /\ corrout' = IF Ends(e) /\ correlatedLevelOutput
                        THEN corrout \o outputmode1data(last_event_id, TRUE) ELSE corrout
        BY Zenon DEF mode1
    <2>2. mode1_stats_' = HeldWith(stats, e, k) /\ mode1UsedCoverageIDs_' = Noted(stats, used, k)
        BY <1>3, <1>4, Zenon
    <2> QED BY <2>1, <2>2, Zenon
<1>6. PICK numbers \in Drawn(e) : drawn' = [drawn EXCEPT ![e] = numbers]
    BY Zenon DEF mode1
<1>7. /\ Turned(e, k, numbers)
      /\ Ends(e) => /\ last_event_id \in Seen(read) /\ last_event_id \in Events
                    /\ last_event_id \notin Finished /\ e \notin Seen(read)
                    /\ Finished' = Finished \cup {last_event_id}
      /\ ~Ends(e) => /\ Finished' = Finished
                     /\ e = last_event_id \/ (read = <<>> /\ last_event_id = -1)
    BY <1>1, <1>6, TurnIs
<1>8. \A j \in Streams : Out(j)' = IF Ends(e) THEN Out(j) \o outputmode1data(last_event_id, j) ELSE Out(j)
    BY <1>5, StreamsAllocated
<1>9. Shape'
    BY <1>1, <1>7, ShapeTurned
<1>10. Streamed'
    BY <1>1, <1>2, <1>7, <1>8, StreamedTurned1
<1>11. Held'
    BY <1>1, <1>2, <1>5, <1>7, HeldTurned
<1>12. Summed'
    <2>1. ~coverageLevelOutput'
        <3>1. ~coverageLevelOutput
            BY <1>1, <1>2, ModeFacts, Zenon DEF Shape
        <3> QED BY <3>1, Rigid
    <2> QED BY <2>1, Zenon DEF Summed
<1> QED BY <1>9, <1>10, <1>11, <1>12, Zenon DEF IInv

\* At the end of the input, the last event is over.
LEMMA EndIs ==
    ASSUME Shape, ~done, done', UNCHANGED <<opt_, last_event_id, drawn, read>>
    PROVE  /\ Shape' /\ Current' = 0 /\ Seen(read') = Seen(read) /\ Pairs(read') = Pairs(read)
           /\ last_event_id \in Seen(read) => /\ Finished' = Finished \cup {last_event_id}
                                              /\ last_event_id \notin Finished
           /\ last_event_id \notin Seen(read) =>
                /\ Finished = {} /\ Finished' = {} /\ read = <<>> /\ last_event_id = -1
<1>1. /\ opt_ \in Options /\ read \in Seq(Events \X Keys) /\ drawn = [e \in Events |-> drawn[e]]
      /\ \A e \in Seen(read) : drawn[e] \in Numbers
      /\ (last_event_id = -1 /\ read = <<>>) \/ last_event_id \in Seen(read)
    BY Zenon DEF Shape
<1>2. read' = read /\ drawn' = drawn /\ last_event_id' = last_event_id /\ opt_' = opt_
    OBVIOUS
<1>3. Numbers' = Numbers
    BY <1>2, Rigid, Zenon
<1>4. Finished = Seen(read) \ {last_event_id} /\ Finished' = Seen(read)
    BY DEF Finished, Seen
<1>5. Shape'
    BY <1>1, <1>2, <1>3 DEF Shape
<1>6. Current' = 0
    BY DEF Current
<1>7. last_event_id \notin Seen(read) => Seen(read) = {} /\ read = <<>> /\ last_event_id = -1
    BY <1>1 DEF Seen
<1> QED BY <1>2, <1>4, <1>5, <1>6, <1>7

\* The end of the input in mode 0.
LEMMA End0Inv ==
    ASSUME IInv, ~done, done', mode = 0, UNCHANGED <<opt_, last_event_id, drawn, read>>,
           covout' = covout \o outputcoveragedata(cov_, last_event_id), cov_' = NoSums,
           UNCHANGED <<itemout, corrout, mode1_stats_, mode1UsedCoverageIDs_>>
    PROVE  IInv'
<1>1. Shape /\ Streamed /\ Summed
    BY Zenon DEF IInv
<1>2. /\ Shape' /\ Current' = 0 /\ Seen(read') = Seen(read) /\ Pairs(read') = Pairs(read)
      /\ last_event_id \in Seen(read) => /\ Finished' = Finished \cup {last_event_id}
                                         /\ last_event_id \notin Finished
      /\ last_event_id \notin Seen(read) =>
                /\ Finished = {} /\ Finished' = {} /\ read = <<>> /\ last_event_id = -1
    BY <1>1, EndIs
<1>3. /\ Sample' = Sample /\ mode' = mode /\ Streams' = Streams
      /\ (coverageLevelOutput <=> coverageLevelOutput')
      /\ (correlatedLevelOutput <=> correlatedLevelOutput')
    BY Rigid
<1>4. Streamed'
    <2>1. Written' = Written
        BY <1>2, <1>3 DEF Written
    <2>2. \A j \in Streams : Out(j)' = Out(j)
        BY Zenon DEF Out
    <2>3. ASSUME NEW j \in Streams
          PROVE  /\ StreamIs(Out(j)', Sample', Pairs(read'), drawn', j, Written')
                 /\ mode' = 0 => Out(j)' \in Seq(Fair(j, drawn'))
        <3>1. /\ StreamIs(Out(j), Sample, Pairs(read), drawn, j, Written)
              /\ mode = 0 => Out(j) \in Seq(Fair(j, drawn))
            BY <1>1, Zenon DEF Streamed
        <3>2. Out(j)' = Out(j) /\ drawn' = drawn
            BY <2>2, Zenon
        <3> QED BY <1>2, <1>3, <2>1, <3>1, <3>2, Zenon
    <2> QED BY <1>3, <2>3, Zenon DEF Streamed
<1>5. Summed'
    <2> SUFFICES ASSUME coverageLevelOutput, ~correlatedLevelOutput
                 PROVE  /\ SumsIs(NoSums, Sample, Pairs(read), drawn, 0)
                        /\ CovIs(covout', Sample, Pairs(read), drawn, Finished')
        <3>1. (coverageLevelOutput' /\ ~correlatedLevelOutput') =>
                    /\ SumsIs(cov_', Sample', Pairs(read'), drawn', Current')
                    /\ CovIs(covout', Sample', Pairs(read'), drawn', Finished')
            BY <1>2, <1>3
        <3> QED BY <3>1, Zenon DEF Summed
    <2> PICK f, E, R : f = last_event_id /\ E = Finished /\ R = Pairs(read)
        OBVIOUS
    <2>1. Current = f
        BY DEF Current
    <2>2. SumsIs(cov_, Sample, R, drawn, f) /\ CovIs(covout, Sample, R, drawn, E)
        BY <1>1, <2>1, Zenon DEF Summed
    <2>3. read \in Seq(Events \X Keys) /\ opt_ \in Options /\ \A e \in Seen(read) : drawn[e] \in Numbers
        BY <1>1, Zenon DEF Shape
    <2>4. \A e, k : <<e, k>> \in R => e \in Seen(read) /\ e \in Events
        BY <2>3, SeenIs
    <2>5. f \in Int /\ f \notin E
        <3>1. f \in Seen(read) => f \in Int
            BY <2>3, SeenIs, ColumnFacts
        <3> QED BY <1>2, <3>1
    <2>6. \A i \in Item : <<f, KeyOf[i]>> \in R => f \in Events /\ drawn[f] \in Numbers
        BY <2>3, <2>4
    <2>7. CovIs(covout \o outputcoveragedata(cov_, f), Sample, R, drawn, E \cup {f})
        BY <2>2, <2>3, <2>5, <2>6, SummedOver
    <2>8. CovIs(covout', Sample, R, drawn, Finished')
        <3>1. CASE f \in Seen(read)
            BY <1>2, <2>7, <3>1, Zenon
        <3>2. CASE f \notin Seen(read)
            <4>1. \A i \in Item : <<f, KeyOf[i]>> \notin R
                BY <2>4, <3>2
            <4>2. CovIs(covout \o outputcoveragedata(cov_, f), Sample, R, drawn, E)
                BY <2>7, <4>1, CovNothing
            <4>3. Finished' = E
                BY <1>2, <3>2, Zenon
            <4> QED BY <4>2, <4>3, Zenon
        <3> QED BY <3>1, <3>2
    <2>9. SumsIs(NoSums, Sample, R, drawn, 0)
        <3>1. \A i \in Item : <<0, KeyOf[i]>> \notin R
            BY <2>4, ColumnFacts
        <3> QED BY <3>1, SumsNothing
    <2> QED BY <2>8, <2>9, Zenon
<1>6. Held'
    <2>1. mode' # 1
        BY <1>3
    <2> QED BY <2>1, Zenon DEF Held
<1> QED BY <1>2, <1>4, <1>5, <1>6, Zenon DEF IInv

\* The end of the input in mode 1.
LEMMA End1Inv ==
    ASSUME IInv, ~done, done', mode = 1, UNCHANGED <<opt_, last_event_id, drawn, read>>,
           itemout' = itemout \o outputmode1data(last_event_id, FALSE),
           corrout' = IF correlatedLevelOutput
                      THEN corrout \o outputmode1data(last_event_id, TRUE) ELSE corrout,
           mode1_stats_' = clearmode1_data, mode1UsedCoverageIDs_' = <<>>
    PROVE  IInv'
<1>1. Shape /\ Streamed /\ Held
    BY Zenon DEF IInv
<1>2. /\ Shape' /\ Current' = 0 /\ Seen(read') = Seen(read) /\ Pairs(read') = Pairs(read)
      /\ last_event_id \in Seen(read) => /\ Finished' = Finished \cup {last_event_id}
                                         /\ last_event_id \notin Finished
      /\ last_event_id \notin Seen(read) =>
                /\ Finished = {} /\ Finished' = {} /\ read = <<>> /\ last_event_id = -1
    BY <1>1, EndIs
<1>3. /\ Sample' = Sample /\ mode' = mode /\ Streams' = Streams
      /\ (coverageLevelOutput <=> coverageLevelOutput')
    BY Rigid
<1>4. HeldIs(mode1_stats_, mode1UsedCoverageIDs_, last_event_id, Pairs(read))
    <2>1. Current = last_event_id
        BY DEF Current
    <2> QED BY <1>1, <2>1, Zenon DEF Held
<1>5. read \in Seq(Events \X Keys)
    BY <1>1, Zenon DEF Shape
<1>6. \A j \in Streams : Out(j)' = Out(j) \o outputmode1data(last_event_id, j)
    <2> PICK over : over = TRUE
        OBVIOUS
    <2>1. /\ itemout' = IF over THEN itemout \o outputmode1data(last_event_id, FALSE) ELSE itemout
          /\ corrout' = IF over /\ correlatedLevelOutput
                        THEN corrout \o outputmode1data(last_event_id, TRUE) ELSE corrout
        BY Zenon
    <2>2. \A j \in Streams : Out(j)' = IF over THEN Out(j) \o outputmode1data(last_event_id, j) ELSE Out(j)
        BY <2>1, StreamsAllocated
    <2> QED BY <2>2
<1>7. Streamed'
    <2>1. Written = Finished /\ Written' = Finished' /\ mode' # 0
        BY <1>3 DEF Written
    <2>2. ASSUME NEW j \in Streams PROVE StreamIs(Out(j)', Sample, Pairs(read), drawn, j, Finished')
        <3>1. CASE last_event_id \in Seen(read)
            <4>1. StreamIs(Out(j) \o outputmode1data(last_event_id, j), Sample, Pairs(read), drawn, j,
                           Finished \cup {last_event_id})
                BY <1>1, <3>1, StreamedOver
            <4> QED BY <1>2, <1>6, <3>1, <4>1, Zenon
        <3>2. CASE last_event_id \notin Seen(read)
            <4>1. mode1UsedCoverageIDs_ = <<>>
                <5>1. Pairs(read) = {}
                    BY <1>2, <3>2 DEF Pairs
                <5>2. \A i \in Item : <<last_event_id, KeyOf[i]>> \notin Pairs(read)
                    BY <5>1
                <5> QED BY <1>4, <5>2, HeldNone, Zenon
            <4>2. outputmode1data(last_event_id, j) = <<>>
                BY <4>1, EventRowsNone
            <4>3. StreamIs(Out(j), Sample, Pairs(read), drawn, j, Finished)
                BY <1>1, <2>1, Zenon DEF Streamed
            <4>4. Out(j) \in Seq(Rec)
                BY <4>3, Zenon DEF StreamIs, Bears
            <4>5. Out(j) \o <<>> = Out(j)
                BY <4>4
            <4>6. Out(j)' = Out(j)
                BY <1>6, <4>2, <4>5, Zenon
            <4> QED BY <1>2, <3>2, <4>3, <4>6, Zenon
        <3> QED BY <3>1, <3>2
    <2>3. drawn' = drawn
        OBVIOUS
    <2> QED BY <1>2, <1>3, <2>1, <2>2, <2>3, Zenon DEF Streamed
<1>8. Held'
    <2>1. clearmode1_data = NoStats
        BY <1>4, HeldCleared
    <2>2. HeldIs(NoStats, <<>>, 0, Pairs(read))
        <3>1. \A i \in Item : <<0, KeyOf[i]>> \notin Pairs(read)
            BY <1>5, SeenIs, ColumnFacts
        <3> QED BY <3>1, HeldNothing
    <2>3. HeldIs(mode1_stats_', mode1UsedCoverageIDs_', Current', Pairs(read'))
        BY <1>2, <2>1, <2>2, Zenon
    <2> QED BY <2>3, Zenon DEF Held
<1>9. Summed'
    <2>1. ~coverageLevelOutput'
        <3>1. ~coverageLevelOutput
            BY <1>1, ModeFacts, Zenon DEF Shape
        <3> QED BY <1>3, <3>1
    <2> QED BY <2>1, Zenon DEF Summed
<1> QED BY <1>2, <1>7, <1>8, <1>9, Zenon DEF IInv

\* It holds at the start.
LEMMA InitInv == Init => IInv
<1> SUFFICES ASSUME Init PROVE IInv
    OBVIOUS
<1>1. /\ opt_ \in Options /\ last_event_id = -1 /\ drawn = [e \in Events |-> <<>>]
      /\ cov_ = NoSums /\ mode1_stats_ = NoStats /\ mode1UsedCoverageIDs_ = <<>>
      /\ itemout = <<>> /\ corrout = <<>> /\ covout = <<>> /\ read = <<>> /\ done = FALSE
    BY Zenon DEF Init
<1>2. Seen(read) = {} /\ Pairs(read) = {} /\ Finished = {} /\ Written = {} /\ Current = -1
    BY <1>1 DEF Seen, Pairs, Finished, Written, Current
<1>3. Shape
    <2>1. read \in Seq(Events \X Keys)
        BY <1>1
    <2>2. drawn = [e \in Events |-> drawn[e]]
        BY <1>1
    <2>3. done \in BOOLEAN
        BY <1>1, Zenon
    <2> QED BY <1>1, <1>2, <2>1, <2>2, <2>3, Zenon DEF Shape
<1>4. Streamed
    <2>1. ASSUME NEW j \in Streams
          PROVE  StreamIs(Out(j), Sample, Pairs(read), drawn, j, Written) /\ Out(j) \in Seq(Fair(j, drawn))
        <3>1. Out(j) = <<>>
            BY <1>1, Zenon DEF Out
        <3>2. Wanted(Sample, Pairs(read), drawn, j, Written) = {}
            BY <1>2 DEF Wanted
        <3>3. StreamIs(<<>>, Sample, Pairs(read), drawn, j, Written)
            BY <3>2, BearsNothing, Zenon DEF StreamIs
        <3>4. <<>> \in Seq(Fair(j, drawn))
            OBVIOUS
        <3> QED BY <3>1, <3>3, <3>4, Zenon
    <2> QED BY <2>1, Zenon DEF Streamed
<1>5. Summed
    <2>1. SumsIs(NoSums, Sample, Pairs(read), drawn, -1)
        <3>1. \A i \in Item : <<-1, KeyOf[i]>> \notin Pairs(read)
            BY <1>2
        <3> QED BY <3>1, SumsNothing
    <2>2. CovWanted(Sample, Pairs(read), drawn, Finished) = {}
        BY <1>2 DEF CovWanted
    <2>3. Bears(covout, CovWanted(Sample, Pairs(read), drawn, Finished))
        BY <1>1, <2>2, BearsNothing, Zenon
    <2>4. covout \in Seq(CovFair(Pairs(read), drawn))
        BY <1>1
    <2>5. CovIs(covout, Sample, Pairs(read), drawn, Finished)
        BY <2>3, <2>4, Zenon DEF CovIs
    <2>6. SumsIs(cov_, Sample, Pairs(read), drawn, Current)
        BY <1>1, <1>2, <2>1, Zenon
    <2> QED BY <2>5, <2>6, Zenon DEF Summed
<1>6. Held
    <2>1. HeldIs(NoStats, <<>>, -1, Pairs(read))
        <3>1. \A i \in Item : <<-1, KeyOf[i]>> \notin Pairs(read)
            BY <1>2
        <3> QED BY <3>1, HeldNothing
    <2>2. HeldIs(mode1_stats_, mode1UsedCoverageIDs_, Current, Pairs(read))
        BY <1>1, <1>2, <2>1, Zenon
    <2> QED BY <2>2, Zenon DEF Held
<1> QED BY <1>3, <1>4, <1>5, <1>6, Zenon DEF IInv

\* It does not depend on anything else.
LEMMA StutterInv == IInv /\ UNCHANGED vars => IInv'
<1> SUFFICES ASSUME IInv, UNCHANGED vars PROVE IInv'
    OBVIOUS
<1>1. /\ opt_' = opt_ /\ last_event_id' = last_event_id /\ drawn' = drawn /\ cov_' = cov_
      /\ mode1_stats_' = mode1_stats_ /\ mode1UsedCoverageIDs_' = mode1UsedCoverageIDs_
      /\ itemout' = itemout /\ corrout' = corrout /\ covout' = covout /\ read' = read
      /\ (done' <=> done) /\ done' = done
    BY DEF vars
<1>2. /\ Sample' = Sample /\ mode' = mode /\ Streams' = Streams /\ Numbers' = Numbers
      /\ (coverageLevelOutput <=> coverageLevelOutput')
      /\ (correlatedLevelOutput <=> correlatedLevelOutput')
    BY <1>1, Rigid
<1>3. Finished' = Finished /\ Current' = Current
    BY <1>1 DEF Finished, Current
<1>4. Written' = Written /\ \A j \in Streams : Out(j)' = Out(j)
    BY <1>1, <1>2, <1>3, Zenon DEF Written, Out
<1>5. Shape'
    BY <1>1, <1>2, Zenon DEF IInv, Shape
<1>6. Streamed'
    <2>1. ASSUME NEW j \in Streams
          PROVE  /\ StreamIs(Out(j)', Sample', Pairs(read'), drawn', j, Written')
                 /\ mode' = 0 => Out(j)' \in Seq(Fair(j, drawn'))
        <3>1. /\ StreamIs(Out(j), Sample, Pairs(read), drawn, j, Written)
              /\ mode = 0 => Out(j) \in Seq(Fair(j, drawn))
            BY Zenon DEF IInv, Streamed
        <3> QED BY <1>1, <1>2, <1>4, <3>1, Zenon
    <2> QED BY <1>2, <2>1, Zenon DEF Streamed
<1>7. Summed'
    <2>1. (coverageLevelOutput' /\ ~correlatedLevelOutput') =>
                /\ SumsIs(cov_', Sample', Pairs(read'), drawn', Current')
                /\ CovIs(covout', Sample', Pairs(read'), drawn', Finished')
        <3>1. (coverageLevelOutput /\ ~correlatedLevelOutput) =>
                /\ SumsIs(cov_, Sample, Pairs(read), drawn, Current)
                /\ CovIs(covout, Sample, Pairs(read), drawn, Finished)
            BY Zenon DEF IInv, Summed
        <3> QED BY <1>1, <1>2, <1>3, <3>1
    <2> QED BY <2>1, Zenon DEF Summed
<1>8. Held'
    <2>1. mode = 1 => HeldIs(mode1_stats_, mode1UsedCoverageIDs_, Current, Pairs(read))
        BY Zenon DEF IInv, Held
    <2> QED BY <1>1, <1>2, <1>3, <2>1, Zenon DEF Held
<1> QED BY <1>5, <1>6, <1>7, <1>8, Zenon DEF IInv

\* Each step.
LEMMA NextInv == IInv /\ [Next]_vars => IInv'
<1> SUFFICES ASSUME IInv, [Next]_vars PROVE IInv'
    OBVIOUS
<1>1. CASE ReadCdf
    <2>1. PICK e \in Events, k \in Keys :
            /\ Sent(e, k) /\ (mode0(e, k) \/ mode1(e, k))
            /\ last_event_id' = e /\ read' = Append(read, <<e, k>>)
        BY <1>1, Zenon DEF ReadCdf
    <2>2. ~done /\ UNCHANGED <<opt_, done>>
        BY <1>1, Zenon DEF ReadCdf
    <2> QED BY <2>1, <2>2, Mode0Inv, Mode1Inv
<1>2. CASE EndOfInput
    <2>1. ~done /\ done' /\ UNCHANGED <<opt_, last_event_id, drawn, read>>
        BY <1>2, Zenon DEF EndOfInput
    <2>2. CASE mode = 0
        <3>1. /\ covout' = covout \o outputcoveragedata(cov_, last_event_id) /\ cov_' = NoSums
              /\ UNCHANGED <<itemout, corrout, mode1_stats_, mode1UsedCoverageIDs_>>
            BY <1>2, <2>2, Zenon DEF EndOfInput
        <3> QED BY <2>1, <2>2, <3>1, End0Inv
    <2>3. CASE mode = 1
        <3>1. mode # 0
            BY <2>3
        <3>2. /\ itemout' = itemout \o outputmode1data(last_event_id, FALSE)
              /\ corrout' = IF correlatedLevelOutput
                            THEN corrout \o outputmode1data(last_event_id, TRUE) ELSE corrout
              /\ mode1_stats_' = clearmode1_data /\ mode1UsedCoverageIDs_' = <<>>
            BY <1>2, <3>1, Zenon DEF EndOfInput
        <3> QED BY <2>1, <2>3, <3>2, End1Inv
    <2>4. mode = 0 \/ mode = 1
        BY ModeFacts, Zenon DEF IInv, Shape
    <2> QED BY <2>2, <2>3, <2>4
<1>3. CASE Stopped
    BY <1>3, StutterInv DEF Stopped
<1>4. CASE UNCHANGED vars
    BY <1>4, StutterInv
<1> QED BY <1>1, <1>2, <1>3, <1>4 DEF Next

\* An event that is over has been read, and its records are written.
LEMMA FinishedIs ==
    ASSUME Shape, NEW e \in Finished
    PROVE  e \in Events /\ e \in Written /\ drawn[e] \in Numbers
<1>1. e \in Seen(read)
    BY DEF Finished, Seen
<1>2. e \in Events
    BY <1>1, SeenIs DEF Shape
<1>3. e \in Written
    BY <1>1 DEF Written
<1>4. drawn[e] \in Numbers
    BY <1>1, Zenon DEF Shape
<1> QED BY <1>2, <1>3, <1>4

\* What the invariant says of the blocks.
LEMMA IInvBlocks == IInv => BlocksAreWhole
<1> SUFFICES ASSUME IInv PROVE BlocksAreWhole
    OBVIOUS
<1>1. Shape /\ opt_ \in Options
    BY Zenon DEF IInv, Shape
<1>2. ASSUME NEW j \in Streams PROVE StreamIs(Out(j), Sample, Pairs(read), drawn, j, Written)
    BY Zenon DEF IInv, Streamed
<1>3. EventsIndependent
    <2>1. ASSUME NEW e \in Finished, NEW i \in Item, NEW j \in Streams, NEW s \in {-3, -2, -1} \cup Sample
          PROVE  Cardinality(RowsOf(Out(j), e, i, s)) =
                    IF i \in Arrived(e) /\ (s < 0 \/ Unallocated(e, i, s, GroupIn(i, j)) > 0)
                    THEN 1 ELSE 0
        <3>1. e \in Events /\ e \in Written
            BY <1>1, FinishedIs
        <3> QED BY <1>1, <1>2, <3>1, CountsAre
    <2> QED BY <2>1, Zenon DEF EventsIndependent
<1>4. BlocksTogether
    <2>1. \A j \in Streams : Together(Out(j))
        BY <1>2, Zenon DEF StreamIs
    <2> QED BY <2>1, Zenon DEF BlocksTogether, Together
<1> QED BY <1>3, <1>4, Zenon DEF BlocksAreWhole

\* What it says of the losses, without allocation.
LEMMA IInvLosses == IInv => LossesSampled
<1> SUFFICES ASSUME IInv, mode = 0, NEW e \in Finished, NEW j \in Streams,
                    NEW i \in Arrived(e), NEW s \in {-2, -1} \cup Sample
             PROVE  Reported(Out(j), e, i, s) = Unallocated(e, i, s, GroupIn(i, j))
    BY Zenon DEF LossesSampled
<1>1. Shape /\ opt_ \in Options
    BY Zenon DEF IInv, Shape
<1>2. StreamIs(Out(j), Sample, Pairs(read), drawn, j, Written) /\ Out(j) \in Seq(Fair(j, drawn))
    BY Zenon DEF IInv, Streamed
<1>3. e \in Events /\ e \in Written /\ drawn[e] \in Numbers
    BY <1>1, FinishedIs
<1>4. i \in Item /\ <<e, KeyOf[i]>> \in Pairs(read)
    <2>1. i \in Item
        BY DEF Arrived
    <2> QED BY <2>1, ArrivedIs, Zenon
<1>5. Reported(Out(j), e, i, s) = LossOf(e, i, s, GroupIn(i, j), drawn[e])
    <2>1. Reported(Out(j), e, i, s) = IF <<e, KeyOf[i]>> \in Pairs(read)
                THEN LossOf(e, i, s, GroupIn(i, j), drawn[e]) ELSE 0
        BY <1>1, <1>2, <1>3, <1>4, ReportedIs
    <2> QED BY <1>4, <2>1, Zenon
<1>6. Unallocated(e, i, s, GroupIn(i, j)) = LossOf(e, i, s, GroupIn(i, j), drawn[e])
    BY <1>3, <1>4, UnallocatedIs
<1> QED BY <1>5, <1>6, Zenon

\* What it says of the coverages.
LEMMA IInvCoverages == IInv => CoverageIsItemSum
<1> SUFFICES ASSUME IInv, coverageLevelOutput, ~correlatedLevelOutput
             PROVE  CoverageIsItemSum
    BY Zenon DEF CoverageIsItemSum
<1>1. Shape /\ opt_ \in Options
    BY Zenon DEF IInv, Shape
<1>2. mode = 0
    BY <1>1, ModeFacts, Zenon
<1>3. PICK j \in Streams : j = FALSE
    BY DEF Streams
<1>4. Out(j) = itemout /\ \A i \in Item : GroupIn(i, j) = GroupOf[i]
    BY <1>3, Zenon DEF Out, GroupIn
<1>5. StreamIs(itemout, Sample, Pairs(read), drawn, j, Written) /\ itemout \in Seq(Fair(j, drawn))
    <2>1. /\ StreamIs(Out(j), Sample, Pairs(read), drawn, j, Written)
          /\ mode = 0 => Out(j) \in Seq(Fair(j, drawn))
        BY Zenon DEF IInv, Streamed
    <2> QED BY <1>2, <1>4, <2>1, Zenon
<1>6. CovIs(covout, Sample, Pairs(read), drawn, Finished)
    BY Zenon DEF IInv, Summed
<1>7. ASSUME NEW e \in Finished, NEW c \in Coverage, NEW s \in {-1} \cup Sample
      PROVE  CovSum(e, c, s)
    <2>1. e \in Events /\ e \in Written /\ drawn[e] \in Numbers
        BY <1>1, FinishedIs
    <2> QED BY <1>1, <1>4, <1>5, <1>6, <2>1, CovSumIs
<1> QED BY <1>7, Zenon DEF CoverageIsItemSum, CovSum

\* GulCalc.BlocksAreWhole holds of every run (gulcalc.cpp, writemode0output and
\* writemode1output): the block of an item in an event is complete, has nothing
\* of another event and is not interrupted, whatever the items, the CDFs, the
\* order of the events, the numbers drawn and the command line.
THEOREM BlocksStayWhole == Spec => []BlocksAreWhole
<1>1. Init => IInv
    BY InitInv
<1>2. IInv /\ [Next]_vars => IInv'
    BY NextInv
<1>3. IInv => BlocksAreWhole
    BY IInvBlocks
<1> QED BY <1>1, <1>2, <1>3, PTL DEF Spec

\* GulCalc.LossesSampled holds of every run (gulcalc.cpp, outputgul): without
\* allocation, a record holds what its item lost with the numbers of its group,
\* or of the event in the correlated stream.
THEOREM LossesAreSampled == Spec => []LossesSampled
<1>1. Init => IInv
    BY InitInv
<1>2. IInv /\ [Next]_vars => IInv'
    BY NextInv
<1>3. IInv => LossesSampled
    BY IInvLosses
<1> QED BY <1>1, <1>2, <1>3, PTL DEF Spec

\* GulCalc.CoverageIsItemSum holds of every run (gulcalc.cpp, gencovoutput and
\* outputcoveragedata): the coverage stream is the item stream summed and capped.
THEOREM CoveragesAreSums == Spec => []CoverageIsItemSum
<1>1. Init => IInv
    BY InitInv
<1>2. IInv /\ [Next]_vars => IInv'
    BY NextInv
<1>3. IInv => CoverageIsItemSum
    BY IInvCoverages
<1> QED BY <1>1, <1>2, <1>3, PTL DEF Spec
=============================================================================
