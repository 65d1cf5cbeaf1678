------------------------------- MODULE Folding -------------------------------
(***************************************************************************)
(* What recursive definitions and the folds of the community modules       *)
(* compute, for an operator op(env, acc, x) that a module instantiates     *)
(* with its own: env holds what the operator depends on besides.           *)
(***************************************************************************)
EXTENDS Integers, Sequences, SequencesExt, FiniteSetsExt, FiniteSetTheorems,
        WellFoundedInduction, TLAPS

CONSTANT op(_, _, _)

\* f[m] = base and f[i] = op(env, f[i - 1], i)
Recursion(env, base, m, n) ==
    LET f[i \in m .. n] == IF i = m THEN base ELSE op(env, f[i - 1], i)
    IN  f

OverSeq(env, base, seq) == FoldLeft(LAMBDA acc, x : op(env, acc, x), base, seq)

OverSet(env, base, S) == FoldSet(LAMBDA x, acc : op(env, acc, x), base, S)

-----------------------------------------------------------------------------
\* A set of naturals has a least element.
LEMMA LeastOf ==
    ASSUME NEW T, T \subseteq Nat, T # {}
    PROVE  \E x \in T : \A y \in T : x <= y
<1> DEFINE R == OpToRel(<, Nat)
<1>1. IsWellFoundedOn(R, Nat)
    BY NatLessThanWellFounded
<1>3. \A x, y \in Nat : x < y => <<x, y>> \in R
    BY DEF OpToRel
<1> HIDE DEF R
<1>2. PICK x \in T : \A y \in T : <<y, x>> \notin R
    BY <1>1, WFMin
<1>4. ASSUME NEW y \in T PROVE x <= y
    <2>1. x \in Nat /\ y \in Nat
        BY <1>2
    <2>2. ~(y < x)
        BY <1>2, <1>3, <2>1
    <2> QED BY <2>1, <2>2
<1> QED BY <1>2, <1>4

\* Induction, with the property as a set.
LEMMA Induction ==
    ASSUME NEW m \in Nat, NEW n \in Nat, NEW S, m \in S,
           \A i \in m .. n : i \in S /\ i < n => i + 1 \in S
    PROVE  \A i \in m .. n : i \in S
<1> DEFINE T == {i \in m .. n : i \notin S}
<1> SUFFICES ASSUME T # {} PROVE FALSE
    OBVIOUS
<1>1. T \subseteq Nat
    OBVIOUS
<1>2. PICK x \in T : \A y \in T : x <= y
    BY <1>1, LeastOf
<1>3. x # m /\ x \in m .. n /\ x \notin S
    BY <1>2
<1>4. x - 1 \in m .. n /\ x - 1 < n /\ ~(x <= x - 1) /\ (x - 1) + 1 = x
    BY <1>3
<1>5. x - 1 \notin S
    BY <1>3, <1>4
<1> QED BY <1>2, <1>4, <1>5

-----------------------------------------------------------------------------
(* Recursion on the natural numbers *)

IsRecursion(f, env, base, m, n) ==
    f = [i \in m .. n |-> IF i = m THEN base ELSE op(env, f[i - 1], i)]

\* The same, unfolded.
Follows(f, env, base, m, n) ==
    /\ DOMAIN f = m .. n
    /\ f[m] = base
    /\ \A i \in m .. n : i # m => f[i] = op(env, f[i - 1], i)

\* A function that follows the recursion exists.
LEMMA RecursionExists ==
    ASSUME NEW env, NEW base, NEW m \in Nat, NEW n \in Nat, m <= n
    PROVE  \E f : IsRecursion(f, env, base, m, n)
<1> DEFINE S == {k \in Nat : \E f : IsRecursion(f, env, base, m, k)}
<1>1. m \in S
    <2> DEFINE f == [i \in m .. m |-> base]
    <2>1. IsRecursion(f, env, base, m, m)
        BY DEF IsRecursion
    <2> QED BY <2>1
<1>2. ASSUME NEW k \in m .. n, k \in S, k < n PROVE k + 1 \in S
    <2>1. PICK f : IsRecursion(f, env, base, m, k)
        BY <1>2
    <2> DEFINE h == [i \in m .. (k + 1) |-> IF i <= k THEN f[i] ELSE op(env, f[k], k + 1)]
    <2>2. ASSUME NEW i \in m .. (k + 1)
          PROVE  h[i] = IF i = m THEN base ELSE op(env, h[i - 1], i)
        <3>1. CASE i <= k
            <4>1. i \in m .. k /\ h[i] = f[i]
                BY <3>1
            <4>2. f[i] = IF i = m THEN base ELSE op(env, f[i - 1], i)
                BY <2>1, <4>1, Zenon DEF IsRecursion
            <4>3. i # m => i - 1 \in m .. (k + 1) /\ i - 1 <= k
                BY <3>1
            <4>4. i # m => h[i - 1] = f[i - 1]
                BY <4>3
            <4> HIDE DEF h
            <4> QED BY <4>1, <4>2, <4>4, Zenon
        <3>2. CASE ~(i <= k)
            <4>1. i = k + 1 /\ i # m /\ i - 1 = k /\ k \in m .. (k + 1) /\ k <= k
                BY <3>2
            <4>2. h[i] = op(env, f[k], k + 1)
                BY <3>2
            <4>3. h[k] = f[k]
                BY <4>1
            <4> HIDE DEF h
            <4> QED BY <4>1, <4>2, <4>3, Zenon
        <3> QED BY <3>1, <3>2
    <2>3. h = [i \in m .. (k + 1) |-> h[i]]
        OBVIOUS
    <2> HIDE DEF h
    <2>4. h = [i \in m .. (k + 1) |-> IF i = m THEN base ELSE op(env, h[i - 1], i)]
        BY <2>2, <2>3, Zenon
    <2>5. IsRecursion(h, env, base, m, k + 1)
        BY <2>4, Zenon DEF IsRecursion
    <2>6. k + 1 \in Nat
        OBVIOUS
    <2> QED BY <2>5, <2>6
<1>3. n \in m .. n
    OBVIOUS
<1> HIDE DEF S
<1>4. n \in S
    BY <1>1, <1>2, <1>3, Induction
<1> QED BY <1>4 DEF S

\* The function a recursive definition stands for satisfies it.
LEMMA RecursionIs ==
    ASSUME NEW env, NEW base, NEW m \in Nat, NEW n \in Nat, m <= n
    PROVE  IsRecursion(Recursion(env, base, m, n), env, base, m, n)
<1>1. PICK g : IsRecursion(g, env, base, m, n)
    BY RecursionExists
<1>2. \E f : f = [i \in m .. n |-> IF i = m THEN base ELSE op(env, f[i - 1], i)]
    BY <1>1, Zenon DEF IsRecursion
<1> QED BY <1>2, Zenon DEF Recursion, IsRecursion

\* The recursion, unfolded at every argument.
LEMMA Unfolded ==
    ASSUME NEW env, NEW base, NEW m \in Nat, NEW n \in Nat, m <= n, NEW f,
           IsRecursion(f, env, base, m, n)
    PROVE  Follows(f, env, base, m, n)
<1>2. m \in m .. n
    OBVIOUS
<1>3. /\ DOMAIN f = m .. n
      /\ \A i \in m .. n : f[i] = IF i = m THEN base ELSE op(env, f[i - 1], i)
    BY Zenon DEF IsRecursion
<1> QED BY <1>2, <1>3, Zenon DEF Follows

\* What the recursion computes, argument by argument.
THEOREM RecursionSteps ==
    ASSUME NEW env, NEW base, NEW m \in Nat, NEW n \in Nat, m <= n, NEW f,
           f = Recursion(env, base, m, n)
    PROVE  Follows(f, env, base, m, n)
<1>1. IsRecursion(f, env, base, m, n)
    BY RecursionIs
<1> QED BY <1>1, Unfolded

\* It does not depend on how far it goes.
THEOREM RecursionPrefix ==
    ASSUME NEW env, NEW base, NEW m \in Nat, NEW n \in Nat, NEW k \in m .. n
    PROVE  Recursion(env, base, m, n)[k] = Recursion(env, base, m, k)[k]
<1>0. k \in Nat /\ m <= k /\ m <= n
    OBVIOUS
<1>7. PICK f : f = Recursion(env, base, m, n)
    OBVIOUS
<1>8. PICK g : g = Recursion(env, base, m, k)
    OBVIOUS
<1>9. Follows(f, env, base, m, n)
    BY <1>0, <1>7, RecursionSteps
<1>10. Follows(g, env, base, m, k)
    BY <1>0, <1>8, RecursionSteps
<1> DEFINE S == {i \in m .. k : f[i] = g[i]}
<1>1. /\ f[m] = base
      /\ \A i \in m .. n : i # m => f[i] = op(env, f[i - 1], i)
    BY <1>9 DEF Follows
<1>2. /\ g[m] = base
      /\ \A i \in m .. k : i # m => g[i] = op(env, g[i - 1], i)
    BY <1>10 DEF Follows
<1>3. m \in S
    BY <1>0, <1>1, <1>2
<1>4. ASSUME NEW i \in m .. k, i \in S, i < k PROVE i + 1 \in S
    <2>1. i + 1 \in m .. k /\ i + 1 \in m .. n /\ i + 1 # m /\ (i + 1) - 1 = i
        BY <1>4
    <2>2. f[i] = g[i]
        BY <1>4
    <2>3. f[i + 1] = g[i + 1]
        BY <1>1, <1>2, <2>1, <2>2, Zenon
    <2> QED BY <2>1, <2>3
<1>5. k \in m .. k
    BY <1>0
<1> HIDE DEF S
<1>6. k \in S
    BY <1>0, <1>3, <1>4, <1>5, Induction
<1> QED BY <1>6, <1>7, <1>8 DEF S
-----------------------------------------------------------------------------
(* The fold of a sequence *)

\* Max of numbers from 1 to n.
LEMMA MaxOf ==
    ASSUME NEW n \in Nat, NEW T, T \subseteq 1 .. n, T # {}
    PROVE  /\ Max(T) \in T /\ \A y \in T : y <= Max(T)
<1> DEFINE D == {n - y : y \in T}
<1>1. \A y \in T : y \in Int /\ n - y \in Nat
    OBVIOUS
<1>2. D \subseteq Nat
    BY <1>1
<1>3. D # {}
    <2>1. PICK y : y \in T
        OBVIOUS
    <2> QED BY <2>1
<1>4. PICK x \in D : \A z \in D : x <= z
    <2> HIDE DEF D
    <2> QED BY <1>2, <1>3, LeastOf
<1>5. PICK m \in T : x = n - m
    BY <1>4
<1>6. ASSUME NEW z \in T PROVE m >= z
    <2>1. n - m <= n - z
        BY <1>4, <1>5
    <2> QED BY <1>1, <2>1
<1>7. \E y \in T : \A z \in T : y >= z
    BY <1>5, <1>6
<1>8. Max(T) \in T /\ \A z \in T : Max(T) >= z
    BY <1>7 DEF Max
<1> QED BY <1>1, <1>8

\* The function that FoldLeft chooses, on the sets of positions up to n.
SeqIter(it, env, base, seq, n) ==
    it = [s \in SUBSET (1 .. n) |->
            IF s = {} THEN base ELSE op(env, it[s \ {Max(s)}], seq[Max(s)])]

\* What it gives for the first i positions.
Along(acc, env, base, seq, n) ==
    /\ DOMAIN acc = 0 .. n
    /\ acc[0] = base
    /\ \A i \in 1 .. n : acc[i] = op(env, acc[i - 1], seq[i])

\* The iteration over the prefixes of a sequence exists.
LEMMA SeqIterExists ==
    ASSUME NEW env, NEW base, NEW seq, NEW n \in Nat
    PROVE  \E it : SeqIter(it, env, base, seq, n)
<1> DEFINE S == {k \in Nat : \E it : SeqIter(it, env, base, seq, k)}
<1>1. 0 \in S
    <2> DEFINE it == [s \in SUBSET (1 .. 0) |-> base]
    <2>1. \A s \in SUBSET (1 .. 0) : s = {}
        OBVIOUS
    <2>2. SeqIter(it, env, base, seq, 0)
        BY <2>1 DEF SeqIter
    <2> QED BY <2>2
<1>2. ASSUME NEW k \in 0 .. n, k \in S, k < n PROVE k + 1 \in S
    <2>1. PICK it : SeqIter(it, env, base, seq, k)
        BY <1>2
    <2> DEFINE h == [s \in SUBSET (1 .. (k + 1)) |->
                       IF k + 1 \in s THEN op(env, it[s \ {k + 1}], seq[k + 1]) ELSE it[s]]
    <2>2. ASSUME NEW s \in SUBSET (1 .. (k + 1))
          PROVE  h[s] = IF s = {} THEN base ELSE op(env, h[s \ {Max(s)}], seq[Max(s)])
        <3>1. CASE k + 1 \in s
            <4>1. Max(s) = k + 1
                <5>1. Max(s) \in s /\ k + 1 <= Max(s)
                    BY <3>1, MaxOf, k + 1 \in Nat
                <5>2. Max(s) \in 1 .. (k + 1)
                    BY <5>1
                <5> QED BY <5>1, <5>2
            <4>2. s \ {k + 1} \in SUBSET (1 .. (k + 1)) /\ k + 1 \notin s \ {k + 1} /\ s # {}
                BY <3>1
            <4>3. h[s] = op(env, it[s \ {k + 1}], seq[k + 1])
                BY <3>1
            <4>4. h[s \ {k + 1}] = it[s \ {k + 1}]
                BY <4>2
            <4> HIDE DEF h
            <4> QED BY <4>1, <4>2, <4>3, <4>4, Zenon
        <3>2. CASE k + 1 \notin s
            <4>1. s \in SUBSET (1 .. k) /\ h[s] = it[s]
                BY <3>2
            <4>2. it[s] = IF s = {} THEN base ELSE op(env, it[s \ {Max(s)}], seq[Max(s)])
                BY <2>1, <4>1, Zenon DEF SeqIter
            <4>3. /\ s \ {Max(s)} \in SUBSET (1 .. (k + 1))
                  /\ k + 1 \notin s \ {Max(s)}
                BY <3>2
            <4>4. h[s \ {Max(s)}] = it[s \ {Max(s)}]
                BY <4>3
            <4> HIDE DEF h
            <4> QED BY <4>1, <4>2, <4>4, Zenon
        <3> QED BY <3>1, <3>2
    <2>3. h = [s \in SUBSET (1 .. (k + 1)) |-> h[s]]
        OBVIOUS
    <2> HIDE DEF h
    <2>4. SeqIter(h, env, base, seq, k + 1)
        BY <2>2, <2>3, Zenon DEF SeqIter
    <2>5. k + 1 \in Nat
        OBVIOUS
    <2> QED BY <2>4, <2>5
<1>3. n \in 0 .. n /\ 0 \in Nat
    OBVIOUS
<1> HIDE DEF S
<1>4. n \in S
    BY <1>1, <1>2, <1>3, Induction
<1> QED BY <1>4 DEF S

\* The iteration follows the sequence from its first element to its last.
LEMMA SeqIterAlong ==
    ASSUME NEW env, NEW base, NEW seq, NEW n \in Nat, NEW it,
           SeqIter(it, env, base, seq, n)
    PROVE  Along([i \in 0 .. n |-> it[1 .. i]], env, base, seq, n)
<1> DEFINE acc == [i \in 0 .. n |-> it[1 .. i]]
<1>1. it[{}] = base
    BY Zenon, {} \in SUBSET (1 .. n) DEF SeqIter
<1>2. acc[0] = base
    BY <1>1, 1 .. 0 = {}
<1>3. ASSUME NEW i \in 1 .. n PROVE acc[i] = op(env, acc[i - 1], seq[i])
    <2>1. 1 .. i \in SUBSET (1 .. n) /\ i \in 1 .. i /\ 1 .. i # {}
        OBVIOUS
    <2>2. Max(1 .. i) = i
        <3>1. Max(1 .. i) \in 1 .. i /\ i <= Max(1 .. i)
            BY <2>1, MaxOf
        <3> QED BY <3>1
    <2>3. (1 .. i) \ {i} = 1 .. (i - 1)
        OBVIOUS
    <2>4. it[1 .. i] = op(env, it[1 .. (i - 1)], seq[i])
        BY <2>1, <2>2, <2>3, Zenon DEF SeqIter
    <2>5. acc[i] = it[1 .. i] /\ acc[i - 1] = it[1 .. (i - 1)]
        OBVIOUS
    <2> HIDE DEF acc
    <2> QED BY <2>4, <2>5, Zenon
<1>4. DOMAIN acc = 0 .. n
    OBVIOUS
<1> HIDE DEF acc
<1>5. Along(acc, env, base, seq, n)
    BY <1>2, <1>3, <1>4, Zenon DEF Along
<1> QED BY <1>5 DEF acc

\* FoldLeft goes along the sequence.
THEOREM FoldsAlong ==
    ASSUME NEW env, NEW base, NEW n \in Nat, NEW seq, DOMAIN seq = 1 .. n
    PROVE  \E acc : Along(acc, env, base, seq, n) /\ OverSeq(env, base, seq) = acc[n]
<1>1. \E it : SeqIter(it, env, base, seq, n)
    BY SeqIterExists
<1> DEFINE it == CHOOSE f : f = [s \in SUBSET DOMAIN seq |->
                    IF s = {} THEN base ELSE op(env, f[s \ {Max(s)}], seq[Max(s)])]
<1>2. SeqIter(it, env, base, seq, n)
    BY <1>1, Zenon DEF SeqIter
<1>3. OverSeq(env, base, seq) = it[1 .. n]
    BY Zenon DEF OverSeq, FoldLeft, MapThenFoldSet
<1> HIDE DEF it
<1> DEFINE acc == [i \in 0 .. n |-> it[1 .. i]]
<1>4. Along(acc, env, base, seq, n)
    BY <1>2, SeqIterAlong
<1>5. acc[n] = it[1 .. n]
    OBVIOUS
<1> HIDE DEF acc
<1> QED BY <1>3, <1>4, <1>5, Zenon
-----------------------------------------------------------------------------
(* The fold of a finite set *)

\* Induction: what holds of a set when it holds of it without any one element.
LEMMA SetInduction ==
    ASSUME NEW S, IsFiniteSet(S), NEW C,
           \A T \in SUBSET S : (\A x \in T : T \ {x} \in C) => T \in C
    PROVE  \A T \in SUBSET S : T \in C
<1> DEFINE D == {k \in Nat : \E T \in SUBSET S : Cardinality(T) = k /\ T \notin C}
<1> SUFFICES ASSUME NEW T0 \in SUBSET S, T0 \notin C PROVE FALSE
    OBVIOUS
<1>1. \A T \in SUBSET S : IsFiniteSet(T) /\ Cardinality(T) \in Nat
    BY FS_Subset, FS_CardinalityType
<1>2. D # {} /\ D \subseteq Nat
    BY <1>1
<1>3. PICK k \in D : \A j \in D : k <= j
    <2> HIDE DEF D
    <2> QED BY <1>2, LeastOf
<1>4. PICK T \in SUBSET S : Cardinality(T) = k /\ T \notin C
    BY <1>3
<1>5. PICK x \in T : T \ {x} \notin C
    BY <1>4
<1>6. T \ {x} \in SUBSET S /\ Cardinality(T \ {x}) = k - 1 /\ Cardinality(T \ {x}) \in Nat
    BY <1>1, <1>4, FS_RemoveElement
<1>7. k - 1 \in D
    BY <1>5, <1>6
<1>8. k \in Nat
    BY <1>3
<1> HIDE DEF D
<1> QED BY <1>3, <1>7, <1>8

Chosen(s) == CHOOSE x \in s : TRUE

\* The function that FoldSet chooses, on the subsets with up to k elements.
SetIter(it, env, base, S, k) ==
    it = [s \in {t \in SUBSET S : Cardinality(t) <= k} |->
            IF s = {} THEN base ELSE op(env, it[s \ {Chosen(s)}], Chosen(s))]

\* The size of a subset.
LEMMA Counted ==
    ASSUME NEW S, IsFiniteSet(S), NEW t, t \in SUBSET S
    PROVE  Cardinality(t) \in Nat /\ (Cardinality(t) = 0 <=> t = {})
BY FS_Subset, FS_CardinalityType, FS_EmptySet

\* The size of a subset with one element less.
LEMMA OneLess ==
    ASSUME NEW S, IsFiniteSet(S), NEW t, t \in SUBSET S, NEW x, x \in t
    PROVE  Cardinality(t \ {x}) = Cardinality(t) - 1
BY FS_Subset, FS_RemoveElement

\* The iteration over the subsets of a set exists.
LEMMA SetIterExists ==
    ASSUME NEW env, NEW base, NEW S, IsFiniteSet(S), NEW n \in Nat
    PROVE  \E it : SetIter(it, env, base, S, n)
<1> DEFINE Small(k) == {t \in SUBSET S : Cardinality(t) <= k}
           K == {k \in Nat : \E it : SetIter(it, env, base, S, k)}
<1>0. \A t : t # {} => Chosen(t) \in t
    BY DEF Chosen
<1>1. 0 \in K
    <2> DEFINE it == [s \in Small(0) |-> base]
    <2>1. ASSUME NEW s \in Small(0) PROVE s = {}
        <3>1. s \in SUBSET S /\ Cardinality(s) <= 0
            OBVIOUS
        <3>2. Cardinality(s) \in Nat /\ (Cardinality(s) = 0 <=> s = {})
            BY <3>1, Counted
        <3> QED BY <3>1, <3>2
    <2>2. it = [s \in Small(0) |->
                    IF s = {} THEN base ELSE op(env, it[s \ {Chosen(s)}], Chosen(s))]
        BY <2>1
    <2>3. SetIter(it, env, base, S, 0)
        BY <2>2, Zenon DEF SetIter
    <2> QED BY <2>3
<1>2. ASSUME NEW k \in 0 .. n, k \in K, k < n PROVE k + 1 \in K
    <2>1. PICK it : SetIter(it, env, base, S, k)
        BY <1>2
    <2> DEFINE h == [s \in Small(k + 1) |->
                       IF Cardinality(s) <= k THEN it[s]
                       ELSE op(env, it[s \ {Chosen(s)}], Chosen(s))]
    <2>2. ASSUME NEW s \in Small(k + 1)
          PROVE  h[s] = IF s = {} THEN base ELSE op(env, h[s \ {Chosen(s)}], Chosen(s))
        <3> HIDE DEF Small
        <3>0. s \in SUBSET S /\ Cardinality(s) <= k + 1
            BY DEF Small
        <3>1. s # {} => /\ s \ {Chosen(s)} \in Small(k + 1)
                        /\ Cardinality(s \ {Chosen(s)}) <= k
            <4> SUFFICES ASSUME s # {}
                PROVE  /\ s \ {Chosen(s)} \in Small(k + 1)
                       /\ Cardinality(s \ {Chosen(s)}) <= k
                OBVIOUS
            <4>1. Chosen(s) \in s
                BY <1>0
            <4>2. /\ Cardinality(s \ {Chosen(s)}) = Cardinality(s) - 1
                  /\ Cardinality(s) \in Nat
                BY <3>0, <4>1, Counted, OneLess
            <4>3. s \ {Chosen(s)} \in SUBSET S
                BY <3>0
            <4>4. Cardinality(s) - 1 <= k /\ Cardinality(s) - 1 <= k + 1
                BY <3>0, <4>2
            <4> QED BY <4>2, <4>3, <4>4, Zenon DEF Small
        <3>2. s # {} => h[s \ {Chosen(s)}] = it[s \ {Chosen(s)}]
            BY <3>1
        <3>3. CASE Cardinality(s) <= k
            <4>1. h[s] = it[s] /\ s \in Small(k)
                BY <3>0, <3>3 DEF Small
            <4>2. it[s] = IF s = {} THEN base ELSE op(env, it[s \ {Chosen(s)}], Chosen(s))
                BY <2>1, <4>1, Zenon DEF SetIter, Small
            <4> HIDE DEF h
            <4> QED BY <3>2, <4>1, <4>2, Zenon
        <3>4. CASE ~(Cardinality(s) <= k)
            <4>1. h[s] = op(env, it[s \ {Chosen(s)}], Chosen(s))
                BY <3>4
            <4>2. s # {}
                BY <3>0, <3>4, Counted
            <4> HIDE DEF h
            <4> QED BY <3>2, <4>1, <4>2, Zenon
        <3> QED BY <3>3, <3>4
    <2>3. h = [s \in Small(k + 1) |-> h[s]]
        OBVIOUS
    <2> HIDE DEF h
    <2>4. SetIter(h, env, base, S, k + 1)
        BY <2>2, <2>3, Zenon DEF SetIter
    <2>5. k + 1 \in Nat
        OBVIOUS
    <2> HIDE DEF Small
    <2> QED BY <2>4, <2>5
<1>3. n \in 0 .. n /\ 0 \in Nat
    OBVIOUS
<1> HIDE DEF K
<1>4. n \in K
    BY <1>1, <1>2, <1>3, Induction
<1> QED BY <1>4 DEF K

\* The same on all the subsets.
OnSubsets(it, env, base, S) ==
    /\ DOMAIN it = SUBSET S
    /\ it[{}] = base
    /\ \A s \in SUBSET S : s # {} => it[s] = op(env, it[s \ {Chosen(s)}], Chosen(s))

\* FoldSet is the iteration over the subsets.
LEMMA OverSetIs ==
    ASSUME NEW env, NEW base, NEW S, IsFiniteSet(S)
    PROVE  \E it : OnSubsets(it, env, base, S) /\ OverSet(env, base, S) = it[S]
<1> DEFINE it == CHOOSE f : f = [s \in SUBSET S |->
                    IF s = {} THEN base ELSE op(env, f[s \ {Chosen(s)}], Chosen(s))]
<1>1. Cardinality(S) \in Nat
    BY FS_CardinalityType
<1>2. PICK f : SetIter(f, env, base, S, Cardinality(S))
    BY <1>1, SetIterExists
<1>3. {t \in SUBSET S : Cardinality(t) <= Cardinality(S)} = SUBSET S
    BY FS_Subset
<1>4. \E g : g = [s \in SUBSET S |->
                    IF s = {} THEN base ELSE op(env, g[s \ {Chosen(s)}], Chosen(s))]
    BY <1>2, <1>3, Zenon DEF SetIter
<1>5. it = [s \in SUBSET S |->
                    IF s = {} THEN base ELSE op(env, it[s \ {Chosen(s)}], Chosen(s))]
    BY <1>4, Zenon
<1>6. OverSet(env, base, S) = it[S]
    BY Zenon DEF OverSet, FoldSet, MapThenFoldSet, Chosen
<1> HIDE DEF it
<1>7. {} \in SUBSET S
    OBVIOUS
<1>8. OnSubsets(it, env, base, S)
    BY <1>5, <1>7, Zenon DEF OnSubsets
<1> QED BY <1>6, <1>8

Closed(env, A, S) == \A a \in A, x \in S : op(env, a, x) \in A
Commutes(env, A, S) ==
    \A a \in A, x, y \in S : op(env, op(env, a, x), y) = op(env, op(env, a, y), x)

\* The iteration stays in a set that the operator stays in.
LEMMA IterType ==
    ASSUME NEW env, NEW A, NEW base \in A, NEW S, IsFiniteSet(S), Closed(env, A, S),
           NEW it, OnSubsets(it, env, base, S)
    PROVE  \A s \in SUBSET S : it[s] \in A
<1> DEFINE C == {s \in SUBSET S : it[s] \in A}
<1>1. ASSUME NEW T \in SUBSET S, \A x \in T : T \ {x} \in C PROVE T \in C
    <2>1. CASE T = {}
        BY <2>1, Zenon DEF OnSubsets
    <2>2. CASE T # {}
        <3>1. Chosen(T) \in T
            BY <2>2 DEF Chosen
        <3>2. it[T] = op(env, it[T \ {Chosen(T)}], Chosen(T))
            BY <2>2, Zenon DEF OnSubsets
        <3>3. it[T \ {Chosen(T)}] \in A /\ Chosen(T) \in S
            BY <1>1, <3>1
        <3>4. it[T] \in A
            BY <3>2, <3>3, Zenon DEF Closed
        <3> QED BY <3>4
    <2> QED BY <2>1, <2>2
<1> HIDE DEF C
<1>2. \A T \in SUBSET S : T \in C
    BY <1>1, SetInduction
<1> QED BY <1>2 DEF C

\* Any element may be the last.
LastIsAny(it, env, S) ==
    \A s \in SUBSET S : \A x \in s : it[s] = op(env, it[s \ {x}], x)

\* If the operator commutes, any element may be the last one.
LEMMA AnyLast ==
    ASSUME NEW env, NEW A, NEW base \in A, NEW S, IsFiniteSet(S),
           Closed(env, A, S), Commutes(env, A, S),
           NEW it, OnSubsets(it, env, base, S)
    PROVE  LastIsAny(it, env, S)
<1> DEFINE C == {s \in SUBSET S : \A x \in s : it[s] = op(env, it[s \ {x}], x)}
<1>0. \A s \in SUBSET S : it[s] \in A
    BY IterType
<1>1. ASSUME NEW T \in SUBSET S, \A x \in T : T \ {x} \in C PROVE T \in C
    <2>1. ASSUME NEW x \in T PROVE it[T] = op(env, it[T \ {x}], x)
        <3>1. PICK p : p = Chosen(T)
            OBVIOUS
        <3>2. p \in T /\ T # {}
            BY <3>1 DEF Chosen
        <3>3. it[T] = op(env, it[T \ {p}], p)
            BY <3>1, <3>2, Zenon DEF OnSubsets
        <3>4. CASE x = p
            BY <3>3, <3>4
        <3>5. CASE x # p
            <4>1. T \ {p} \in C /\ x \in T \ {p} /\ T \ {x} \in C /\ p \in T \ {x}
                BY <1>1, <3>2, <3>5
            <4>2. (T \ {p}) \ {x} = (T \ {x}) \ {p}
                OBVIOUS
            <4>3. it[T \ {p}] = op(env, it[(T \ {x}) \ {p}], x)
                BY <4>1, <4>2
            <4>4. it[T \ {x}] = op(env, it[(T \ {x}) \ {p}], p)
                BY <4>1
            <4>5. it[(T \ {x}) \ {p}] \in A /\ x \in S /\ p \in S
                BY <1>0, <3>2
            <4> HIDE DEF C
            <4>6. PICK z : z = it[(T \ {x}) \ {p}]
                OBVIOUS
            <4>7. op(env, op(env, z, x), p) = op(env, op(env, z, p), x)
                BY <4>5, <4>6, Zenon DEF Commutes
            <4> QED BY <3>3, <4>3, <4>4, <4>6, <4>7, Zenon
        <3> QED BY <3>4, <3>5
    <2> QED BY <2>1
<1> HIDE DEF C
<1>2. \A T \in SUBSET S : T \in C
    BY <1>1, SetInduction
<1> QED BY <1>2 DEF C, LastIsAny

\* The iteration on a subset does not depend on the rest of the set.
LEMMA IterUnique ==
    ASSUME NEW env, NEW base, NEW S, IsFiniteSet(S), NEW U, U \subseteq S,
           NEW it, OnSubsets(it, env, base, S), NEW jt, OnSubsets(jt, env, base, U)
    PROVE  it[U] = jt[U]
<1> DEFINE C == {s \in SUBSET U : it[s] = jt[s]}
<1>0. IsFiniteSet(U)
    BY FS_Subset
<1>1. ASSUME NEW T \in SUBSET U, \A x \in T : T \ {x} \in C PROVE T \in C
    <2>0. T \in SUBSET S
        OBVIOUS
    <2>1. CASE T = {}
        BY <2>1, Zenon DEF OnSubsets
    <2>2. CASE T # {}
        <3>1. Chosen(T) \in T
            BY <2>2 DEF Chosen
        <3>2. /\ it[T] = op(env, it[T \ {Chosen(T)}], Chosen(T))
              /\ jt[T] = op(env, jt[T \ {Chosen(T)}], Chosen(T))
            BY <2>0, <2>2, Zenon DEF OnSubsets
        <3>3. it[T \ {Chosen(T)}] = jt[T \ {Chosen(T)}]
            BY <1>1, <3>1
        <3>4. it[T] = jt[T]
            BY <3>2, <3>3, Zenon
        <3> QED BY <3>4
    <2> QED BY <2>1, <2>2
<1> HIDE DEF C
<1>2. \A T \in SUBSET U : T \in C
    BY <1>0, <1>1, SetInduction
<1>3. U \in C
    BY <1>2
<1> QED BY <1>3 DEF C

\* A fold over the empty set is its base.
THEOREM OverSetEmpty ==
    ASSUME NEW env, NEW base
    PROVE  OverSet(env, base, {}) = base
<1>1. IsFiniteSet({})
    BY FS_EmptySet
<1>2. PICK S : S = {}
    OBVIOUS
<1>3. PICK it : OnSubsets(it, env, base, S) /\ OverSet(env, base, S) = it[S]
    BY <1>1, <1>2, OverSetIs
<1> QED BY <1>2, <1>3, Zenon DEF OnSubsets

\* A fold over a set stays in a set that the operator stays in.
THEOREM OverSetType ==
    ASSUME NEW env, NEW A, NEW base \in A, NEW S, IsFiniteSet(S), Closed(env, A, S)
    PROVE  OverSet(env, base, S) \in A
<1>1. PICK it : OnSubsets(it, env, base, S) /\ OverSet(env, base, S) = it[S]
    BY OverSetIs
<1>2. \A s \in SUBSET S : it[s] \in A
    BY <1>1, IterType
<1> QED BY <1>1, <1>2

\* An element that is added comes last.
THEOREM OverSetInsert ==
    ASSUME NEW env, NEW A, NEW base \in A, NEW S, IsFiniteSet(S), NEW x, x \notin S,
           NEW U, U = S \cup {x}, Closed(env, A, U), Commutes(env, A, U)
    PROVE  OverSet(env, base, U) = op(env, OverSet(env, base, S), x)
<1>1. IsFiniteSet(U)
    BY FS_AddElement
<1>2. PICK it : OnSubsets(it, env, base, U) /\ OverSet(env, base, U) = it[U]
    BY <1>1, OverSetIs
<1>3. PICK jt : OnSubsets(jt, env, base, S) /\ OverSet(env, base, S) = jt[S]
    BY OverSetIs
<1>4. S \subseteq U /\ U \in SUBSET U /\ x \in U /\ U \ {x} = S
    OBVIOUS
<1>5. it[S] = jt[S]
    BY <1>1, <1>2, <1>3, <1>4, IterUnique
<1>6. LastIsAny(it, env, U)
    BY <1>1, <1>2, AnyLast
<1>7. it[U] = op(env, it[S], x)
    BY <1>4, <1>6 DEF LastIsAny
<1> QED BY <1>2, <1>3, <1>5, <1>7
=============================================================================
