--------------------------- MODULE KatSort_proofs ---------------------------
(* kat -s for every number of files, every number of events and of rows for  *)
(* each: no row is lost, and the rows of dealt events come out in the order *)
(* of the event ids.                                                        *)
(*                                                                          *)
(* Why the dealt rows are sorted: the ids in a file are congruent modulo    *)
(* the number of files, and the files are visited in the order of their     *)
(* residues.  One event is expected at every visit, so between two visits   *)
(* the expected id grows by no more than the distance of the residues (by   *)
(* less when files between them are exhausted).  A file passed over while   *)
(* its next id was still ahead therefore holds no id below one that is due. *)
EXTENDS KatSort, FiniteSetTheorems, TLAPS

\* The turn of a file in a round: the residue of the events dealt to it.
Turn(f) == Order(first + f - 1)

\* The files still in the round, and the rows printed.
Visited(o, f) == \E m \in 1 .. Len(o) : o[m] = f
Active(f) == Visited(orders, f)
Printed(f, n) == \E m \in 1 .. Len(out) : out[m] = <<f, n>>
PrintedId(m) == files[out[m][1]][out[m][2]]

TypeOK ==
    /\ split \in Splits /\ first \in Nat \ {0}
    /\ left \subseteq Nat \ {0}
    /\ files \in [File -> Seq(Nat \ {0})]
    /\ pc \in {"write", "merge", "done"}
    /\ row \in [File -> Nat \ {0}]
    /\ orders \in Seq(File)
    /\ it \in Nat \ {0}
    /\ expectedEventID \in Nat \ {0}
    /\ out \in Seq(File \X Nat)

\* The round visits every file at most once, and a file in it has a row.
Round ==
    /\ pc = "write" => row = [f \in File |-> 1] /\ orders = <<>> /\ out = <<>>
    /\ pc = "write" => it = 1 /\ expectedEventID = 1
    /\ pc = "done" => orders = <<>>
    /\ \A m, n \in 1 .. Len(orders) : orders[m] = orders[n] => m = n
    /\ \A m \in 1 .. Len(orders) : row[orders[m]] <= Len(files[orders[m]])

\* A row is printed or its file is still in the round, not beyond it.
Rows ==
    /\ pc # "write" =>
        \A f \in File : \A n \in 1 .. Len(files[f]) :
            Printed(f, n) \/ (Active(f) /\ row[f] <= n)
    /\ \A m \in 1 .. Len(out) :
        /\ out[m][2] \in 1 .. Len(files[out[m][1]])
        /\ Active(out[m][1]) => out[m][2] < row[out[m][1]]
    /\ \A m, n \in 1 .. Len(out) :
        m < n /\ out[m][1] = out[n][1] => out[m][2] < out[n][2]

\* What eve's deal makes of the files.
Files ==
    /\ \A f \in File : \A n \in 1 .. Len(files[f]) :
        /\ Order(files[f][n]) = Turn(f)
        /\ \A k \in left : files[f][n] < Id(k)
    /\ \A f \in File : \A m, n \in 1 .. Len(files[f]) : m <= n => files[f][m] <= files[f][n]

\* The turn of the file to be visited next, and how many turns ago file m of
\* the round was visited, at most.
NextTurn == IF it <= Len(orders) THEN Turn(orders[it]) ELSE Turn(orders[1]) + NFiles
TurnsSince(m) == NextTurn + (IF m < it THEN 0 ELSE NFiles) - Turn(orders[m])

Schedule ==
    /\ \A m, n \in 1 .. Len(orders) : m < n => Turn(orders[m]) < Turn(orders[n])
    /\ \A m \in 1 .. Len(orders) : HeadId(orders[m]) > expectedEventID - TurnsSince(m)
    /\ \A m \in 1 .. Len(out), n \in 1 .. Len(orders) : PrintedId(m) <= HeadId(orders[n])

Sorted == split = "deal" => Files /\ Schedule /\ SortedByEvent

IInv == TypeOK /\ Round /\ Rows /\ Sorted
-----------------------------------------------------------------------------
(* Residues.                                                                *)
LEMMA Division ==
    ASSUME NEW n \in Int, NEW t \in Nat \ {0}
    PROVE  /\ n \div t \in Int /\ n % t \in 0 .. t - 1
           /\ n = t * (n \div t) + (n % t)
<1>1. n % t = n - t * (n \div t)
    OBVIOUS
<1>2. n \div t \in Int /\ n % t \in 0 .. t - 1
    OBVIOUS
<1>3. t * (n \div t) \in Int
    OBVIOUS
<1> QED BY <1>1, <1>2, <1>3

\* Multiples of t: their sums, and those close to zero.
LEMMA Multiples ==
    ASSUME NEW t \in Nat \ {0}, NEW q \in Int
    PROVE  /\ t * q \in Int
           /\ t * (q - 1) = t * q - t
           /\ \A u \in Int : t * (q + u) = t * q + t * u /\ t * (q - u) = t * q - t * u
           /\ t * q < t => t * q <= 0
           /\ t * q < 0 => t * q <= -t
           /\ t * q < t /\ -t < t * q => t * q = 0
<1>1. /\ t * q \in Int
      /\ t * (q - 1) = t * q - t
      /\ \A u \in Int : t * (q + u) = t * q + t * u /\ t * (q - u) = t * q - t * u
    OBVIOUS
<1>2. CASE q <= -1
    BY <1>1, <1>2
<1>3. CASE q = 0
    BY <1>1, <1>3
<1>4. CASE q >= 1
    BY <1>1, <1>4
<1> QED BY <1>1, <1>2, <1>3, <1>4

\* An id is a multiple of the number of files and the order of its file.
LEMMA OrderOf ==
    ASSUME NEW id \in Nat
    PROVE  /\ Order(id) \in 1 .. NFiles
           /\ \E q \in Int : id = NFiles * q + Order(id)
<1> DEFINE d == id \div NFiles
           r == id % NFiles
<1>1. NFiles \in Nat \ {0}
    BY KatAssumption
<1>2. d \in Int /\ r \in 0 .. NFiles - 1 /\ id = NFiles * d + r
    BY <1>1, Division
<1>3. Order(id) = IF r = 0 THEN NFiles ELSE r
    BY DEF Order
<1> HIDE DEF d, r
<1>4. CASE r = 0
    <2>1. PICK x \in Int : x = NFiles * d
        BY <1>1, <1>2, Multiples
    <2>2. PICK y \in Int : y = NFiles * (d - 1)
        BY <1>1, <1>2, Multiples
    <2>3. y = x - NFiles
        BY <1>1, <1>2, <2>1, <2>2, Multiples
    <2>4. id = y + Order(id) /\ Order(id) \in 1 .. NFiles
        BY <1>1, <1>2, <1>3, <1>4, <2>1, <2>3
    <2> QED BY <1>2, <2>2, <2>4
<1>5. CASE r # 0
    <2>1. Order(id) = r /\ r \in 1 .. NFiles
        BY <1>1, <1>2, <1>3, <1>5
    <2> QED BY <1>2, <2>1
<1> QED BY <1>4, <1>5

\* Numbers whose difference is a multiple of the number of files, and only
\* they, have the same order.
LEMMA SameOrder ==
    ASSUME NEW a \in Nat, NEW b \in Nat
    PROVE  Order(a) = Order(b) <=> \E q \in Int : b - a = NFiles * q
<1>1. PICK u \in Int : a = NFiles * u + Order(a)
    BY OrderOf
<1>2. PICK v \in Int : b = NFiles * v + Order(b)
    BY OrderOf
<1>3. /\ NFiles \in Nat \ {0} /\ Order(a) \in 1 .. NFiles /\ Order(b) \in 1 .. NFiles
    BY KatAssumption, OrderOf
<1>4. /\ NFiles * u \in Int /\ NFiles * v \in Int
      /\ NFiles * (v - u) = NFiles * v - NFiles * u /\ v - u \in Int
    BY <1>1, <1>2, <1>3, Multiples
<1>5. ASSUME Order(a) = Order(b)
      PROVE  \E q \in Int : b - a = NFiles * q
    <2>1. b - a = NFiles * v - NFiles * u
        BY <1>1, <1>2, <1>3, <1>4, <1>5
    <2> QED BY <1>4, <2>1
<1>6. ASSUME NEW q \in Int, b - a = NFiles * q
      PROVE  Order(a) = Order(b)
    <2>1. PICK w \in Int : w = q - (v - u)
        BY <1>1, <1>2
    <2>2. NFiles * w = NFiles * q - NFiles * (v - u) /\ NFiles * q \in Int
        BY <1>3, <1>4, <2>1, Multiples
    <2>3. NFiles * w = Order(b) - Order(a)
        <3>1. b - a = NFiles * (v - u) + (Order(b) - Order(a))
            BY <1>1, <1>2, <1>3, <1>4
        <3> QED BY <1>3, <1>4, <1>6, <2>2, <3>1
    <2>4. NFiles * w < NFiles /\ -NFiles < NFiles * w
        BY <1>3, <2>3
    <2>5. NFiles * w = 0
        BY <1>3, <2>1, <2>4, Multiples
    <2> QED BY <1>3, <2>3, <2>5
<1> QED BY <1>5, <1>6

\* The next event of a file passed over is not before one that is due.  The
\* distance of the two visits is no more than that of the residues.
LEMMA NotOvertaken ==
    ASSUME NEW a \in Nat, NEW b \in Nat, NEW turns \in Int,
           b - a < turns,
           turns = Order(b) - Order(a) \/ turns = Order(b) - Order(a) + NFiles,
           turns < NFiles
    PROVE  b <= a
<1>1. PICK u \in Int : a = NFiles * u + Order(a)
    BY OrderOf
<1>2. PICK v \in Int : b = NFiles * v + Order(b)
    BY OrderOf
<1>3. /\ NFiles \in Nat \ {0} /\ Order(a) \in 1 .. NFiles /\ Order(b) \in 1 .. NFiles
    BY KatAssumption, OrderOf
<1>4. PICK w \in Int : w = v - u
    BY <1>1, <1>2
<1>5. PICK x \in Int : x = NFiles * w
    BY <1>3, <1>4, Multiples
<1>6. b - a = x + (Order(b) - Order(a))
    BY <1>1, <1>2, <1>3, <1>4, <1>5, Multiples
<1>7. (x < NFiles => x <= 0) /\ (x < 0 => x <= -NFiles)
    BY <1>3, <1>4, <1>5, Multiples
<1> QED BY <1>3, <1>5, <1>6, <1>7

\* The rows of a dealt event have the turn of their file, and no two files
\* have the same.
LEMMA DealtTurn ==
    ASSUME TypeOK, NEW k \in Nat \ {0}, NEW f \in File, Deal!Owned(f, k)
    PROVE  Id(k) \in Nat \ {0} /\ Order(Id(k)) = Turn(f)
<1>1. NFiles \in Nat \ {0} /\ f \in 1 .. NFiles /\ first \in Nat \ {0}
    BY KatAssumption DEF File, TypeOK
<1>2. (k - f) % NFiles = 0
    BY DEF Deal!Owned, Deal!Blockwise, Deal!Mode, Deal!Dealt
<1>3. PICK q \in Int : k - f = NFiles * q
    <2>1. PICK c \in Int : c = k - f
        BY <1>1
    <2>2. PICK d \in Int : d = c \div NFiles
        BY <1>1, <2>1, Division
    <2>3. c = NFiles * d + (c % NFiles)
        BY <1>1, <2>1, <2>2, Division
    <2>4. c % NFiles = 0
        BY <1>2, <2>1
    <2>5. NFiles * d \in Int
        BY <1>1, <2>2, Multiples
    <2> QED BY <2>1, <2>2, <2>3, <2>4, <2>5
<1>4. Id(k) \in Nat \ {0} /\ first + f - 1 \in Nat /\ Id(k) - (first + f - 1) = NFiles * q
    <2>1. Id(k) - (first + f - 1) = k - f
        BY <1>1 DEF Id
    <2> QED BY <1>1, <1>3, <2>1 DEF Id
<1> QED BY <1>4, SameOrder DEF Turn

\* Every file has a turn of its own.
LEMMA Turns ==
    ASSUME TypeOK
    PROVE  /\ NFiles \in Nat \ {0}
           /\ \A f \in File : Turn(f) \in 1 .. NFiles
           /\ \A f, g \in File : Turn(f) = Turn(g) => f = g
<1>1. NFiles \in Nat \ {0} /\ first \in Nat \ {0}
    BY KatAssumption DEF TypeOK
<1>2. \A f \in File : first + f - 1 \in Nat
    BY <1>1 DEF File
<1>3. ASSUME NEW f \in File, NEW g \in File, Turn(f) = Turn(g)
      PROVE  f = g
    <2>1. PICK q \in Int : (first + g - 1) - (first + f - 1) = NFiles * q
        BY <1>2, <1>3, SameOrder DEF Turn
    <2>2. f \in 1 .. NFiles /\ g \in 1 .. NFiles
        BY DEF File
    <2>3. NFiles * q = g - f
        BY <1>1, <2>1, <2>2
    <2>4. NFiles * q = 0
        BY <1>1, <2>2, <2>3, Multiples
    <2> QED BY <2>2, <2>3, <2>4
<1> QED BY <1>1, <1>2, <1>3, OrderOf DEF Turn

-----------------------------------------------------------------------------
(* Eltcalc writes the files.                                                *)
LEMMA InitStep == ASSUME Init PROVE IInv
<1>1. TypeOK
    BY KatAssumption DEF Init, TypeOK, File
<1>2. Round /\ Rows
    BY DEF Init, Round, Rows
<1>3. Files /\ Schedule /\ SortedByEvent
    BY DEF Init, Files, Schedule, SortedByEvent
<1> QED BY <1>1, <1>2, <1>3 DEF IInv, Sorted

\* WriteEvent keeps IInv.
LEMMA WriteStep ==
    ASSUME IInv, WriteEvent
    PROVE  IInv'
<1>1. PICK k \in left, f \in File, n \in RowCounts :
        /\ Emitted(k, f)
        /\ files' = [files EXCEPT ![f] = files[f] \o [i \in 1 .. n |-> Id(k)]]
        /\ left' = left \ {k}
    BY DEF WriteEvent
<1>2. /\ TypeOK /\ pc = "write" /\ row = [g \in File |-> 1] /\ orders = <<>> /\ out = <<>>
      /\ UNCHANGED <<split, first, pc, row, orders, it, expectedEventID, out>>
    BY DEF IInv, Round, WriteEvent
<1>3. /\ n \in Nat /\ k \in Nat \ {0} /\ Id(k) \in Nat \ {0} /\ files[f] \in Seq(Nat \ {0})
    BY <1>1, <1>2, KatAssumption DEF TypeOK, Id
<1>4. PICK w : w = files[f] \o [i \in 1 .. n |-> Id(k)]
    OBVIOUS
<1>5. /\ w \in Seq(Nat \ {0})
      /\ \A m \in 1 .. Len(w) : IF m <= Len(files[f]) THEN w[m] = files[f][m] ELSE w[m] = Id(k)
    BY <1>3, <1>4
<1>6. /\ files' \in [File -> Seq(Nat \ {0})] /\ files'[f] = w
      /\ \A g \in File : g # f => files'[g] = files[g]
    BY <1>1, <1>2, <1>4, <1>5 DEF TypeOK
<1>7. TypeOK'
    BY <1>1, <1>2, <1>6 DEF TypeOK
<1>8. Round' /\ Rows'
    <2>1. Round'
        BY <1>2 DEF IInv, Round
    <2> QED BY <1>2, <2>1 DEF Rows
<1>9. Sorted'
    <2> SUFFICES ASSUME split = "deal" PROVE Files' /\ Schedule' /\ SortedByEvent'
        BY <1>2 DEF Sorted
    <2>1. Files /\ Order(Id(k)) = Turn(f) /\ \A j \in left : k <= j
        BY <1>1, <1>2, <1>3, DealtTurn DEF IInv, Sorted, Emitted
    <2>2. \A j \in left' : Id(k) < Id(j)
        BY <1>1, <1>2, <1>3, <2>1 DEF TypeOK, Id
    <2>3. /\ \A m \in 1 .. Len(files[f]) :
                /\ files[f][m] \in Nat \ {0}
                /\ Order(files[f][m]) = Turn(f) /\ files[f][m] < Id(k)
                /\ \A j \in left' : files[f][m] < Id(j)
          /\ \A l, m \in 1 .. Len(files[f]) : l <= m => files[f][l] <= files[f][m]
        <3>1. \A m \in 1 .. Len(files[f]) : files[f][m] \in Nat \ {0}
            BY <1>3
        <3> QED BY <1>1, <2>1, <3>1 DEF Files
    <2>4. /\ \A m \in 1 .. Len(w) : Order(w[m]) = Turn(f) /\ \A j \in left' : w[m] < Id(j)
          /\ \A l, m \in 1 .. Len(w) : l <= m => w[l] <= w[m]
        <3>1. \A m \in 1 .. Len(w) :
                 \/ m \in 1 .. Len(files[f]) /\ w[m] = files[f][m]
                 \/ m \notin 1 .. Len(files[f]) /\ Len(files[f]) < m /\ w[m] = Id(k)
            BY <1>3, <1>5
        <3>2. \A m \in 1 .. Len(w) : Order(w[m]) = Turn(f) /\ \A j \in left' : w[m] < Id(j)
            BY <2>1, <2>2, <2>3, <3>1
        <3>3. ASSUME NEW l \in 1 .. Len(w), NEW m \in 1 .. Len(w), l <= m
              PROVE  w[l] <= w[m]
            <4>1. CASE m \in 1 .. Len(files[f])
                <5>1. l \in 1 .. Len(files[f])
                    BY <1>3, <3>3, <4>1
                <5> QED BY <2>3, <3>1, <3>3, <4>1, <5>1
            <4>2. CASE w[m] = Id(k)
                <5>1. CASE l \in 1 .. Len(files[f]) /\ w[l] = files[f][l]
                    <6>1. PICK a : a = files[f][l]
                        OBVIOUS
                    <6>2. a \in Nat /\ a < Id(k)
                        BY <2>3, <5>1, <6>1
                    <6> QED BY <1>3, <4>2, <5>1, <6>1, <6>2
                <5>2. CASE w[l] = Id(k)
                    BY <1>3, <4>2, <5>2
                <5> QED BY <3>1, <5>1, <5>2
            <4> QED BY <3>1, <4>1, <4>2
        <3> QED BY <3>2, <3>3
    <2>5. \A g \in File : g # f =>
             /\ \A m \in 1 .. Len(files'[g]) :
                   /\ Order(files'[g][m]) = Turn(g)
                   /\ \A j \in left' : files'[g][m] < Id(j)
             /\ \A l, m \in 1 .. Len(files'[g]) : l <= m => files'[g][l] <= files'[g][m]
        BY <1>1, <1>6, <2>1 DEF Files
    <2>6. Files'
        BY <1>2, <1>6, <2>4, <2>5 DEF Files, Turn, Id
    <2>7. Schedule' /\ SortedByEvent'
        BY <1>2 DEF Schedule, SortedByEvent
    <2> QED BY <2>6, <2>7
<1> QED BY <1>7, <1>8, <1>9 DEF IInv

-----------------------------------------------------------------------------
(* The heads are read and sorted.                                           *)
LEMMA Enumeration ==
    ASSUME NEW S, IsFiniteSet(S), NEW o \in SetToSeqs(S)
    PROVE  /\ o \in Seq(S)
           /\ \A m, n \in 1 .. Len(o) : o[m] = o[n] => m = n
           /\ \A x \in S : \E m \in 1 .. Len(o) : o[m] = x
<1> DEFINE D == 1 .. Cardinality(S)
<1>1. Cardinality(S) \in Nat
    BY FS_CardinalityType
<1>2. o \in [D -> S] /\ \A m, n \in D : m # n => o[m] # o[n]
    BY DEF SetToSeqs
<1>3. o \in Injection(D, S)
    BY <1>2 DEF Injection, IsInjective
<1>4. Cardinality(D) = Cardinality(S)
    BY <1>1, FS_Interval
<1>5. o \in Surjection(D, S)
    BY <1>3, <1>4, FS_Injection
<1>6. o \in Seq(S) /\ D = 1 .. Len(o)
    BY <1>1, <1>2
<1> QED BY <1>2, <1>5, <1>6 DEF Surjection

\* ReadHeads keeps IInv.
LEMMA ReadHeadsStep ==
    ASSUME IInv, ReadHeads
    PROVE  IInv'
<1> DEFINE S == {f \in File : files[f] # <<>>}
<1>1. /\ TypeOK /\ pc = "write" /\ row = [g \in File |-> 1] /\ orders = <<>> /\ out = <<>>
      /\ it = 1 /\ expectedEventID = 1 /\ pc' = "merge"
      /\ UNCHANGED <<upstream, row, it, expectedEventID, out>>
    BY DEF IInv, Round, ReadHeads
<1>2. IsFiniteSet(S)
    <2>1. IsFiniteSet(File)
        BY KatAssumption, FS_Interval DEF File
    <2> QED BY <2>1, FS_Subset
<1>3. PICK o \in SetToSeqs(S) :
        /\ orders' = o
        /\ \A m, n \in 1 .. Len(o) : m < n => Order(HeadId(o[m])) <= Order(HeadId(o[n]))
    BY DEF ReadHeads
<1> HIDE DEF S
<1>4. /\ o \in Seq(S)
      /\ \A m, n \in 1 .. Len(o) : o[m] = o[n] => m = n
      /\ \A f \in S : \E m \in 1 .. Len(o) : o[m] = f
    BY <1>2, Enumeration
<1>5. \A f \in S : f \in File /\ files[f] \in Seq(Nat \ {0}) /\ 1 \in 1 .. Len(files[f])
    BY <1>1 DEF S, TypeOK
<1>6. \A m \in 1 .. Len(o) : o[m] \in S
    BY <1>4
<1>7. TypeOK'
    <2>1. o \in Seq(File)
        BY <1>4, <1>5
    <2> QED BY <1>1, <1>3, <2>1 DEF TypeOK, upstream
<1>8. Round'
    <2>1. \A m \in 1 .. Len(o) : row[o[m]] <= Len(files[o[m]])
        BY <1>1, <1>5, <1>6
    <2> QED BY <1>1, <1>3, <1>4, <2>1 DEF Round, upstream
<1>9. Rows'
    <2>1. \A f \in File : \A n \in 1 .. Len(files[f]) :
             (\E m \in 1 .. Len(o) : o[m] = f) /\ row[f] <= n
        <3> TAKE f \in File
        <3> TAKE n \in 1 .. Len(files[f])
        <3>1. files[f] \in Seq(Nat \ {0})
            BY <1>1 DEF TypeOK
        <3>2. f \in S
            BY <3>1 DEF S
        <3> QED BY <1>1, <1>4, <3>2
    <2>2. \A f \in File : \A n \in 1 .. Len(files'[f]) : Active(f)' /\ row'[f] <= n
        BY <1>1, <1>3, <2>1 DEF upstream, Active, Visited
    <2> QED BY <1>1, <2>2 DEF Rows
<1>10. Sorted'
    <2> SUFFICES ASSUME split = "deal" PROVE Files' /\ Schedule' /\ SortedByEvent'
        BY <1>1 DEF Sorted, upstream
    <2>1. Files
        BY DEF IInv, Sorted
    <2>2. Files'
        BY <1>1, <2>1 DEF Files, Turn, Id, upstream
    <2>3. \A m \in 1 .. Len(o) :
             /\ Turn(o[m]) \in 1 .. NFiles /\ Order(HeadId(o[m])) = Turn(o[m])
             /\ HeadId(o[m]) \in Nat \ {0}
        <3>1. \A f \in S : Order(HeadId(f)) = Turn(f) /\ HeadId(f) \in Nat \ {0}
            BY <1>1, <1>5, <2>1 DEF Files, HeadId
        <3> QED BY <1>1, <1>5, <1>6, <3>1, Turns
    <2>4. \A m, n \in 1 .. Len(o) : m < n => Turn(o[m]) < Turn(o[n])
        <3>1. \A m, n \in 1 .. Len(o) : Turn(o[m]) = Turn(o[n]) => m = n
            BY <1>1, <1>4, <1>5, <1>6, Turns
        <3> QED BY <1>3, <2>3, <3>1
    <2>5. \A f : Turn(f)' = Turn(f) /\ HeadId(f)' = HeadId(f)
        BY <1>1 DEF Turn, HeadId, upstream
    <2>6. ASSUME NEW m \in 1 .. Len(o)
          PROVE  HeadId(orders[m])' > expectedEventID' - TurnsSince(m)'
        <3>1. TurnsSince(m)' = Turn(o[1]) + NFiles - Turn(o[m])
            <4>1. 1 <= Len(o) /\ m >= 1
                BY <1>4
            <4>2. /\ it' = 1 /\ Len(orders') = Len(o) /\ orders'[it'] = o[1] /\ orders'[m] = o[m]
                  /\ first' = first
                BY <1>1, <1>3 DEF upstream
            <4>3. ~(m < it') /\ it' <= Len(orders')
                BY <4>1, <4>2
            <4>4. NextTurn' = Turn(o[1])
                BY <4>2, <4>3 DEF NextTurn, Turn
            <4> QED BY <4>2, <4>3, <4>4 DEF TurnsSince, Turn
        <3>2. Turn(o[1]) \in 1 .. NFiles
            <4>1. 1 \in 1 .. Len(o)
                BY <1>4
            <4> QED BY <2>3, <4>1, Zenon
        <3> QED BY <1>1, <1>3, <2>3, <2>5, <3>1, <3>2, KatAssumption
    <2>7. Schedule'
        BY <1>1, <1>3, <2>4, <2>5, <2>6 DEF Schedule
    <2> QED BY <1>1, <2>2, <2>7 DEF SortedByEvent
<1> QED BY <1>7, <1>8, <1>9, <1>10 DEF IInv

-----------------------------------------------------------------------------
(* The merge.                                                               *)

\* What the schedule says of the round: the heads, their residues and turns.
LEMMA Heads ==
    ASSUME IInv, split = "deal"
    PROVE  /\ NFiles \in Nat \ {0} /\ it \in Nat \ {0} /\ expectedEventID \in Nat
           /\ Len(orders) \in Nat
           /\ \A m \in 1 .. Len(orders) :
                /\ orders[m] \in File /\ row[orders[m]] \in 1 .. Len(files[orders[m]])
                /\ HeadId(orders[m]) \in Nat \ {0}
                /\ Turn(orders[m]) \in 1 .. NFiles
                /\ Order(HeadId(orders[m])) = Turn(orders[m])
                /\ HeadId(orders[m]) > expectedEventID - TurnsSince(m)
           /\ \A m, n \in 1 .. Len(orders) : m < n => Turn(orders[m]) < Turn(orders[n])
           /\ \A m \in 1 .. Len(out), n \in 1 .. Len(orders) : PrintedId(m) <= HeadId(orders[n])
<1>1. TypeOK /\ Files /\ Schedule
    BY DEF IInv, Sorted
<1>2. \A m \in 1 .. Len(orders) : orders[m] \in File
    BY <1>1 DEF TypeOK
<1>3. \A m \in 1 .. Len(orders) :
        /\ row[orders[m]] \in 1 .. Len(files[orders[m]])
        /\ files[orders[m]] \in Seq(Nat \ {0})
    <2>1. \A f \in File : row[f] \in Nat \ {0} /\ files[f] \in Seq(Nat \ {0})
        BY <1>1 DEF TypeOK
    <2>2. \A m \in 1 .. Len(orders) : row[orders[m]] <= Len(files[orders[m]])
        BY DEF IInv, Round
    <2> QED BY <1>2, <2>1, <2>2
<1>4. \A m \in 1 .. Len(orders) : HeadId(orders[m]) \in Nat \ {0}
    BY <1>3 DEF HeadId
<1>5. \A m \in 1 .. Len(orders) : Order(HeadId(orders[m])) = Turn(orders[m])
    BY <1>1, <1>2, <1>3 DEF Files, HeadId
<1>6. \A m \in 1 .. Len(orders) : Turn(orders[m]) \in 1 .. NFiles
    BY <1>1, <1>2, Turns
<1>7. /\ NFiles \in Nat \ {0} /\ it \in Nat \ {0} /\ expectedEventID \in Nat
      /\ Len(orders) \in Nat
    BY <1>1, KatAssumption DEF TypeOK
<1>8. /\ \A m \in 1 .. Len(orders) : HeadId(orders[m]) > expectedEventID - TurnsSince(m)
      /\ \A m, n \in 1 .. Len(orders) : m < n => Turn(orders[m]) < Turn(orders[n])
      /\ \A m \in 1 .. Len(out), n \in 1 .. Len(orders) : PrintedId(m) <= HeadId(orders[n])
    BY <1>1 DEF Schedule
<1> QED BY <1>2, <1>3, <1>4, <1>5, <1>6, <1>7, <1>8

\* The turns between the file at hand and another are a number.
LEMMA TurnsTyped ==
    ASSUME IInv, split = "deal", NEW m \in 1 .. Len(orders)
    PROVE  TurnsSince(m) \in Int
<1>1. 1 \in 1 .. Len(orders) /\ it \in Nat /\ NFiles \in Nat
    BY Heads
<1>2. it <= Len(orders) => it \in 1 .. Len(orders)
    BY Heads
<1>3. NextTurn \in Int
    BY <1>1, <1>2, Heads DEF NextTurn
<1>4. Turn(orders[m]) \in Int
    BY Heads
<1> QED BY <1>1, <1>3, <1>4 DEF TurnsSince

\* The id of a file that is due is the least of those not yet printed.
LEMMA DueIsLeast ==
    ASSUME IInv, split = "deal", it <= Len(orders), Due(orders[it]),
           NEW n \in 1 .. Len(orders)
    PROVE  HeadId(orders[it]) <= HeadId(orders[n])
<1>1. PICK a, b, s, t : /\ a = HeadId(orders[n]) /\ b = HeadId(orders[it])
                        /\ s = Turn(orders[n]) /\ t = Turn(orders[it])
    OBVIOUS
<1>2. /\ NFiles \in Nat /\ it \in 1 .. Len(orders) /\ n \in Nat /\ expectedEventID \in Nat
    BY Heads
<1>3. /\ a \in Nat /\ b \in Nat /\ s \in 1 .. NFiles /\ t \in 1 .. NFiles
      /\ Order(a) = s /\ Order(b) = t /\ a > expectedEventID - TurnsSince(n)
    BY <1>1, <1>2, Heads
<1>4. (n < it => s < t) /\ (it < n => t < s)
    BY <1>1, <1>2, Heads
<1>5. TurnsSince(n) = t + (IF n < it THEN 0 ELSE NFiles) - s /\ b <= expectedEventID
    BY <1>1, <1>2 DEF TurnsSince, NextTurn, Due
<1>6. CASE n = it
    BY <1>1, <1>3, <1>6
<1>7. CASE n < it
    <2>1. b - a < t - s /\ t - s < NFiles /\ t - s \in Int
        BY <1>2, <1>3, <1>4, <1>5, <1>7
    <2> QED BY <1>1, <1>3, <2>1, NotOvertaken
<1>8. CASE n > it
    <2>1. b - a < t - s + NFiles /\ t - s + NFiles < NFiles /\ t - s + NFiles \in Int
        BY <1>2, <1>3, <1>4, <1>5, <1>8
    <2> QED BY <1>1, <1>3, <2>1, NotOvertaken
<1> QED BY <1>2, <1>6, <1>7, <1>8

\* The turn of the file after the one visited.
Following == IF it < Len(orders) THEN Turn(orders[it + 1]) ELSE Turn(orders[1]) + NFiles

\* The file at hand has its turn before the round that follows.
LEMMA TurnsGrow ==
    ASSUME IInv, split = "deal", it <= Len(orders)
    PROVE  /\ NFiles \in Nat \ {0} /\ it \in 1 .. Len(orders) /\ expectedEventID \in Nat
           /\ Turn(orders[it]) \in 1 .. NFiles
           /\ Following \in Int /\ Turn(orders[it]) < Following
<1>1. /\ NFiles \in Nat \ {0} /\ it \in 1 .. Len(orders) /\ expectedEventID \in Nat
      /\ 1 \in 1 .. Len(orders)
    BY Heads
<1>2. PICK t : t = Turn(orders[it])
    OBVIOUS
<1>3. t \in 1 .. NFiles
    BY <1>1, <1>2, Heads
<1>4. CASE it < Len(orders)
    <2>1. it + 1 \in 1 .. Len(orders) /\ it < it + 1
        BY <1>1, <1>4
    <2>2. Following = Turn(orders[it + 1])
        BY <1>4 DEF Following
    <2>3. Following \in 1 .. NFiles /\ t < Following
        BY <1>1, <1>2, <2>1, <2>2, Heads
    <2> QED BY <1>1, <1>2, <1>3, <2>3
<1>5. CASE ~(it < Len(orders))
    <2>1. Turn(orders[1]) \in 1 .. NFiles
        BY <1>1, Heads
    <2>2. Following = Turn(orders[1]) + NFiles
        BY <1>5 DEF Following
    <2> QED BY <1>1, <1>2, <1>3, <2>1, <2>2
<1> QED BY <1>4, <1>5

\* The iterator goes on to the next file, the expected id with it.
LEMMA GoOn ==
    ASSUME IInv, split = "deal", it <= Len(orders),
           UNCHANGED <<upstream, orders>>,
           it' = it + 1, expectedEventID' = expectedEventID + 1,
           NEW m \in 1 .. Len(orders), NEW h \in Int, h >= HeadId(orders[m]),
           m = it => h > expectedEventID
    PROVE  h > expectedEventID' - TurnsSince(m)'
<1>1. PICK s, t, u : s = Turn(orders[m]) /\ t = Turn(orders[it]) /\ u = Following
    OBVIOUS
<1>2. /\ NFiles \in Nat \ {0} /\ it \in 1 .. Len(orders) /\ expectedEventID \in Nat
      /\ s \in 1 .. NFiles /\ t \in 1 .. NFiles /\ u \in Int /\ t < u
    BY <1>1, TurnsGrow, Heads
<1>3. TurnsSince(m) = t + (IF m < it THEN 0 ELSE NFiles) - s
    BY <1>1, <1>2 DEF TurnsSince, NextTurn
<1>4. TurnsSince(m)' = u + (IF m < it + 1 THEN 0 ELSE NFiles) - s
    <2>1. it + 1 <= Len(orders) <=> it < Len(orders)
        BY <1>2
    <2>2. NextTurn' = u
        BY <1>1, <2>1 DEF NextTurn, Following, Turn, upstream
    <2> QED BY <1>1, <2>2 DEF TurnsSince, Turn, upstream
<1>5. PICK i : i = HeadId(orders[m])
    OBVIOUS
<1>6. i \in Nat /\ i > expectedEventID - TurnsSince(m) /\ h >= i /\ m \in Nat
    BY <1>5, Heads
<1>7. CASE m < it
    BY <1>2, <1>3, <1>4, <1>6, <1>7
<1>8. CASE m = it
    BY <1>1, <1>2, <1>4, <1>8
<1>9. CASE m > it
    BY <1>2, <1>3, <1>4, <1>6, <1>9
<1> QED BY <1>2, <1>6, <1>7, <1>8, <1>9

\* Element m of a sequence from which element i is removed.
From(m, i) == IF m < i THEN m ELSE m + 1

\* A sequence without its i-th element: the others, in their order.
LEMMA Removed ==
    ASSUME NEW S, NEW s \in Seq(S), NEW i \in 1 .. Len(s)
    PROVE  /\ RemoveAt(s, i) \in Seq(S) /\ Len(RemoveAt(s, i)) = Len(s) - 1
           /\ \A m \in 1 .. Len(RemoveAt(s, i)) :
                /\ From(m, i) \in 1 .. Len(s) /\ From(m, i) # i
                /\ RemoveAt(s, i)[m] = s[From(m, i)]
           /\ \A n \in 1 .. Len(s) : n # i =>
                \E m \in 1 .. Len(RemoveAt(s, i)) : From(m, i) = n
<1>1. PICK a, b, r : /\ a = SubSeq(s, 1, i - 1) /\ b = SubSeq(s, i + 1, Len(s))
                     /\ r = RemoveAt(s, i)
    OBVIOUS
<1>2. /\ a \in Seq(S) /\ Len(a) = i - 1 /\ \A m \in 1 .. i - 1 : a[m] = s[m]
    BY <1>1
<1>3. /\ b \in Seq(S) /\ Len(b) = Len(s) - i /\ \A m \in 1 .. Len(s) - i : b[m] = s[m + i]
    BY <1>1
<1>4. r = a \o b
    BY <1>1 DEF RemoveAt
<1>5. /\ r \in Seq(S) /\ Len(r) = Len(s) - 1
      /\ \A m \in 1 .. Len(r) : r[m] = IF m < i THEN s[m] ELSE s[m + 1]
    <2>1. r \in Seq(S) /\ Len(r) = Len(s) - 1
        <3>1. r \in Seq(S) /\ Len(r) = Len(a) + Len(b)
            <4>1. a \in Seq(S) /\ b \in Seq(S)
                BY <1>2, <1>3
            <4> QED BY <1>4, <4>1
        <3>2. Len(s) \in Nat /\ i \in Nat
            OBVIOUS
        <3> QED BY <1>2, <1>3, <3>1, <3>2
    <2>2. ASSUME NEW m \in 1 .. Len(r), m < i
          PROVE  r[m] = s[m]
        BY <1>2, <1>3, <1>4, <2>1, <2>2
    <2>3. ASSUME NEW m \in 1 .. Len(r), ~(m < i)
          PROVE  r[m] = s[m + 1]
        <3>1. r[m] = b[m - (i - 1)]
            <4>1. Len(a) = i - 1 /\ m \in 1 .. Len(a) + Len(b) /\ ~(m <= Len(a))
                BY <1>2, <1>3, <2>1, <2>3
            <4>2. a \in Seq(S) /\ b \in Seq(S)
                BY <1>2, <1>3
            <4>3. r[m] = b[m - Len(a)]
                BY <1>4, <4>1, <4>2
            <4> QED BY <4>1, <4>3
        <3>2. m - (i - 1) \in 1 .. Len(s) - i /\ (m - (i - 1)) + i = m + 1
            BY <2>1, <2>3
        <3> QED BY <1>3, <3>1, <3>2
    <2> QED BY <2>1, <2>2, <2>3
<1>6. ASSUME NEW n \in 1 .. Len(s), n # i
      PROVE  \E m \in 1 .. Len(r) : From(m, i) = n
    <2>1. CASE n < i
        <3>1. n \in 1 .. Len(r)
            BY <1>5, <2>1
        <3> QED BY <2>1, <3>1 DEF From
    <2>2. CASE n > i
        <3>1. n - 1 \in 1 .. Len(r) /\ ~(n - 1 < i) /\ n = (n - 1) + 1
            BY <1>5, <2>2
        <3> QED BY <3>1 DEF From
    <2> QED BY <1>6, <2>1, <2>2
<1>7. \A m \in 1 .. Len(r) : /\ From(m, i) \in 1 .. Len(s) /\ From(m, i) # i
                             /\ r[m] = s[From(m, i)]
    BY <1>5 DEF From
<1> QED BY <1>1, <1>5, <1>6, <1>7

\* The file visited is exhausted: the iterator then is at the next one.
LEMMA Drop ==
    ASSUME IInv, split = "deal", it <= Len(orders),
           UNCHANGED <<upstream, row>>, orders' = RemoveAt(orders, it),
           it' = it, expectedEventID' = expectedEventID + 1,
           NEW m \in 1 .. Len(orders')
    PROVE  HeadId(orders[m])' > expectedEventID' - TurnsSince(m)'
<1>1. PICK n, L : n = From(m, it) /\ L = Len(orders')
    OBVIOUS
<1>2. PICK s, t, u : s = Turn(orders[n]) /\ t = Turn(orders[it]) /\ u = Following
    OBVIOUS
<1>3. /\ NFiles \in Nat \ {0} /\ it \in 1 .. Len(orders) /\ expectedEventID \in Nat
      /\ t \in 1 .. NFiles /\ u \in Int /\ t < u
    BY <1>2, TurnsGrow
<1>4. /\ orders \in Seq(File) /\ n \in 1 .. Len(orders) /\ orders'[m] = orders[n]
      /\ L = Len(orders) - 1 /\ \A k \in 1 .. L : orders'[k] = orders[From(k, it)]
    <2>1. orders \in Seq(File)
        BY DEF IInv, TypeOK
    <2> QED BY <1>1, <1>3, <2>1, Removed
<1>5. s \in 1 .. NFiles /\ HeadId(orders[n]) \in Nat
      /\ HeadId(orders[n]) > expectedEventID - TurnsSince(n)
    BY <1>2, <1>4, Heads
<1>6. TurnsSince(n) = t + (IF m < it THEN 0 ELSE NFiles) - s
    <2>1. n < it <=> m < it
        BY <1>1, <1>3, <1>4 DEF From
    <2> QED BY <1>2, <1>3, <2>1 DEF TurnsSince, NextTurn
<1>7. NextTurn' = u
    <2>1. CASE it < Len(orders)
        <3>1. it \in 1 .. L /\ From(it, it) = it + 1
            BY <1>3, <1>4, <2>1 DEF From
        <3>2. orders'[it'] = orders[it + 1] /\ it' <= Len(orders')
            BY <1>1, <1>3, <1>4, <3>1
        <3> QED BY <1>2, <2>1, <3>2 DEF NextTurn, Following, Turn, upstream
    <2>2. CASE ~(it < Len(orders))
        <3>1. 1 \in 1 .. L /\ From(1, it) = 1 /\ ~(it <= L)
            BY <1>1, <1>3, <1>4, <2>2 DEF From
        <3>2. orders'[1] = orders[1] /\ ~(it' <= Len(orders'))
            BY <1>1, <1>4, <3>1
        <3> QED BY <1>2, <2>2, <3>2 DEF NextTurn, Following, Turn, upstream
    <2> QED BY <2>1, <2>2
<1>8. TurnsSince(m)' = u + (IF m < it THEN 0 ELSE NFiles) - s
    BY <1>2, <1>4, <1>7 DEF TurnsSince, Turn, upstream
<1>9. HeadId(orders[m])' = HeadId(orders[n])
    BY <1>4 DEF HeadId, upstream
<1> QED BY <1>3, <1>5, <1>6, <1>8, <1>9

\* Skip keeps IInv.
LEMMA SkipStep ==
    ASSUME IInv, Skip
    PROVE  IInv'
<1>1. /\ pc = "merge" /\ it <= Len(orders) /\ it' = it + 1
      /\ expectedEventID' = expectedEventID + 1 /\ ~Due(orders[it])
      /\ UNCHANGED <<upstream, pc, row, orders, out>>
    BY DEF Skip, NextExpected
<1>2. TypeOK' /\ Round' /\ Rows'
    <2>1. TypeOK'
        BY <1>1 DEF IInv, TypeOK, upstream
    <2>2. Round'
        BY <1>1 DEF IInv, Round, upstream
    <2>3. Rows'
        BY <1>1 DEF IInv, Rows, Active, Visited, Printed, upstream
    <2> QED BY <2>1, <2>2, <2>3
<1>3. Sorted'
    <2> SUFFICES ASSUME split = "deal" PROVE Files' /\ Schedule' /\ SortedByEvent'
        BY <1>1 DEF Sorted, upstream
    <2>1. Files /\ Schedule /\ SortedByEvent
        BY DEF IInv, Sorted
    <2>2. Files' /\ SortedByEvent'
        BY <1>1, <2>1 DEF Files, SortedByEvent, Turn, Id, upstream
    <2>3. ASSUME NEW m \in 1 .. Len(orders)
          PROVE  HeadId(orders[m])' > expectedEventID' - TurnsSince(m)'
        <3>1. PICK h : h = HeadId(orders[m])
            OBVIOUS
        <3>2. /\ h \in Int /\ h >= HeadId(orders[m])
              /\ m = it => h > expectedEventID
            <4>1. h \in Nat /\ expectedEventID \in Nat
                BY <3>1, Heads
            <4> QED BY <1>1, <3>1, <4>1 DEF Due
        <3>3. h > expectedEventID' - TurnsSince(m)'
            BY <1>1, <3>2, GoOn
        <3> QED BY <1>1, <3>1, <3>3 DEF HeadId, upstream
    <2>4. Schedule'
        BY <1>1, <2>1, <2>3 DEF Schedule, Turn, PrintedId, HeadId, upstream
    <2> QED BY <2>2, <2>4
<1> QED BY <1>2, <1>3 DEF IInv

\* NextRound keeps IInv.
LEMMA NextRoundStep ==
    ASSUME IInv, NextRound
    PROVE  IInv'
<1>1. /\ pc = "merge" /\ it > Len(orders)
      /\ UNCHANGED <<upstream, row, orders, expectedEventID, out>>
      /\ \/ orders = <<>> /\ pc' = "done" /\ it' = it
         \/ orders # <<>> /\ pc' = "merge" /\ it' = 1
    BY DEF NextRound, Exhausted
<1>2. TypeOK' /\ Round' /\ Rows'
    <2>1. TypeOK'
        BY <1>1 DEF IInv, TypeOK, upstream
    <2>2. Round'
        BY <1>1 DEF IInv, Round, upstream
    <2>3. Rows'
        BY <1>1 DEF IInv, Rows, Active, Visited, Printed, upstream
    <2> QED BY <2>1, <2>2, <2>3
<1>3. Sorted'
    <2> SUFFICES ASSUME split = "deal" PROVE Files' /\ Schedule' /\ SortedByEvent'
        BY <1>1 DEF Sorted, upstream
    <2>1. Files /\ Schedule /\ SortedByEvent
        BY DEF IInv, Sorted
    <2>2. Files' /\ SortedByEvent'
        BY <1>1, <2>1 DEF Files, SortedByEvent, Turn, Id, upstream
    <2>3. ASSUME NEW m \in 1 .. Len(orders)
          PROVE  HeadId(orders[m])' > expectedEventID' - TurnsSince(m)'
        <3>1. PICK s, t : s = Turn(orders[m]) /\ t = Turn(orders[1])
            OBVIOUS
        <3>2. /\ s \in 1 .. NFiles /\ t \in 1 .. NFiles /\ NFiles \in Nat /\ m \in Nat
              /\ it \in Nat /\ 1 <= m /\ m < it /\ 1 <= Len(orders)
            <4>1. 1 \in 1 .. Len(orders)
                BY Heads
            <4> QED BY <1>1, <3>1, <4>1, Heads
        <3>3. it' = 1
            BY <1>1, <3>2, Heads
        <3>4. TurnsSince(m) = (t + NFiles) - s
            <4>1. ~(it <= Len(orders))
                BY <1>1, <3>2, Heads
            <4> QED BY <3>1, <3>2, <4>1 DEF TurnsSince, NextTurn
        <3>5. TurnsSince(m)' = t + NFiles - s
            <4>1. NextTurn' = t
                BY <1>1, <3>1, <3>2, <3>3 DEF NextTurn, Turn, upstream
            <4>2. ~(m < it')
                BY <3>2, <3>3
            <4> QED BY <1>1, <3>1, <4>1, <4>2 DEF TurnsSince, Turn, upstream
        <3>6. HeadId(orders[m]) > expectedEventID - TurnsSince(m)
            BY Heads
        <3>7. TurnsSince(m)' = TurnsSince(m)
            BY <3>2, <3>4, <3>5
        <3> QED BY <1>1, <3>6, <3>7 DEF HeadId, upstream
    <2>4. Schedule'
        BY <1>1, <2>1, <2>3 DEF Schedule, Turn, PrintedId, HeadId, upstream
    <2> QED BY <2>2, <2>4
<1> QED BY <1>2, <1>3 DEF IInv

\* A row is printed, and the next one of the file, if any, is due or not.
LEMMA Printing ==
    ASSUME IInv, PrintRow, NEW f, f = orders[it]
    PROVE  /\ pc = "merge" /\ pc' = "merge" /\ it \in 1 .. Len(orders) /\ f \in File
           /\ Due(f) /\ UNCHANGED upstream
           /\ row[f] \in 1 .. Len(files[f])
           /\ out' = Append(out, <<f, row[f]>>)
           /\ \/ /\ row[f] = Len(files[f]) /\ UNCHANGED row
                 /\ orders' = RemoveAt(orders, it) /\ it' = it
                 /\ expectedEventID' = expectedEventID + 1
              \/ /\ row[f] + 1 \in 1 .. Len(files[f])
                 /\ row' = [row EXCEPT ![f] = row[f] + 1] /\ UNCHANGED orders
                 /\ \/ it' = it /\ expectedEventID' = expectedEventID
                    \/ /\ files[f][row[f] + 1] > expectedEventID
                       /\ it' = it + 1 /\ expectedEventID' = expectedEventID + 1
<1>1. TypeOK
    BY DEF IInv
<1>2. it \in 1 .. Len(orders) /\ f \in File
    BY <1>1 DEF PrintRow, TypeOK
<1>3. row[f] \in Nat \ {0} /\ files[f] \in Seq(Nat \ {0}) /\ expectedEventID \in Nat
    BY <1>1, <1>2 DEF TypeOK
<1>4. row[f] <= Len(files[f])
    BY <1>2 DEF IInv, Round
<1>5. row[f] \in 1 .. Len(files[f])
    BY <1>3, <1>4
<1>6. /\ pc = "merge" /\ pc' = "merge" /\ Due(f) /\ UNCHANGED upstream
      /\ out' = Append(out, <<f, row[f]>>)
    BY DEF PrintRow
<1>7. CASE row[f] = Len(files[f])
    BY <1>2, <1>5, <1>6, <1>7 DEF PrintRow, AfterErase, NextExpected
<1>8. CASE row[f] # Len(files[f])
    <2>1. row[f] + 1 \in 1 .. Len(files[f]) /\ files[f][row[f] + 1] \in Nat
        <3>1. row[f] + 1 \in 1 .. Len(files[f])
            BY <1>3, <1>5, <1>8
        <3> QED BY <1>3, <3>1
    <2>2. /\ row' = [row EXCEPT ![f] = row[f] + 1] /\ UNCHANGED orders
          /\ IF files[f][row[f] + 1] <= expectedEventID
             THEN UNCHANGED <<it, expectedEventID>>
             ELSE it' = it + 1 /\ expectedEventID' = expectedEventID + 1
        BY <1>8, Zenon DEF PrintRow, NextExpected
    <2>3. ~(files[f][row[f] + 1] <= expectedEventID)
             => files[f][row[f] + 1] > expectedEventID
        BY <1>3, <2>1
    <2> QED BY <1>2, <1>5, <1>6, <2>1, <2>2, <2>3
<1> QED BY <1>7, <1>8

\* What is left of the round when a row has been printed.
LEMMA Remaining ==
    ASSUME IInv, PrintRow, NEW f, f = orders[it]
    PROVE  /\ TypeOK' /\ Round'
           /\ row' \in [File -> Nat \ {0}]
           /\ \A g \in File : g # f => row'[g] = row[g] /\ (Visited(orders', g) <=> Visited(orders, g))
           /\ Visited(orders', f) => row'[f] = row[f] + 1
           /\ ~Visited(orders', f) => row[f] = Len(files[f])
           /\ \A m \in 1 .. Len(orders') : \E n \in 1 .. Len(orders) : orders'[m] = orders[n]
<1>1. /\ TypeOK /\ pc' = "merge" /\ it \in 1 .. Len(orders) /\ f \in File /\ UNCHANGED upstream
      /\ row[f] \in 1 .. Len(files[f]) /\ out' = Append(out, <<f, row[f]>>)
    BY Printing DEF IInv
<1>2. out' \in Seq(File \X Nat)
    BY <1>1 DEF TypeOK
<1>3. /\ orders \in Seq(File) /\ row \in [File -> Nat \ {0}]
      /\ it \in Nat \ {0} /\ expectedEventID \in Nat \ {0}
      /\ \A m, n \in 1 .. Len(orders) : orders[m] = orders[n] => m = n
      /\ \A m \in 1 .. Len(orders) : row[orders[m]] <= Len(files[orders[m]])
    BY <1>1 DEF IInv, TypeOK, Round
<1>4. CASE /\ row[f] = Len(files[f]) /\ UNCHANGED row
           /\ orders' = RemoveAt(orders, it) /\ it' = it
           /\ expectedEventID' = expectedEventID + 1
    <2>0. PICK r : r = RemoveAt(orders, it)
        OBVIOUS
    <2>1. /\ r \in Seq(File)
          /\ \A m \in 1 .. Len(r) :
                /\ From(m, it) \in 1 .. Len(orders) /\ From(m, it) # it
                /\ r[m] = orders[From(m, it)]
          /\ \A n \in 1 .. Len(orders) : n # it => \E m \in 1 .. Len(r) : From(m, it) = n
          /\ \A m, n \in 1 .. Len(r) : From(m, it) = From(n, it) => m = n
        <3>1. orders \in Seq(File) /\ it \in 1 .. Len(orders)
            BY <1>1, <1>3
        <3>2. \A m, n \in 1 .. Len(r) : From(m, it) = From(n, it) => m = n
            BY <1>3 DEF From
        <3>3. /\ r \in Seq(File)
              /\ \A m \in 1 .. Len(r) :
                    /\ From(m, it) \in 1 .. Len(orders) /\ From(m, it) # it
                    /\ r[m] = orders[From(m, it)]
              /\ \A n \in 1 .. Len(orders) : n # it => \E m \in 1 .. Len(r) : From(m, it) = n
            <4> DEFINE q == RemoveAt(orders, it)
            <4>1. /\ q \in Seq(File)
                  /\ \A m \in 1 .. Len(q) :
                        /\ From(m, it) \in 1 .. Len(orders) /\ From(m, it) # it
                        /\ q[m] = orders[From(m, it)]
                  /\ \A n \in 1 .. Len(orders) : n # it => \E m \in 1 .. Len(q) : From(m, it) = n
                BY <3>1, Removed
            <4> HIDE DEF q
            <4>2. r = q
                BY <2>0 DEF q
            <4> QED BY <4>1, <4>2
        <3> QED BY <3>2, <3>3
    <2>2. TypeOK'
        <3>1. orders' \in Seq(File)
            BY <1>4, <2>0, <2>1
        <3>2. it' \in Nat \ {0} /\ expectedEventID' \in Nat \ {0}
            BY <1>3, <1>4
        <3> QED BY <1>1, <1>2, <1>4, <3>1, <3>2 DEF TypeOK, upstream
    <2>3. \A m, n \in 1 .. Len(r) : r[m] = r[n] => m = n
        BY <1>3, <2>1, Zenon
    <2>4. \A m \in 1 .. Len(r) : row[r[m]] <= Len(files[r[m]])
        BY <1>3, <2>1
    <2>5. Round'
        BY <1>1, <1>4, <2>0, <2>3, <2>4 DEF Round, upstream
    <2>6. \A g \in File : g # f => (Visited(orders', g) <=> Visited(orders, g))
        <3> TAKE g \in File
        <3> HAVE g # f
        <3>1. Visited(orders', g) => Visited(orders, g)
            BY <1>4, <2>0, <2>1 DEF Visited
        <3>2. ASSUME Visited(orders, g)
              PROVE  Visited(orders', g)
            <4>1. PICK n \in 1 .. Len(orders) : orders[n] = g
                BY <3>2 DEF Visited
            <4>2. PICK m \in 1 .. Len(r) : From(m, it) = n
                <5>1. n # it
                    BY <4>1
                <5> QED BY <2>1, <4>1, <5>1
            <4>3. r[m] = g
                BY <2>1, <4>1, <4>2
            <4> QED BY <1>4, <2>0, <4>3 DEF Visited
        <3> QED BY <3>1, <3>2
    <2>7. ~Visited(orders', f)
        <3>1. \A m \in 1 .. Len(r) : r[m] # f
            BY <1>1, <1>3, <2>1, Zenon
        <3> QED BY <1>4, <2>0, <3>1 DEF Visited
    <2>8. \A m \in 1 .. Len(orders') : \E n \in 1 .. Len(orders) : orders'[m] = orders[n]
        BY <1>4, <2>0, <2>1
    <2> QED BY <1>3, <1>4, <2>2, <2>5, <2>6, <2>7, <2>8
<1>5. CASE /\ row[f] + 1 \in 1 .. Len(files[f])
           /\ row' = [row EXCEPT ![f] = row[f] + 1] /\ UNCHANGED orders
           /\ \/ it' = it /\ expectedEventID' = expectedEventID
              \/ it' = it + 1 /\ expectedEventID' = expectedEventID + 1
    <2>1. /\ row' \in [File -> Nat \ {0}] /\ row'[f] = row[f] + 1
          /\ \A g \in File : g # f => row'[g] = row[g]
        BY <1>1, <1>3, <1>5
    <2>2. it' \in Nat \ {0} /\ expectedEventID' \in Nat \ {0}
        BY <1>3, <1>5
    <2>3. TypeOK'
        BY <1>1, <1>2, <1>3, <1>5, <2>1, <2>2 DEF TypeOK, upstream
    <2>4. \A m \in 1 .. Len(orders) : row'[orders[m]] <= Len(files[orders[m]])
        <3>1. \A m \in 1 .. Len(orders) : orders[m] \in File
            BY <1>3
        <3> QED BY <1>3, <1>5, <2>1, <3>1
    <2>5. Round'
        BY <1>1, <1>3, <1>5, <2>4 DEF Round, upstream
    <2>6. \A g : Visited(orders', g) <=> Visited(orders, g)
        BY <1>5 DEF Visited
    <2>7. Visited(orders', f)
        BY <1>1, <2>6 DEF Visited
    <2>8. \A m \in 1 .. Len(orders') : \E n \in 1 .. Len(orders) : orders'[m] = orders[n]
        BY <1>5
    <2> QED BY <2>1, <2>3, <2>5, <2>6, <2>7, <2>8
<1> QED BY <1>4, <1>5, Printing

\* The row printed last, and those printed before it.
LEMMA Appended ==
    ASSUME IInv, PrintRow, NEW f, f = orders[it]
    PROVE  /\ Len(out) \in Nat /\ Len(out') = Len(out) + 1
           /\ out'[Len(out) + 1] = <<f, row[f]>>
           /\ \A m \in 1 .. Len(out) : out'[m] = out[m] /\ out[m] \in File \X Nat
           /\ \A m \in 1 .. Len(out') : m \in 1 .. Len(out) \/ m = Len(out) + 1
<1>1. out \in Seq(File \X Nat) /\ out' = Append(out, <<f, row[f]>>)
    BY Printing DEF IInv, TypeOK
<1>2. Len(out) \in Nat /\ Len(out') = Len(out) + 1
    BY <1>1
<1>3. out'[Len(out) + 1] = <<f, row[f]>> /\ \A m \in 1 .. Len(out) : out'[m] = out[m]
    BY <1>1
<1> QED BY <1>1, <1>2, <1>3

\* A printed row is the next of its file.
LEMMA PrintRows ==
    ASSUME IInv, PrintRow
    PROVE  Rows'
<1>1. PICK f : f = orders[it]
    OBVIOUS
<1>2. /\ pc = "merge" /\ pc' = "merge" /\ f \in File /\ files' = files
      /\ row[f] \in 1 .. Len(files[f]) /\ row \in [File -> Nat \ {0}] /\ Visited(orders, f)
      /\ files \in [File -> Seq(Nat \ {0})]
    <2>1. it \in 1 .. Len(orders)
        BY <1>1, Printing
    <2>2. Visited(orders, f)
        BY <1>1, <2>1 DEF Visited
    <2> QED BY <1>1, <2>2, Printing DEF IInv, TypeOK, upstream
<1>3. Rows /\ \A g : Active(g) <=> Visited(orders, g)
    BY DEF IInv, Active
<1>4. ASSUME NEW g \in File, NEW n \in 1 .. Len(files[g])
      PROVE  Printed(g, n)' \/ (Visited(orders', g) /\ row'[g] <= n)
    <2>1. CASE Printed(g, n)
        <3>1. PICK m \in 1 .. Len(out) : out[m] = <<g, n>>
            BY <2>1 DEF Printed
        <3>2. m \in 1 .. Len(out') /\ out'[m] = <<g, n>>
            BY <1>1, <3>1, Appended
        <3> QED BY <3>2 DEF Printed
    <2>2. CASE Visited(orders, g) /\ row[g] <= n /\ g # f
        BY <1>1, <2>2, Remaining
    <2>3. CASE g = f /\ n = row[f]
        <3>1. Len(out) + 1 \in 1 .. Len(out') /\ out'[Len(out) + 1] = <<g, n>>
            BY <1>1, <2>3, Appended
        <3> QED BY <3>1 DEF Printed
    <2>4. CASE g = f /\ row[f] <= n /\ n # row[f]
        <3>1. row[f] # Len(files[f]) /\ row[f] + 1 <= n
            BY <1>2, <2>4
        <3> QED BY <1>1, <2>4, <3>1, Remaining
    <2> QED BY <1>2, <1>3, <2>1, <2>2, <2>3, <2>4 DEF Rows
<1>5. ASSUME NEW m \in 1 .. Len(out')
      PROVE  /\ out'[m][2] \in 1 .. Len(files[out'[m][1]])
             /\ Visited(orders', out'[m][1]) => out'[m][2] < row'[out'[m][1]]
    <2>1. CASE m = Len(out) + 1
        <3>1. out'[m][1] = f /\ out'[m][2] = row[f]
            BY <1>1, <2>1, Appended
        <3> QED BY <1>1, <1>2, <3>1, Remaining
    <2>2. CASE m \in 1 .. Len(out)
        <3>1. PICK g \in File, n \in Nat : out[m] = <<g, n>> /\ out'[m] = <<g, n>>
            <4>1. out'[m] = out[m] /\ out[m] \in File \X Nat
                BY <1>1, <2>2, Appended
            <4>2. PICK g \in File, n \in Nat : out[m] = <<g, n>>
                BY <4>1
            <4> QED BY <4>1, <4>2
        <3>2. n \in 1 .. Len(files[g]) /\ (Visited(orders, g) => n < row[g])
            BY <1>3, <2>2, <3>1 DEF Rows
        <3>3. CASE g # f
            <4>1. Visited(orders', g) => n < row'[g]
                BY <1>1, <3>2, <3>3, Remaining
            <4> QED BY <3>1, <3>2, <4>1
        <3>4. CASE g = f
            <4>1. Visited(orders', g) => row'[g] = row[f] + 1
                BY <1>1, <3>4, Remaining
            <4>2. Visited(orders', g) => n < row'[g]
                BY <1>2, <3>2, <3>4, <4>1
            <4> QED BY <3>1, <3>2, <4>2
        <3> QED BY <3>3, <3>4
    <2> QED BY <1>1, <2>1, <2>2, Appended
<1>6. ASSUME NEW m \in 1 .. Len(out'), NEW n \in 1 .. Len(out'),
             m < n, out'[m][1] = out'[n][1]
      PROVE  out'[m][2] < out'[n][2]
    <2>1. m \in 1 .. Len(out)
        BY <1>1, <1>6, Appended
    <2>2. CASE n \in 1 .. Len(out)
        <3>1. out'[m] = out[m] /\ out'[n] = out[n]
            BY <1>1, <2>1, <2>2, Appended
        <3> QED BY <1>3, <1>6, <2>1, <2>2, <3>1 DEF Rows
    <2>3. CASE n = Len(out) + 1
        <3>1. out'[n][1] = f /\ out'[n][2] = row[f] /\ out'[m] = out[m]
            BY <1>1, <2>1, <2>3, Appended
        <3>2. out[m][1] = f
            BY <1>6, <3>1
        <3> QED BY <1>2, <1>3, <2>1, <3>1, <3>2 DEF Rows
    <2> QED BY <1>1, <2>2, <2>3, Appended
<1>7. Rows'
    <2>1. \A g : Active(g)' <=> Visited(orders', g)
        BY DEF Active, Visited
    <2> QED BY <1>2, <1>4, <1>5, <1>6, <2>1 DEF Rows
<1> QED BY <1>7

\* The event of a printed row is a number.
LEMMA PrintedTyped ==
    ASSUME IInv, NEW l \in 1 .. Len(out)
    PROVE  PrintedId(l) \in Nat
<1>1. /\ out \in Seq(File \X Nat) /\ files \in [File -> Seq(Nat \ {0})]
      /\ out[l][2] \in 1 .. Len(files[out[l][1]])
    BY DEF IInv, TypeOK, Rows
<1>2. out[l][1] \in File
    BY <1>1
<1> QED BY <1>1, <1>2 DEF PrintedId

\* A printed row of files that were dealt out comes in order.
LEMMA PrintSorted ==
    ASSUME IInv, PrintRow, split = "deal"
    PROVE  Files' /\ Schedule' /\ SortedByEvent'
<1>1. PICK f, b : f = orders[it] /\ b = HeadId(f)
    OBVIOUS
<1>2. /\ pc' = "merge" /\ f \in File /\ UNCHANGED upstream /\ Due(f) /\ it \in 1 .. Len(orders)
      /\ row[f] \in 1 .. Len(files[f]) /\ row \in [File -> Nat \ {0}]
      /\ files \in [File -> Seq(Nat \ {0})] /\ expectedEventID \in Nat
    BY <1>1, Printing DEF IInv, TypeOK
<1>3. Files /\ SortedByEvent
    BY DEF IInv, Sorted
<1>4. Files'
    BY <1>2, <1>3 DEF Files, Turn, Id, upstream
\* No file goes back.
<1>5. ASSUME NEW g \in File, Visited(orders', g), row[g] \in 1 .. Len(files[g])
      PROVE  files[g][row'[g]] \in Nat /\ files[g][row'[g]] >= HeadId(g)
    <2>1. row'[g] \in 1 .. Len(files[g]) /\ row[g] <= row'[g]
        <3>1. row'[g] <= Len(files[g])
            <4>1. Round'
                BY <1>1, Remaining
            <4> QED BY <1>2, <1>5, <4>1 DEF Round, Visited, upstream
        <3>2. row'[g] \in Nat \ {0} /\ row[g] <= row'[g]
            <4>1. row[g] \in Nat \ {0}
                BY <1>2
            <4>2. row'[g] = row[g] \/ row'[g] = row[g] + 1
                BY <1>1, <1>5, Remaining
            <4> QED BY <4>1, <4>2
        <3> QED BY <1>2, <3>1, <3>2
    <2>2. files[g][row[g]] <= files[g][row'[g]] /\ files[g][row'[g]] \in Nat
        <3>1. files[g] \in Seq(Nat \ {0})
            BY <1>2
        <3> QED BY <1>3, <1>5, <2>1, <3>1 DEF Files
    <2>3. files[g][row[g]] \in Nat
        BY <1>2, <1>5
    <2> QED BY <2>2, <2>3 DEF HeadId
<1>6. ASSUME NEW m \in 1 .. Len(orders'), NEW g, g = orders'[m]
      PROVE  /\ g \in File /\ Visited(orders', g) /\ row[g] \in 1 .. Len(files[g])
             /\ \E n \in 1 .. Len(orders) : orders[n] = g
    <2>1. PICK n \in 1 .. Len(orders) : orders'[m] = orders[n]
        BY <1>1, Remaining
    <2>2. g \in File /\ row[g] \in 1 .. Len(files[g])
        BY <1>6, <2>1, Heads
    <2> QED BY <1>6, <2>1, <2>2 DEF Visited
<1>7. ASSUME NEW m \in 1 .. Len(orders'), NEW h, h = HeadId(orders[m])'
      PROVE  h \in Nat /\ h >= b /\ \A l \in 1 .. Len(out) : h >= PrintedId(l)
    <2>1. PICK g : g = orders'[m]
        OBVIOUS
    <2>2. PICK n \in 1 .. Len(orders) : orders[n] = g
        BY <1>6, <2>1
    <2>3. PICK i : i = HeadId(g)
        OBVIOUS
    <2>4. h \in Nat /\ h >= i
        <3>1. h = files[g][row'[g]]
            BY <1>2, <1>7, <2>1 DEF HeadId, upstream
        <3>2. files[g][row'[g]] \in Nat /\ files[g][row'[g]] >= i
            BY <1>5, <1>6, <2>1, <2>3
        <3> QED BY <3>1, <3>2
    <2>5. i \in Nat /\ b \in Nat /\ \A l \in 1 .. Len(out) : PrintedId(l) <= i
        BY <1>1, <1>2, <2>2, <2>3, Heads
    <2>6. b <= i
        BY <1>1, <1>2, <2>2, <2>3, DueIsLeast
    <2>7. \A l \in 1 .. Len(out) : PrintedId(l) \in Nat
        BY <1>1, PrintedTyped
    <2> QED BY <2>4, <2>5, <2>6, <2>7
<1>8. ASSUME NEW m \in 1 .. Len(out'), NEW i, i = PrintedId(m)'
      PROVE  /\ m \in 1 .. Len(out) => i = PrintedId(m) /\ i <= b
             /\ m = Len(out) + 1 => i = b
    <2>1. i = files[out'[m][1]][out'[m][2]]
        BY <1>2, <1>8 DEF PrintedId, upstream
    <2>2. ASSUME m \in 1 .. Len(out)
          PROVE  i = PrintedId(m) /\ i <= b
        <3>1. out'[m] = out[m]
            BY <1>1, <2>2, Appended
        <3>2. i = PrintedId(m)
            BY <2>1, <3>1 DEF PrintedId
        <3> QED BY <1>1, <1>2, <2>2, <3>2, Heads
    <2>3. ASSUME m = Len(out) + 1
          PROVE  i = b
        <3>1. out'[m][1] = f /\ out'[m][2] = row[f]
            <4>1. out'[m] = <<f, row[f]>>
                BY <1>1, <2>3, Appended
            <4> QED BY <4>1
        <3> QED BY <1>1, <2>1, <3>1 DEF HeadId
    <2> QED BY <2>2, <2>3
<1>9. ASSUME NEW m \in 1 .. Len(out'), NEW n \in 1 .. Len(orders')
      PROVE  PrintedId(m)' <= HeadId(orders[n])'
    <2>1. PICK i, h : i = PrintedId(m)' /\ h = HeadId(orders[n])'
        OBVIOUS
    <2>2. h \in Nat /\ h >= b /\ \A l \in 1 .. Len(out) : h >= PrintedId(l)
        BY <1>7, <2>1
    <2>3. CASE m \in 1 .. Len(out)
        <3>1. i = PrintedId(m)
            BY <1>8, <2>1, <2>3
        <3>2. PrintedId(m) \in Nat /\ h >= PrintedId(m)
            BY <1>1, <2>2, <2>3, PrintedTyped
        <3>3. i <= h
            BY <2>2, <3>1, <3>2
        <3> QED BY <2>1, <3>3
    <2>4. CASE m = Len(out) + 1
        <3>1. i = b /\ b \in Nat
            BY <1>1, <1>2, <1>8, <2>1, <2>4, Heads
        <3>2. i <= h
            BY <2>2, <3>1
        <3> QED BY <2>1, <3>2
    <2> QED BY <1>1, <2>3, <2>4, Appended
<1>10. SortedByEvent'
    <2>1. ASSUME NEW m \in 1 .. Len(out'), NEW n \in 1 .. Len(out'), m < n
          PROVE  files'[out'[m][1]][out'[m][2]] <= files'[out'[n][1]][out'[n][2]]
        <3>1. PICK i, j : i = PrintedId(m)' /\ j = PrintedId(n)'
            OBVIOUS
        <3>2. m \in 1 .. Len(out)
            BY <1>1, <2>1, Appended
        <3>3. i = PrintedId(m) /\ i <= b
            BY <1>8, <3>1, <3>2
        <3>4. CASE n \in 1 .. Len(out)
            <4>1. PrintedId(m) <= PrintedId(n)
                BY <1>3, <2>1, <3>2, <3>4 DEF SortedByEvent, PrintedId
            <4>2. j = PrintedId(n)
                BY <1>8, <3>1, <3>4
            <4>3. i <= j
                BY <3>3, <4>1, <4>2
            <4> QED BY <3>1, <4>3 DEF PrintedId
        <3>5. CASE n = Len(out) + 1
            <4>1. j = b
                BY <1>8, <3>1, <3>5
            <4>2. i <= j
                BY <3>3, <4>1
            <4> QED BY <3>1, <4>2 DEF PrintedId
        <3> QED BY <1>1, <3>4, <3>5, Appended
    <2> QED BY <2>1 DEF SortedByEvent
<1>11. /\ \A m, n \in 1 .. Len(orders') : m < n => Turn(orders[m])' < Turn(orders[n])'
       /\ \A m \in 1 .. Len(orders') : HeadId(orders[m])' > expectedEventID' - TurnsSince(m)'
    <2>1. \A m, n \in 1 .. Len(orders) : m < n => Turn(orders[m]) < Turn(orders[n])
        BY Heads
    <2>2. CASE /\ UNCHANGED row /\ orders' = RemoveAt(orders, it)
               /\ it' = it /\ expectedEventID' = expectedEventID + 1
        <3>1. \A m \in 1 .. Len(orders') :
                 HeadId(orders[m])' > expectedEventID' - TurnsSince(m)'
            BY <1>2, <2>2, Drop
        <3>2. PICK r : r = RemoveAt(orders, it)
            OBVIOUS
        <3>3. \A m \in 1 .. Len(r) :
                 From(m, it) \in 1 .. Len(orders) /\ r[m] = orders[From(m, it)]
            <4>1. orders \in Seq(File) /\ it \in 1 .. Len(orders)
                BY <1>2 DEF IInv, TypeOK
            <4> QED BY <3>2, <4>1, Removed
        <3>4. \A m, n \in 1 .. Len(r) : m < n => From(m, it) < From(n, it)
            BY <1>2 DEF From
        <3>5. \A m, n \in 1 .. Len(r) : m < n => Turn(r[m]) < Turn(r[n])
            BY <2>1, <3>3, <3>4
        <3> QED BY <1>2, <2>2, <3>1, <3>2, <3>5 DEF Turn, upstream
    <2>3. CASE UNCHANGED <<orders, it, expectedEventID>>
        <3> SUFFICES ASSUME NEW m \in 1 .. Len(orders)
                     PROVE  HeadId(orders[m])' > expectedEventID' - TurnsSince(m)'
            BY <1>2, <2>1, <2>3 DEF Turn, upstream
        <3>1. PICK g, h, i, z : /\ g = orders[m] /\ h = files[g][row'[g]]
                                /\ i = HeadId(g) /\ z = TurnsSince(m)
            OBVIOUS
        <3>2. h \in Nat /\ h >= i
            <4>1. m \in 1 .. Len(orders') /\ g = orders'[m]
                BY <2>3, <3>1
            <4> QED BY <1>5, <1>6, <3>1, <4>1
        <3>3. i \in Nat /\ z \in Int /\ i > expectedEventID - z
            BY <3>1, Heads, TurnsTyped
        <3>4. TurnsSince(m)' = z /\ HeadId(orders[m])' = h
            BY <1>2, <2>3, <3>1 DEF TurnsSince, NextTurn, Turn, HeadId, upstream
        <3>5. h > expectedEventID - z
            BY <1>2, <3>2, <3>3
        <3> QED BY <2>3, <3>4, <3>5
    <2>4. CASE /\ UNCHANGED orders /\ row' = [row EXCEPT ![f] = row[f] + 1]
               /\ files[f][row[f] + 1] > expectedEventID
               /\ it' = it + 1 /\ expectedEventID' = expectedEventID + 1
        <3> SUFFICES ASSUME NEW m \in 1 .. Len(orders)
                     PROVE  HeadId(orders[m])' > expectedEventID' - TurnsSince(m)'
            BY <1>2, <2>1, <2>4 DEF Turn, upstream
        <3>1. PICK g, h : g = orders[m] /\ h = files[g][row'[g]]
            OBVIOUS
        <3>2. h \in Int /\ h >= HeadId(orders[m])
            <4>1. m \in 1 .. Len(orders') /\ g = orders'[m]
                BY <2>4, <3>1
            <4>2. g \in File /\ Visited(orders', g) /\ row[g] \in 1 .. Len(files[g])
                BY <1>6, <4>1
            <4> QED BY <1>5, <3>1, <4>2
        <3>3. m = it => h > expectedEventID
            BY <1>1, <1>2, <2>4, <3>1
        <3>4. h > expectedEventID' - TurnsSince(m)'
            BY <1>2, <2>4, <3>2, <3>3, GoOn
        <3>5. HeadId(orders[m])' = h
            BY <1>2, <2>4, <3>1 DEF HeadId, upstream
        <3> QED BY <3>4, <3>5
    <2> QED BY <1>1, <2>2, <2>3, <2>4, Printing
<1>12. Schedule'
    BY <1>9, <1>11 DEF Schedule
<1> QED BY <1>4, <1>10, <1>12

\* PrintRow keeps IInv.
LEMMA PrintRowStep ==
    ASSUME IInv, PrintRow
    PROVE  IInv'
<1>1. TypeOK' /\ Round'
    BY Remaining
<1>2. Rows'
    BY PrintRows
<1>3. Sorted'
    <2>1. split' = split
        BY Printing DEF upstream
    <2> QED BY <2>1, PrintSorted DEF Sorted
<1> QED BY <1>1, <1>2, <1>3 DEF IInv

\* A step that changes nothing keeps IInv.
LEMMA StutterStep ==
    ASSUME IInv, UNCHANGED vars
    PROVE  IInv'
<1>1. TypeOK' /\ Round'
    <2>1. TypeOK'
        BY DEF IInv, TypeOK, vars, upstream
    <2>2. Round'
        BY DEF IInv, Round, vars, upstream
    <2> QED BY <2>1, <2>2
<1>2. Rows'
    BY DEF IInv, Rows, Active, Visited, Printed, vars, upstream
<1>3. Files' <=> Files
    BY DEF Files, Turn, Id, vars, upstream
<1>4. Schedule' <=> Schedule
    BY DEF Schedule, TurnsSince, NextTurn, Turn, PrintedId, HeadId, vars, upstream
<1>5. SortedByEvent' <=> SortedByEvent
    BY DEF SortedByEvent, vars, upstream
<1>6. Sorted'
    BY <1>3, <1>4, <1>5 DEF IInv, Sorted, vars, upstream
<1> QED BY <1>1, <1>2, <1>6 DEF IInv

-----------------------------------------------------------------------------
(* The theorems.                                                            *)
LEMMA Invariance == Spec => []IInv
<1>1. IInv /\ [Next]_vars => IInv'
    BY WriteStep, ReadHeadsStep, SkipStep, PrintRowStep, NextRoundStep, StutterStep DEF Next
<1> QED BY <1>1, InitStep, PTL DEF Spec

\* Every row of every file is printed, once, and the rows of a file in their
\* order: the iterator that steps back when a file is erased from the vector
\* skips none (kat.cpp, doitsort).
THEOREM RowsKept == Spec => []AllRows
<1>1. IInv => AllRows
    <2> SUFFICES ASSUME IInv PROVE AllRows
        OBVIOUS
    <2>1. \A m, n \in 1 .. Len(out) : m < n /\ out[m][1] = out[n][1] => out[m][2] < out[n][2]
        BY DEF IInv, Rows
    <2>2. ASSUME pc = "done"
          PROVE  Range(out) = UNION {{f} \X (1 .. Len(files[f])) : f \in File}
        <3>1. out \in Seq(File \X Nat) /\ Rows /\ pc # "write" /\ \A f : ~Active(f)
            BY <2>2 DEF IInv, TypeOK, Round, Active, Visited
        <3>2. \A f \in File : \A n \in 1 .. Len(files[f]) : \E m \in 1 .. Len(out) : out[m] = <<f, n>>
            BY <3>1 DEF Rows, Printed
        <3>3. \A m \in 1 .. Len(out) :
                 \E f \in File : \E n \in 1 .. Len(files[f]) : out[m] = <<f, n>>
            <4> TAKE m \in 1 .. Len(out)
            <4>1. PICK f \in File, n \in Nat : out[m] = <<f, n>>
                BY <3>1
            <4>2. n \in 1 .. Len(files[f])
                BY <3>1, <4>1 DEF Rows
            <4> QED BY <4>1, <4>2
        <3>4. Range(out) = {out[m] : m \in 1 .. Len(out)}
            BY <3>1 DEF Range
        <3>5. ASSUME NEW x
              PROVE  x \in Range(out) <=> \E f \in File : \E n \in 1 .. Len(files[f]) : x = <<f, n>>
            <4>1. x \in Range(out) <=> \E m \in 1 .. Len(out) : x = out[m]
                BY <3>4
            <4>2. ASSUME NEW f \in File, NEW n \in 1 .. Len(files[f]), x = <<f, n>>
                  PROVE  \E m \in 1 .. Len(out) : x = out[m]
                BY <3>2, <4>2
            <4>3. ASSUME NEW m \in 1 .. Len(out), x = out[m]
                  PROVE  \E f \in File : \E n \in 1 .. Len(files[f]) : x = <<f, n>>
                BY <3>3, <4>3
            <4> QED BY <4>1, <4>2, <4>3
        <3>6. ASSUME NEW x
              PROVE  x \in UNION {{f} \X (1 .. Len(files[f])) : f \in File}
                        <=> \E f \in File : \E n \in 1 .. Len(files[f]) : x = <<f, n>>
            OBVIOUS
        <3> QED BY <3>5, <3>6
    <2> QED BY <2>1, <2>2 DEF AllRows
<1> QED BY <1>1, Invariance, PTL

\* The outputs of dealt events come out in the order of the event ids, for
\* every first id, with events that have no rows and files that end early:
\* "in order if event IDs have been deterministically assigned to processes"
\* (the comment above doitsort in kat.cpp).
THEOREM DealtInOrder == Spec => []DealtSorted
<1>1. IInv => DealtSorted
    BY DEF IInv, Sorted, DealtSorted
<1> QED BY <1>1, Invariance, PTL
=============================================================================
