------------------------------ MODULE KatSort ------------------------------
(* kat -s: merge the eltcalc outputs of the processes of a run into one, in *)
(* the order of the event ids.  kat does not compare the heads of the files *)
(* with each other: it counts upwards and expects each event in the file    *)
(* the default deal of eve would have sent it to.                           *)
(*                                                                          *)
(* A row of an input file is represented by the id of its event.            *)
EXTENDS Integers, Sequences, SequencesExt

CONSTANTS NDealt,       \* records of events.bin when eve deals them in turn
          NRandom,      \* and when it splits them at random
          FirstIds,     \* their ids are contiguous and start with one of these
          NFiles,       \* number of input files, one per process
          RowCounts     \* numbers of rows eltcalc may write for an event

\* How eve splits the events: in turn, its default, or at random.
Splits == {"deal", "any"}
NEvents(s) == IF s = "deal" THEN NDealt ELSE NRandom

ASSUME KatAssumption ==
    /\ NDealt \in Nat /\ NRandom \in Nat
    /\ FirstIds \subseteq Nat \ {0}
    /\ NFiles \in Nat \ {0, 1}          \* one file is copied by doit
    /\ RowCounts \subseteq Nat

VARIABLES
    split,      \* how the events are split (rigid)
    first,      \* the id of the first event (rigid)
    left,       \* the events eve has not yet emitted, by number
    files,      \* files[f]: the rows of input file f
    pc,         \* "write", "merge" or "done"
    row,        \* row[f]: number of the row held in eOut
    orders,     \* the files not yet exhausted, in the order they are visited
    it,         \* position of the iterator in orders
    expectedEventID,
    out         \* rows printed: <<file, row number>>

upstream == <<split, first, left, files>>
vars == <<upstream, pc, row, orders, it, expectedEventID, out>>

File == 1 .. NFiles
Id(k) == first + k - 1

\* The share of a process in eve's default deal, by the number of an event.
Deal == INSTANCE Eve WITH
    MaxEvents <- NDealt, MaxTotal <- NFiles,
    total <- NFiles, size <- NDealt,
    shuffle <- TRUE, randomise <- FALSE, legacy <- FALSE, draw <- <<>>,
    perm <- <<>>, pc <- <<>>, events <- <<>>, pos <- <<>>, out <- <<>>, trail <- <<>>

\* Event k is emitted next, to the process of file f.
Emitted(k, f) ==
    split = "deal" => Deal!Owned(f, k) /\ \A j \in left : k <= j

HeadId(f) == files[f][row[f]]               \* event id in eOut[f]

-----------------------------------------------------------------------------
\* The place of a file in the round: where its first event was dealt to.
Order(id) == IF id % NFiles = 0 THEN NFiles ELSE id % NFiles

Init ==
    /\ split \in Splits
    /\ first \in FirstIds
    /\ left = 1 .. NEvents(split)
    /\ files = [f \in File |-> <<>>]
    /\ pc = "write"
    /\ row = [f \in File |-> 1]
    /\ orders = <<>>
    /\ it = 1
    /\ expectedEventID = 1
    /\ out = <<>>

\* The eltcalc that receives an event writes its rows, none if it has no losses.
WriteEvent ==
    /\ pc = "write"
    /\ \E k \in left, f \in File, n \in RowCounts :
        /\ Emitted(k, f)
        /\ files' = [files EXCEPT ![f] = files[f] \o [i \in 1 .. n |-> Id(k)]]
        /\ left' = left \ {k}
    /\ UNCHANGED <<split, first, pc, row, orders, it, expectedEventID, out>>

\* Read the first row of each file and sort the files that have one.  Files of
\* the same order are sorted by the address of their FILE.
ReadHeads ==
    /\ pc = "write" /\ left = {}
    /\ orders' \in {o \in SetToSeqs({f \in File : files[f] # <<>>}) :
                      \A m, n \in 1 .. Len(o) :
                         m < n => Order(HeadId(o[m])) <= Order(HeadId(o[n]))}
    /\ pc' = "merge"
    /\ UNCHANGED <<upstream, row, it, expectedEventID, out>>

ExpectedKept == expectedEventID             \* mutant: not counted
NextExpected == expectedEventID + 1

Due(f) == HeadId(f) <= expectedEventID
\* The event of the file is not due yet.
Skip ==
    /\ pc = "merge"
    /\ it <= Len(orders)
    /\ ~Due(orders[it])
    /\ it' = it + 1
    /\ expectedEventID' = NextExpected
    /\ UNCHANGED <<upstream, pc, row, orders, out>>

\* The iterator after the last row of a file: erase, it--, and the loop's it++.
ErasedAhead == it + 1                       \* mutant: no it--, the next file is passed over
AfterErase == it

\* Print a row and read the next one of the file; go on with the file while
\* its rows are due.
PrintRow ==
    LET f == orders[it] IN
    /\ pc = "merge"
    /\ it <= Len(orders)
    /\ Due(f)
    /\ out' = Append(out, <<f, row[f]>>)
    /\ IF row[f] = Len(files[f])
         THEN /\ orders' = RemoveAt(orders, it)
              /\ it' = AfterErase
              /\ expectedEventID' = NextExpected
              /\ UNCHANGED row
         ELSE /\ row' = [row EXCEPT ![f] = @ + 1]
              /\ IF files[f][row[f] + 1] <= expectedEventID
                   THEN UNCHANGED <<it, expectedEventID>>
                   ELSE /\ it' = it + 1
                        /\ expectedEventID' = NextExpected
              /\ UNCHANGED orders
    /\ UNCHANGED <<upstream, pc>>

\* A round is over.
StopAtEnd == TRUE                           \* mutant: one round only
Exhausted == orders = <<>>
NextRound ==
    /\ pc = "merge"
    /\ it > Len(orders)
    /\ IF Exhausted THEN pc' = "done" /\ UNCHANGED it
                    ELSE it' = 1 /\ UNCHANGED pc
    /\ UNCHANGED <<upstream, row, orders, expectedEventID, out>>

Next == WriteEvent \/ ReadHeads \/ Skip \/ PrintRow \/ NextRound

Spec == Init /\ [][Next]_vars
FairSpec == Spec /\ WF_vars(Next)

-----------------------------------------------------------------------------

\* "The output will still contain all events": whatever the distribution of
\* the events, every row of every file is printed, once, and the rows of a
\* file in their order.
AllRows ==
    /\ \A m, n \in 1 .. Len(out) : m < n /\ out[m][1] = out[n][1] => out[m][2] < out[n][2]
    /\ pc = "done" => Range(out) = UNION {{f} \X (1 .. Len(files[f])) : f \in File}

\* The rows come out in the order of the event ids.
SortedByEvent ==
    \A m, n \in 1 .. Len(out) :
        m < n => files[out[m][1]][out[m][2]] <= files[out[n][1]][out[n][2]]

\* ... when the events were dealt to the processes in turn, as eve does
\* unless told otherwise.
DealtSorted == split = "deal" => SortedByEvent

\* The loop ends: the expected event overtakes every id.
Ends == <>(pc = "done")
=============================================================================
