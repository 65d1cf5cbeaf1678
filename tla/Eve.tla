-------------------------------- MODULE Eve --------------------------------
(* eve: the event emitter that partitions the event list over the processes *)
(* of a run.  A run starts "eve pno total" once for every pno in 1..total;  *)
(* the processes share nothing but the options and the file events.bin, and *)
(* each must find out by itself which events are its own.                   *)
(*                                                                          *)
(* The k-th record of events.bin is represented by its number k.            *)
EXTENDS Integers, Sequences

CONSTANTS MaxEvents,    \* bound on the number of records of events.bin
          MaxTotal      \* bound on the number of processes

ASSUME BoundsAssumption == MaxEvents \in Nat /\ MaxTotal \in Nat

VARIABLES
    shuffle, randomise, legacy, \* options: no -n, -r, -R (rigid)
    total,      \* totalprocesses (rigid)
    size,       \* events.size() (rigid)
    draw,       \* draw[k]: the k-th value of the seeded engine's distribution
    perm,       \* perm: where std::shuffle, seeded the same, puts the records
    pc,         \* pc[p]: "start", "chunk", "deal", "fisher" or "done"
    events,     \* events[p]: the vector of process p
    pos,        \* pos[p]: elements of the vector already passed
    out,        \* out[p]: the records written by process p
    trail       \* history (-r): the vector before and after every swap

params == <<shuffle, randomise, legacy, total, size, draw, perm>>
vars == <<params, pc, events, pos, out, trail>>

Process == 1 .. total
Record == 1 .. size
File == [k \in Record |-> k]
\* A vector holding every record exactly once.
OneToOne(v) == \A i, j \in Record : v[i] = v[j] => i = j
Onto(v) == \A r \in Record : \E i \in Record : v[i] = r
Permutation == {v \in [Record -> Record] : OneToOne(v) /\ Onto(v)}

\* The branch emitevents takes, given the priorities of main: -n before -r
\* before -R.
Mode == IF ~shuffle THEN "chunk"
        ELSE IF randomise THEN "fisher"
        ELSE IF legacy THEN "legacy" ELSE "deal"

-----------------------------------------------------------------------------
\* The block of process p: elements StartPos(p) (inclusive, from 0) to
\* StartPos(p + 1) (exclusive).  The first size % total processes have one
\* element more than the others.
min_chunksize == size \div total
first_min_pno == (size % total) + 1
Smaller(a, b) == IF a <= b THEN a ELSE b
StartPosPlain(p) ==                         \* mutant: the remainder is lost
    min_chunksize * (p - 1)
StartPos(p) ==
    (min_chunksize + 1) * (Smaller(first_min_pno, p) - 1)
        + min_chunksize * (IF p > first_min_pno THEN p - first_min_pno ELSE 0)

\* Element k (from 1) is dealt to process p.
Dealt(p, k) == (k - p) % total = 0

Swap(v, i, j) == [v EXCEPT ![i] = v[j], ![j] = v[i]]
\* Step k of the Fisher-Yates shuffle: element k is exchanged with an element
\* that is still to come.
SwapAny(v, k) == Swap(v, k, 1 + draw[k])    \* mutant: drawn from the beginning
Shuffled(v, k) == Swap(v, k, k + draw[k])

-----------------------------------------------------------------------------
Init ==
    /\ shuffle \in BOOLEAN /\ randomise \in BOOLEAN /\ legacy \in BOOLEAN
    /\ total \in 1 .. MaxTotal
    /\ size \in 0 .. MaxEvents
    /\ draw \in [Record -> 0 .. MaxEvents]
    /\ \A k \in Record : draw[k] <= IF Mode = "fisher" THEN size - k ELSE 0
    /\ perm \in IF Mode = "legacy" THEN Permutation ELSE {File}
    /\ pc = [p \in Process |-> "start"]
    /\ events = [p \in Process |-> File]
    /\ pos = [p \in Process |-> 0]
    /\ out = [p \in Process |-> <<>>]
    /\ trail = [p \in Process |-> <<>>]

\* readevents, and the choice of the loop that emits.
ReadEvents(p) ==
    /\ pc[p] = "start"
    /\ IF Mode \in {"chunk", "legacy"}
         THEN /\ pc' = [pc EXCEPT ![p] = "chunk"]
              /\ pos' = [pos EXCEPT ![p] = StartPos(p)]
         ELSE pc' = [pc EXCEPT ![p] = Mode] /\ UNCHANGED pos
    /\ events' = [events EXCEPT ![p] = IF Mode = "legacy" THEN perm ELSE File]
    /\ trail' = [trail EXCEPT ![p] = <<File>>]
    /\ UNCHANGED <<params, out>>

\* One iteration of the loop of emitevents (-n, and -R after its shuffle).
EmitNext(p) ==
    /\ pc[p] = "chunk"
    /\ pos[p] < StartPos(p + 1)
    /\ out' = [out EXCEPT ![p] = Append(@, events[p][pos[p] + 1])]
    /\ pos' = [pos EXCEPT ![p] = @ + 1]
    /\ UNCHANGED <<params, pc, events, trail>>

\* One iteration of the loop of doshuffle (the default).
DealNext(p) ==
    LET k == pos[p] + 1 IN
    /\ pc[p] = "deal"
    /\ k <= size
    /\ out' = IF Dealt(p, k) THEN [out EXCEPT ![p] = Append(@, events[p][k])] ELSE out
    /\ pos' = [pos EXCEPT ![p] = k]
    /\ UNCHANGED <<params, pc, events, trail>>

\* One iteration of the loop of randomiseevents (-r): every process makes
\* every swap, its own elements or not, or the vectors would differ.
SwapNext(p) ==
    LET k == pos[p] + 1
        v == Shuffled(events[p], k)
    IN
    /\ pc[p] = "fisher"
    /\ k <= size
    /\ events' = [events EXCEPT ![p] = v]
    /\ trail' = [trail EXCEPT ![p] = Append(@, v)]
    /\ out' = IF Dealt(p, k) THEN [out EXCEPT ![p] = Append(@, v[k])] ELSE out
    /\ pos' = [pos EXCEPT ![p] = k]
    /\ UNCHANGED <<params, pc>>

Finish(p) ==
    /\ \/ pc[p] = "chunk" /\ pos[p] >= StartPos(p + 1)
       \/ pc[p] \in {"deal", "fisher"} /\ pos[p] >= size
    /\ pc' = [pc EXCEPT ![p] = "done"]
    /\ UNCHANGED <<params, events, pos, out, trail>>

Next == \E p \in Process : ReadEvents(p) \/ EmitNext(p) \/ DealNext(p)
                             \/ SwapNext(p) \/ Finish(p)

Spec == Init /\ [][Next]_vars

-----------------------------------------------------------------------------
TypeOK ==
    /\ shuffle \in BOOLEAN /\ randomise \in BOOLEAN /\ legacy \in BOOLEAN
    /\ total \in Nat \ {0}
    /\ size \in Nat
    /\ draw \in [Record -> Nat]
    /\ \A k \in Record : k + draw[k] \in Record
    /\ perm \in [Record -> Record]
    /\ pc \in [Process -> {"start", "chunk", "deal", "fisher", "done"}]
    /\ events \in [Process -> [Record -> Record]]
    /\ pos \in [Process -> 0 .. size]
    /\ out \in [Process -> Seq(Record)]
    /\ trail \in [Process -> Seq([Record -> Record])]

\* No event is given to two processes, or twice to one: with either of the
\* four ways to split the list, whatever the list's length and the number of
\* processes, and although each process shuffles a vector of its own.
EmittedOnce ==
    \A p, q \in Process : \A m \in 1 .. Len(out[p]), n \in 1 .. Len(out[q]) :
        out[p][m] = out[q][n] => p = q /\ m = n

\* When all processes have ended no event of the list is missing.
AllEmitted ==
    (\A p \in Process : pc[p] = "done") =>
        \A r \in Record : \E p \in Process : \E m \in 1 .. Len(out[p]) : out[p][m] = r

-----------------------------------------------------------------------------
(* The inductive invariant.                                                 *)
Blockwise == Mode \in {"chunk", "legacy"}

\* Element k of the vector is for process p to emit.
Owned(p, k) == IF Blockwise THEN StartPos(p) < k /\ k <= StartPos(p + 1)
               ELSE Dealt(p, k)

LoopInv(p) ==
    /\ pc[p] = "start" => pos[p] = 0 /\ out[p] = <<>> /\ trail[p] = <<>>
    /\ pc[p] = "chunk" => Blockwise
    /\ pc[p] \in {"deal", "fisher"} => pc[p] = Mode
    /\ pc[p] # "start" /\ Blockwise => /\ pos[p] >= StartPos(p)
                                       /\ pos[p] <= StartPos(p + 1)
                                       /\ events[p] = IF Mode = "legacy" THEN perm ELSE File
    /\ Mode = "deal" => events[p] = File
    /\ pc[p] = "done" => pos[p] = IF Blockwise THEN StartPos(p + 1) ELSE size

\* The trail is the sequence of vectors the draws determine, and a swap leaves
\* the elements already passed alone.
TrailInv(p) ==
    Mode = "fisher" /\ pc[p] # "start" =>
        /\ Len(trail[p]) = pos[p] + 1
        /\ trail[p][1] = File
        /\ trail[p][pos[p] + 1] = events[p]
        /\ \A j \in 1 .. pos[p] : trail[p][j + 1] = Shuffled(trail[p][j], j)
        /\ \A j \in 1 .. pos[p] : trail[p][j + 1][j] = events[p][j]

\* All processes pass through the same vectors.
SameTrail ==
    Mode = "fisher" =>
        \A p, q \in Process : \A j \in 1 .. Len(trail[p]) :
            j <= Len(trail[q]) => trail[p][j] = trail[q][j]

\* What a process has written is what it owns of the elements passed.
OutInv(p) ==
    /\ \A m \in 1 .. Len(out[p]) : \E k \in 1 .. pos[p] :
          Owned(p, k) /\ out[p][m] = events[p][k]
    /\ \A k \in 1 .. pos[p] : Owned(p, k) =>
          \E m \in 1 .. Len(out[p]) : out[p][m] = events[p][k]
    /\ \A m, n \in 1 .. Len(out[p]) : out[p][m] = out[p][n] => m = n

IInv ==
    /\ TypeOK
    /\ perm \in Permutation
    /\ \A p \in Process : /\ events[p] \in Permutation
                          /\ LoopInv(p) /\ TrailInv(p) /\ OutInv(p)
    /\ SameTrail
=============================================================================
