------------------------------ MODULE GulStart -------------------------------
(***************************************************************************)
(* How gulcalc starts: its command line, the files it loads, the streams   *)
(* it opens and where it looks up its random numbers.  A command line is a *)
(* sequence of options [o, n], a letter and its number (0 for none).       *)
(***************************************************************************)
EXTENDS Integers, Sequences, SequencesExt, TLC

gulcalcopts ==
    [rndopt |-> "usehashedseed", rand_vector_size |-> 1000000, rand_seed |-> 0,
     itemLevelOutput |-> FALSE, coverageLevelOutput |-> FALSE, correlatedLevelOutput |-> FALSE,
     samplesize |-> -1, mode |-> 0, allocRule |-> -1]

\* Options take effect in their order: -a sets the mode, which -m overrules.
Option(opt, a) ==
    CASE a.o = "S" -> [opt EXCEPT !.samplesize = a.n]
      [] a.o = "l" -> [opt EXCEPT !.rndopt = "usecachedvector"]
      [] a.o = "A" -> [opt EXCEPT !.rndopt = "usehashedseed"]
      [] a.o = "r" -> [opt EXCEPT !.rndopt = "userandomnumberfile"]
      [] a.o = "R" -> [opt EXCEPT !.rand_vector_size = a.n]
      [] a.o = "s" -> [opt EXCEPT !.rand_seed = a.n]
      [] a.o = "a" -> [opt EXCEPT !.allocRule = a.n, !.mode = IF a.n > 0 THEN 1 ELSE 0]
      [] a.o = "m" -> [opt EXCEPT !.mode = a.n]
      [] a.o = "i" -> [opt EXCEPT !.itemLevelOutput = TRUE]
      [] a.o = "c" -> [opt EXCEPT !.coverageLevelOutput = TRUE]
      [] a.o = "j" -> [opt EXCEPT !.correlatedLevelOutput = TRUE]
\* Coverage output is for mode 0 alone, whatever was asked for.
Parsed(args) ==
    LET opt == FoldLeft(Option, gulcalcopts, args)
    IN  IF opt.coverageLevelOutput THEN [opt EXCEPT !.mode = 0] ELSE opt
Refused(opt) ==
    \/ ~opt.itemLevelOutput /\ ~opt.coverageLevelOutput
    \/ opt.mode \notin {0, 1}
    \/ opt.itemLevelOutput /\ opt.allocRule \notin 0 .. 2 /\ opt.mode # 0

\* The types of the streams: items as gul stream without -a, as losses with.
Stream(id, number) == [id |-> id, number |-> number]
Writers(opt) ==
    (IF ~opt.itemLevelOutput THEN <<>>
     ELSE "item" :> Stream(IF opt.allocRule \in 0 .. 2 THEN 2 ELSE 1, 1))
    @@ (IF opt.coverageLevelOutput THEN "coverage" :> Stream(1, 2) ELSE <<>>)
    @@ (IF opt.correlatedLevelOutput THEN "correlated" :> Stream(2, 1) ELSE <<>>)

\* The items of an areaperil and a vulnerability, in the order of the file.
getitems(items) ==
    LET Key(r) == <<r.areaperil_id, r.vulnerability_id>>
    IN  [k \in {Key(r) : r \in ToSet(items)} |-> SelectSeq(items, LAMBDA r : Key(r) = k)]
getcoverages(tivs) == [c \in 0 .. Len(tivs) |-> IF c = 0 THEN 0 ELSE tivs[c]]

------------------------------------------------------------------------------
(* Random numbers *)

isPrime(number) ==
    /\ number >= 2
    /\ number % 2 # 0 \/ number = 2
    /\ number % 3 # 0 \/ number = 3
    /\ \A k \in 1 .. number : 36 * k * k - 12 * k < number =>
          number % (6 * k + 1) # 0 /\ number % (6 * k - 1) # 0
\* The next prime after p1.
getp2(p1) == CHOOSE i \in p1 + 1 .. 2 * p1 + 4 : isPrime(i) /\ \A j \in p1 + 1 .. i - 1 : ~isPrime(j)
getp1(buffersize) == getp2(buffersize \div 2)

\* Where the numbers of a group begin in an event; the correlated stream takes
\* those of group 1.
Position(opt, count, group, event) ==
    LET p1 == getp1(count)
        p2 == getp2(p1)
        p3 == getp2(opt.samplesize)
    IN  IF opt.rndopt = "userandomnumberfile"
        THEN (group * p1 * p3 + event * p2) % count
        ELSE group * opt.samplesize
\* The place of number ridx: in the file wrapped once, in the vector modulo.
PlaceUnwrapped(opt, count, ridx) == ridx            \* mutant: no wrap
Place(opt, count, ridx) ==
    IF opt.rndopt = "userandomnumberfile"
    THEN IF ridx >= count THEN ridx - count ELSE ridx
    ELSE ridx % opt.rand_vector_size

------------------------------------------------------------------------------
\* doit: a random number file that is asked for must be there.
Start(args, bin) ==
    LET opt == Parsed(args)
    IN  IF \/ Refused(opt)
           \/ opt.rndopt = "userandomnumberfile" /\ "random" \notin DOMAIN bin
        THEN [pc |-> "refused", opt |-> opt]
        ELSE [pc |-> "started", opt |-> opt, streams |-> Writers(opt),
              items |-> getitems(bin["items"]), coverages |-> getcoverages(bin["coverages"]),
              count |-> IF opt.rndopt = "userandomnumberfile" THEN Len(bin["random"]) ELSE 0]
==============================================================================
