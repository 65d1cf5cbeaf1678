---------------------------- MODULE SummaryStart -----------------------------
(***************************************************************************)
(* How summarycalc starts: its command line, the stream it is given, and   *)
(* the summaries its xref file gives the items, coverages or outputs.      *)
(* A command line is a sequence of options [o, set, pipe].                 *)
(***************************************************************************)
EXTENDS Integers, Sequences, SequencesExt, TLC

Text == INSTANCE StreamText

MAX_SUMMARY_SETS == 10
MAX_SUMMARY_ID == 2147483647
summarycalc ==
    [inputtype |-> "UNKNOWN", truecount |-> 0, zerooutput |-> FALSE, indexFile |-> FALSE,
     fout |-> <<>>, indexFiles |-> {}]

\* An index file is planned for a set whose output is a file.
openpipe(opt, set, pipe) ==
    [opt EXCEPT !.fout = (set :> pipe) @@ @,
                !.indexFiles = IF pipe = "-" THEN @ ELSE @ \cup {set}]
InputType(opt, type) == [opt EXCEPT !.inputtype = type, !.truecount = @ + 1]
Option(opt, a) ==
    CASE a.o \in {"g", "c"} -> InputType(opt, "GUL_COVERAGE_STREAM")
      [] a.o = "i" -> InputType(opt, "GUL_ITEM_STREAM")
      [] a.o = "x" -> InputType(opt, "GUL_ITEMX_STREAM")
      [] a.o = "f" -> InputType(opt, "FM_STREAM")
      [] a.o = "z" -> [opt EXCEPT !.zerooutput = TRUE]
      [] a.o = "m" -> [opt EXCEPT !.indexFile = TRUE]
      [] a.o = "set" -> openpipe(opt, a.set, a.pipe)
Parsed(args) == FoldLeft(Option, summarycalc, args)
Refused(opt) == opt.truecount # 1 \/ DOMAIN opt.fout = {}
openindexfiles(opt) == IF opt.indexFile THEN opt.indexFiles ELSE {}

------------------------------------------------------------------------------
(* The xref files *)

\* The rows of sets without output are passed over; the last row of an id
\* counts, and ids that have none are given summary 0.
Minimal(x, summary) == x                       \* mutant: the minimum not kept
Lowest(x, summary) == IF summary < x THEN summary ELSE x
Rows(rows, Id(_), open, ids, Grown(_)) ==
    LET Load(x, r) ==
          IF r.summaryset_id > 9 THEN [x EXCEPT !.refused = TRUE]
          ELSE IF x.refused \/ r.summaryset_id \notin open THEN x
          ELSE [x EXCEPT !.min[r.summaryset_id] = Lowest(@, r.summary_id),
                         !.max[r.summaryset_id] = IF r.summary_id > @ THEN r.summary_id ELSE @,
                         !.co_to_s[r.summaryset_id] = (Id(r) :> r.summary_id) @@ @ @@ Grown(Id(r))]
    IN  FoldLeft(Load, [refused |-> FALSE, min |-> [s \in open |-> MAX_SUMMARY_ID],
                        max |-> [s \in open |-> -1], co_to_s |-> [s \in open |-> ids]], rows)
\* Sized by the coverages file, or growing with the outputs.
Zeros(n) == [k \in 0 .. n |-> 0]
loadcoverages(tivs) == [c \in 0 .. Len(tivs) |-> IF c = 0 THEN 0 ELSE tivs[c]]
loadgulsummaryxref(rows, open, coverages) ==
    Rows(rows, LAMBDA r : r.coverage_id, open, [c \in DOMAIN coverages |-> 0], LAMBDA id : <<>>)
OutputId(r) == IF "output_id" \in DOMAIN r THEN r.output_id ELSE r.coverage_id
loadsummaryxref(rows, open) == Rows(rows, OutputId, open, <<>>, Zeros)
\* alloc_ssl_arrays: every open set has a summary 1 and none below.
Unusable(xref) == xref.refused \/ \E s \in DOMAIN xref.min : xref.min[s] # 1

\* loaditemtocoverage: item ids follow each other from 1.
ItemsContiguous(items) == \A n \in DOMAIN items : items[n].id = n
loaditemtocoverage(items) == [n \in 0 .. Len(items) |-> IF n = 0 THEN 0 ELSE items[n].coverage_id]

------------------------------------------------------------------------------
(* doit *)

isGulStream(stream) == Text!Has(stream, Text!gulstream_id)
isFMStream(stream) == Text!Has(stream, Text!loss_stream_id)

\* The input types differ in the xref file, what its ids are, and the streams.
XrefFile(type) == IF type = "FM_STREAM" THEN "fmsummaryxref" ELSE "gulsummaryxref"
dofmsummary(opt, bin) == loadsummaryxref(bin[XrefFile(opt.inputtype)], DOMAIN opt.fout)
dogulcoveragesummary(opt, bin) ==
    loadgulsummaryxref(bin["gulsummaryxref"], DOMAIN opt.fout, loadcoverages(bin["coverages"]))
Accepts(type, stream) ==
    CASE type \in {"FM_STREAM", "GUL_ITEM_STREAM"} -> isFMStream(stream)
      [] type = "GUL_COVERAGE_STREAM" -> isGulStream(stream) /\ stream.number = 2
      [] type = "GUL_ITEMX_STREAM" -> isGulStream(stream) /\ stream.number = 1

\* With -x a stream that is not a gul stream ends the program without an error.
\* The type of its own stream is written before the type of the input is read,
\* the sample size when the arrays are allocated.
Start(args, bin, stream) ==
    LET opt == Parsed(args)
        End(pc, written) == [pc |-> pc, opt |-> opt, written |-> written, stream |-> stream]
    IN  IF Refused(opt) THEN End("refused", 0)
        ELSE LET xref == IF opt.inputtype \in {"FM_STREAM", "GUL_ITEM_STREAM"}
                         THEN dofmsummary(opt, bin) ELSE dogulcoveragesummary(opt, bin)
             IN  IF \/ xref.refused
                    \/ opt.inputtype = "GUL_ITEMX_STREAM" /\ ~ItemsContiguous(bin["items"])
                 THEN End("refused", 0)
                 ELSE IF opt.inputtype = "GUL_ITEMX_STREAM" /\ ~isGulStream(stream) THEN End("ended", 1)
                 ELSE IF ~Accepts(opt.inputtype, stream) \/ Unusable(xref) THEN End("refused", 1)
                 ELSE End("started", 3)
                      @@ [xref |-> xref, index |-> openindexfiles(opt),
                          item_to_coverage |-> IF opt.inputtype = "GUL_ITEMX_STREAM"
                                               THEN loaditemtocoverage(bin["items"]) ELSE <<>>]

\* The id dosummary is called with, and the summary it looks up: with -x the
\* item is replaced by its coverage, and that once more as if it were an item.
IdPassed(run, id) == IF run.opt.inputtype = "GUL_ITEMX_STREAM" THEN run.item_to_coverage[id] ELSE id
SummaryOf(run, set, id) ==
    run.xref.co_to_s[set][IF run.item_to_coverage = <<>> THEN id ELSE run.item_to_coverage[id]]
==============================================================================
