# ktools: a verification project in TLA+

ktools is a set of small C++ programs that calculate catastrophe losses. They
are connected by pipes: each reads a stream of events from its standard input
(or a file), does one step of the calculation, and writes a stream for the next.

    eve -> getmodel -> gulcalc -> fmcalc -> summarycalc -> eltcalc, pltcalc -> kat
                                                       \-> leccalc, aalcalc

A run is split over several processes by `eve`: process *p* of *n* gets a share
of the event list and drives a pipe of its own. There are no threads and no
locks. What makes the code hard is elsewhere:

- **Nothing in a stream says where an event ends.** Every reader finds out from
  the header of the next event, or from the end of the stream, and has by then
  read something that belongs to neither. Reports are therefore written one step
  late, under the id and from the sums of an event that is over.
- **Accumulators are reused.** The arrays of an event are cleared and used for
  the next; whatever is not cleared, cleared too early, or cleared in the wrong
  place shows up in another event's report.
- **The last of everything is special**: the last event, the last block, the last
  buffer, the last row of a file. Nothing that follows announces its end.
- **Processes share nothing.** The shares of eve's processes are disjoint and
  complete only because each process calculates the same thing by itself.
- **Sizes and offsets are counted by hand**: output buffers, index files.

This directory holds the specifications, the TLC configurations that check them
on small instances, and the proofs checked by TLAPS. `PROJECT.json` lists the
components, runs, mutants, hazards, theorems and, for each definition, the lines
of the source it stands for. Paths below are relative to `src/` of the source
repository (`src/src/...` in PROJECT.json is `src/...` here).

## 1. Inventory

| Component | State it keeps | Operations | Hard behaviour | Properties that make it correct | Module |
|---|---|---|---|---|---|
| **validators** (`validate*`, `crossvalidation/`) | last row, sets of ids | check order, ranges, references between files | duplicates on one side and gaps on the other; files read to different depths | accepted exactly when the files fit | `OasisValidation`, `ModelValidation` |
| **converters** (`*tobin`, `*tocsv`, `footprintconv/`) | index offset, last id | record by record; index entries one id late | malformed lines; offsets over blocks of different size; dates | what is written is read back; index addresses blocks | `Converters`, `Footprint`, `Vulnerability`, `Occurrence`, `StreamText` |
| **eve** (`eve/`) | the event vector, position, options, seeded engine | deal (default), blocks (`-n`), Fisher-Yates (`-r`), legacy shuffle (`-R`) | each process shuffles its own copy while it emits | disjoint and complete shares; no index out of bounds | `Eve` |
| **getmodel** (`getmodel/`) | footprint index, vulnerability table, probabilities of the intensities of an areaperil | per event: read footprint rows, one CDF per vulnerability | the map is cleared only when results were written; four forms of the footprint, three of the vulnerabilities | CDFs are those of the csv rows, one per areaperil and vulnerability | `GetModel` |
| **gulcalc, start** (`gulcalc/main.cpp`, `doit.cpp`, `getrands.h`) | options, items by areaperil and vulnerability, random numbers | parse options, open streams, place the numbers of a group | options that override one another; the file of numbers is wrapped once | streams fit their readers; numbers inside the file | `GulStart` |
| **gulcalc, sampling** (`gulcalc/gulcalc.cpp`) | coverage sums `cov_`, items by coverage `mode1_stats_` | per CDF: sample the items, sum coverages (mode 0), or collect and allocate at the event's end (mode 1) | per-event state in both modes; threshold, cap and allocation in an order that matters; correlation only through seeds | coverage = capped sum of items; allocation conserves loss | `GulCalc` |
| **gulcalc, writers** | three buffers with offset, last header, first flag | append a loss, flush when full, final flush | flushed on entry only, then up to three pieces are appended; a block is closed by the next one | no overrun; stream framed however it is cut | `GulWriter` |
| **stream formats** (`include/oasis.h`) | - | headers, records, special sample indexes -1, -2, -3, terminator 0 | headers and records have the same size and no tag | reader and writer stay in step | `GulWriter`, `FmEvents`, `StreamText` |
| **fmcalc, start** (`fmcalc/main.cpp`, init functions of `fmcalc.cpp`) | vectors by level and node | load programme, profiles, policies, xref, insured values | rows in any order; missing layers filled by position; insured values counted once | tables are what the csv files state | `FmInput`, `Inputs` |
| **fmcalc, reader** (`fmcalc/fmcalcdoit.cpp`) | matrix of losses by sample and item, last event, items | read header, record, terminator, end | three places call `dofm`; sparse samples | each event calculated once, with its own losses, zero elsewhere | `FmEvents` |
| **fmcalc, programme** (`fmcalc/fmcalc.cpp`) | per level and layer vectors, policies, proportions | aggregate a level, apply rules, back-allocate, output | vectors reused between samples; positions shared between layers | no loss carried between samples; allocation conserves loss; net and retained losses are what the layers leave | `FmCalc` |
| **fmcalc, rules** (`fmcalc/fmcalcrules.cpp`) | - | some 30 calculation rules | combinations of deductibles and limits | deductibles given back once and within prior limits | `FmRules` |
| **summarycalc** (`summarycalc/`) | one accumulator array per summary set, exposure array, statics `last_event_id` and `last_coverage_or_output_id`, byte offset | start: options, xref, stream type; add a record, report an event, index line | all of the list above | reports exact, once, complete; index addresses blocks; ids lead to the summaries of the xref file | `SummaryStart`, `SummaryCalc`, `SummaryReport` |
| **eltcalc, pltcalc** (`eltcalc/`, `pltcalc/`) | sums of one summary block; occurrences by event | per block: a row per type, or per type and occurrence | sums reused over the occurrences of an event; two date formats | one row per occurrence; agrees with aalcalc | `EventTables`, `Results` |
| **leccalc, ordleccalc** (`leccalc/`, `ordleccalc/`) | losses by summary, sample and period (sum and maximum), periods, weights | accumulate with or without index files, write tables | the index path resets per summary; the tables of one report share files | curves are quantiles of the losses, none missing, on either path | `LecCalc`, `AggReports`, `EpTables` |
| **aalcalc, summary index** (`aalcalc/`, `summaryindex/`) | sums over a period, per-summary sums and sums of squares | build the index, accumulate in its order | squares need all of a period together, over several files; events without occurrence | mean and variance exact | `AalCalc`, `SummaryFiles`, `Results` |
| **kat** (`kat/`) | heads of the input files, order vector, expected event | concatenate; merge by counting up (`-s`) | erases from the vector it iterates over | every row once; dealt files in order; the loop ends | `KatSort` |
| **pipes** | what is written and not yet read | - | a process sees its input in pieces; types are recognised by bits | what is read is what was meant | `GulToFm`, `Inputs` |
| **vendored** (`include/catch.hpp`, `include/dirent.h`, `wingetopt/`) and unit tests (`kunit/`) | | | | | not modelled |

How the components interact: only through streams and files. A stream is a
prologue (type, number of samples) and a sequence of blocks (a header with event
and item, output or coverage; records of a sample index and a loss; a terminator
with sample index 0). The terminator of the last block may be missing. Options
that must agree between processes (number of samples, number of processes, seed)
are set by the caller.

## 2. Modules

How they build on one another (arrows are EXTENDS or INSTANCE):

    Inputs    -> Converters -> Occurrence      Results -> AalCalc -> SummaryFiles, Fractions
              -> OasisValidation                       -> EventTables, Occurrence
              -> FmInput -> StreamText         LecCalc -> AggReports -> EpTables -> Fractions
              -> FmRules                               -> SummaryFiles
              -> GulStart, SummaryStart        FmCalc  -> FmRules, Fractions
    GetModel  -> ModelValidation -> Vulnerability -> Footprint
    GulToFm   -> GulWriter, FmEvents           KatSort -> Eve
    SummaryCalc -> SummaryReport (refinement)

### Inputs: validation, conversion, loading, starting

`Inputs` follows a directory of csv files. `Validate` is validateoasisfiles (`OasisValidation`), `Convert` runs
the `tobin` programs (`Converters`, and `StreamText` for the streams that can be made from text), `PrintBack`
the `tocsv` programs, and then the five init functions of `fmcalc` fill its tables one after the other
(`FmInput`), or gulcalc and summarycalc are started (`GulStart`, `SummaryStart`) and connected.

A csv line is the sequence of the values `sscanf` returns, so that a malformed line is a shorter one. Text is not
put together character by character. A vector of vectors is a function of the indices that were assigned. A
command line is a sequence of options, taken in order as `getopt` delivers them. A stream is known by the
two parts of its first word, and by `Has` of `StreamText` a reader tests a single bit of the first.

Not modelled: the text of error messages, `-d` of the programs. `StartGulcalc` and `StartSummarycalc` are
taken where nothing was printed back: printing changes no file. Ids in an xref file that are
larger than the coverage table index it out of bounds; the inputs have none.

### GetModel and the model files

`Footprint` and `Vulnerability` hold the converters of the model data in all their forms (plain, indexed,
compressed, with and without the size of the uncompressed event), `ModelValidation` the validators, and `GetModel` the program: one
action for a new event, a record of the same areaperil, one of another, the end of the event. zlib
is external: a block of rows takes `ZLen(rows)` cells and comes back only from all of them and into a buffer
that is large enough. The converters index the rows read so far, so in a file they refuse the earlier blocks stand. Probabilities are parts of `One`, and sums of products are compared with `One * One`.

### SummaryCalc and SummaryReport

`SummaryCalc` models `dosummaryprocessing`, `dosummary`, `outputsummary` and
`outputsummaryset` of `summarycalc.cpp`. The statics of `dosummary` and the
arrays `sssl` (losses by set, summary, slot) and `sse` (exposures) are variables;
an action is one header, record or terminator read, or one iteration of the
report's loops. The record that announces a new event is set aside in `rec`
while the previous event is reported, as it is in the activation of `dosummary`.
The index lines and the offset `offset_` are kept in bytes. The upstream process
is the environment: it sends the blocks of one event together, one for each
output, in any order, with sample indexes in order (`ReadHeader`, `MayFollow`).
The history variables `total` and `expo` keep the losses per event forever.

`SummaryReport` is the promise: a ledger with one account for each event, set and
summary, never reset, from which closed events are published once.
`ImplementsLedger` is the refinement.

Not modelled: `-x` (`dogulitemxsummary`), a separate loop marked experimental in
which the function returns before the final report (`summarycalc.cpp:497`).

### Eve

All processes of a run, each with a copy of the vector. The generator is a rigid
sequence `draw` (all processes are seeded alike) and `std::shuffle` a rigid
permutation. `StartPos` is the arithmetic of the block limits. `trail` is a history
of the vectors a process has passed through, which the proofs need to say that all
processes pass through the same ones.

### GulCalc

`processrec`, `processrec_mode1` and what they call. One action is one CDF
(`ReadCdf`, with `mode0` or `mode1` as `main.cpp` chooses) or the end of the
input. The options are a rigid variable `opt_`, so that one run covers several
command lines; the mode is one of them, since `-m` overrules the one that `-a` implies, and a rule without
mode 1 (`-a 2 -m 0`) allocates nothing. Damage and probability are integers, and a loss is a bin's mean
damage of the exposure: interpolation within a bin and the moments of a CDF are
floating point arithmetic and enter through their results. Random numbers are
drawn once for an event and group, which is what seeding by group and event
means; the correlated stream uses the event's own (`group 0`). Instances choose exposures that
every divisor divides, so that integer division is exact where the code divides
floats. The output writers appear as the sequences of records given to them;
how these become bytes is GulWriter.

`GulStart` says where the numbers of a group begin in a file (`-r`) or a vector (`-l`). Not modelled: `-d`
(numbers instead of losses) and `-b` (benchmark).

### GulWriter, FmEvents, GulToFm

`GulWriter` is the algorithm that `itemoutputgul`, `correlatedoutputgul` and
`covoutputgul` share over three buffers. Sizes are in words of 8 bytes. `Follows`
is the order in which GulCalc's properties say records arrive (`BlocksTogether`).

`FmEvents` is the loop of `fmcalc::doit`. Its stream comes from outside: a
finished file in `MC_FmEvents`, the running writer in `GulToFm`. A loss is
represented by the event, item and sample it belongs to, so that a loss in the wrong
cell is always seen.

`GulToFm` composes the two: the reader sees a record once its buffer was
written, and the end of the stream once the writer has ended.

### FmCalc, FmRules, Fractions

`FmRules` holds the rules of `applycalcrule` and `applycalcrule_stepped`, one operator a rule, on a loss
record. What the rules share (a deductible that is added to the effective deductible, a limit that keeps
account of what is over and under it, minimum and maximum deductibles that reapply prior limits) is stated
once; where a rule differs from its siblings it has an operator of its own (`MinimisedOnce` for rule 8,
`Reduced` for the deductibles rules 8, 10, 11 and 13 do not count). Amounts are integers and proportions are
counted in `PARTS`-ths, rounded down.

`FmCalc` is `dofm` and `dofmcalc_r`. A case (the CONSTANT `Cases`) is a programme, the losses of one event and
the options. An action is one call of `dofmcalc_r` (`CalcLevel` below the last level, `CalcLast` on it) or one turn of
the sample loop (`NextSample`). The vectors `agg_vecs` survive from sample to sample as they do in the code, and
`outmap` collects the rows. Where the code follows a pointer into `avxs` the record has a copy of the items: they
do not change during an event. On a stream that is not a gul stream (`isGULStreamType_`) the insured
values of all records are 0, and the programme needs no coverages. The proportions of `compute_item_proportions` are exact fractions (`Fractions`),
so conservation is checked as an equality; float rounding is not modelled.

`-M` (fewer levels) is part of loading (`FmInput`). Not modelled: `-d` (rows for zero losses), `-O` (the proportions computed again for each
node), and the branch of `compute_item_proportions` for layers below the last level: the input has
`layer_id = 1` there (`docs/md/DataConversionComponents.md:571`), which `CasesAssumption` states.

### KatSort

`doitsort` of `kat.cpp`: reading the heads and sorting them, skipping a file,
printing a row, erasing an exhausted file while iterating, starting a new round.
Before that `WriteEvent` writes the files as eltcalc does, event by event: in the
deal of eve (`Owned`, from `Eve` by `INSTANCE`), or, for a random split, to any
process and in any order. Files whose
turns are equal are sorted by the address of their `FILE`, that is in any order.

### LecCalc, AggReports, EpTables

`LecCalc` reads the summary files, in the order of the master index with one report per summary or
file by file with one report for all. `AggReports` says which tables a report holds, from which losses and in which file;
`EpTables` is the calculation of a curve: ranks, cumulative weights, return periods asked for with
interpolation, tail values. Losses and return periods are exact fractions; the slack the code adds to a
cumulative weight for floating point errors is kept (`RoundingSlack`).

### Results: AalCalc and EventTables

`AalCalc` builds the index of the work folder from files with and without `.idx` and reads
in its order; `EventTables` is eltcalc and pltcalc, one process per stream, reading while aalcalc runs.
`Results` puts them side by side on the same losses so that their tables can be compared. Deviations are kept as
variances, as the square root is not rational. `Occurrence` is the pair of date algorithms of occurrencetobin and
pltcalc; an assumption of `MC_Results` compares them with the calendar for four centuries.

### Fractions

Exact rational numbers with a small set of operations, used where the code uses floats and a property is an equality.
`SummaryFiles` is what leccalc and aalcalc share: a work folder and its listing.

## 3. Runs

| Run | Module, configuration | What it asks | Bounds |
|---|---|---|---|
| `inputs` | MC_Inputs, Inputs.cfg | the cross check is exact, tables are what the files state, programs start on the right streams and options, text comes back | programmes of 2 and 3 levels over 3 items and 2 coverages, 31 rules, every single defect the code looks for and some it does not; 28 command lines of gulcalc, 13 of summarycalc |
| `model` | MC_GetModel, GetModel.cfg | CDFs are those of the rows, files come back, failures have a reason | 2 to 4 events, 3 to 5 areaperils, 2 intensity bins, 3 damage bins, every form of the files |
| `eve_partition` | Eve, Eve.cfg | shares disjoint and complete | up to 5 events, up to 3 processes, 4 modes, all draws |
| `gulcalc` | MC_GulCalc, GulCalc.cfg | blocks whole and in order, losses sampled, coverage sums, allocation | 2 events, 2 keys, 3 items, 2 coverages, 1 or 2 samples, 8 command lines |
| `gul_to_fm` | GulToFm, GulToFm.cfg | buffer bound, framing, what fmcalc gets, liveness | 2 events, 2 items, 2 samples, a buffer of 5 words with 2 spare |
| `fmevents` | MC_FmEvents, FmEvents.cfg | each event calculated once, exact matrices | all framed streams of up to 2 events with up to 2 items and 2 samples, either type |
| `fmcalc` | MC_FmCalc, FmCalc.cfg | the vectors hold the sample, allocation, net, retained losses, payments bounded | see below |
| `fm_layers` | MC_FmCalc, FmCalc_layers.cfg | violation, see findings | one account, 2 layers, allocrule 2 and 3 |
| `summary_loss` | MC_SummaryCalc, SummaryCalc.cfg | exact reports, each once, none lost, index, refinement of the ledger, termination | 2 events, 2 outputs, 1 sample, 1 set, 2 summaries |
| `leccalc` | MC_LecCalc, LecCalc.cfg | curves are quantiles and complete, means are averages, files opened | 2 files, 2 or 3 summaries, 3 events, 3 periods, 2 samples, 9 command lines |
| `results` | MC_Results, Results.cfg | means and variances exact, three tables agree, one row per occurrence | 2 files, 2 or 3 summaries, 3 events, 3 periods, 2 or 3 samples |
| `kat` | KatSort, KatSort.cfg | all rows once, dealt rows in order, termination | 4 files; 7 dealt events or 3 in any distribution and order; 0 to 2 rows each |

Why the bounds are enough to be interesting:

- *Two events* make every hand-over between events happen, and both last and
  not-last events. Ids are not contiguous and come in both orders.
- *Two outputs or items*, mapped in every way, give summaries with none, one and
  both; an output that ends one event and begins the next; exposures of zero
  (blocks skipped) and positive.
- *gulcalc*: items 1 and 2 are two perils of coverage 1, items 1 and 3 share a group
  but not a coverage. Events may send either or both CDFs. One CDF ends below the
  largest random number. Losses below, at and above the threshold occur; sums below,
  at and above the exposure; ties under allocation rule 2.
- *the buffer* holds five words, so that each record of a block is in some behaviour the
  one that meets a full buffer, and a block may be cut anywhere.
- *kat*: seven events over four files give two rounds, the last incomplete; first
  ids 1 and 5 start the count in step and out of step; events without rows leave gaps
  and end files early. Four files is the least with which a file passed over after an erasure shows in the
  order of the rows.
- *fmcalc*: trees of three items of two coverages in two or three levels, arriving in two orders, with one
  or two layers, with policies that have different numbers of layers (one is filled with a no-op), and with
  stepped terms, and two of them behind a stream that carries no insured values; a row each for tiv and mean and two samples, the second sometimes empty, so that vectors are
  reused after a larger, a smaller and no loss; all four allocation rules, gross, and three of them net on
  reinsurance programmes (allocrule 1 writes the retained loss of a policy for each item, for which the
  documentation makes no promise). Besides, one item and each rule between six others below and five above, for what
  effective deductibles, over and under limits carry from rule to rule. The properties that quote an account
  (`RetainedIsRest`, `LimitsReapplied`) apply where the rules on the way keep it; the list is part of the property.
- *eve*: 0 to 5 events over 1 to 3 processes include remainders of 0, 1 and 2, and more
  processes than events.
- *leccalc, results*: one event occurs twice, in one period or in two, one never; two events share a period; samples
  have different numbers of losses, one summary has none; weights are even, uneven, zero and missing; the directory
  lists the files in either order and any subset of them has an index file.
- *model*: intensity bins of an areaperil in either order, areaperils without an item before, between and after
  those with one, an event that compresses beyond the buffer, files the validators refuse.
- *inputs*: each malformed directory differs from a sound one in one respect, so that no defect hides another. Sound ones
  include, for five rules, terms of -1 and less, which `add_tc` leaves out of what is loaded.

Every property of a passing run has a mutant in `PROJECT.json`: a change of one modelled
definition, of the kind a slip in the code would be, under which TLC finds the property
violated in the same run. The mutant operators stand next to the definitions they change, with the comment
"mutant".

`CHECK_DEADLOCK FALSE` is set where the programs end: eve, kat, summarycalc and getmodel stop, and so does the
calculation of one event in fmcalc and the preparation of a directory in Inputs. The
other specifications have an explicit action for the ended state.

**Fairness.** `SummaryCalc` and `KatSort` are single processes whose input is a file or a pipe that
ends: weak fairness of the next-state action says that the process is scheduled and
the upstream process keeps writing until it closes. `GulToFm` has weak fairness on each of
the two processes: neither waits for anything but its own input. No strong
fairness is used.

## 4. Findings

- `fm_layers`: with allocation rules 2 and 3 the proportions are those of layer 1
  (`fmcalc/fmcalc.cpp:246`). In a sample where layer 1 pays nothing they do not exist, and what
  the other layers pay is written for no item, although `docs/md/FinancialModule.md:205` says losses are allocated
  to items. `AllocationConserves` has this case, and the next one, as a precondition
  (`HasProportions`).

Observations made while modelling, which have no run of their own. The properties leave these cases out or state what
the code does.

*gulcalc.* The threshold `-L` is applied before back allocation makes losses smaller (`gulcalc/gulcalc.cpp:672`;
`docs/md/CoreComponents.md:122` speaks of the output). With `-c`, an allocation rule given by `-a` is silently not
applied (`gulcalc/main.cpp:169`; `CoreComponents.md:192`), and with `-j` as well the coverage stream has no sample
losses (`gulcalc/gulcalc.cpp:260`). The type of its input is not checked. The number of samples is -1 without `-S`
(`gulcalc/gulcalc.h:105`; the help says 0). The file of random numbers is wrapped once (`getrands.h:89`), so that
with more samples than numbers it is read past the end; without `-r` the size of the file is not initialised when
the primes are computed. A CDF that does not reach 1 has no loss for larger numbers. `bin_map_[x] =
bin_map_.size()` relies on an order of evaluation that C++11 leaves open. A group header of the double precision build
needs more spare room than is allocated (the TODO at `gulcalc/gulcalc.h:217`): it does not meet `RoomAssumption` below.

*fmcalc.* `fmcalcdoit.cpp:31` masks the program's own constant instead of the type it read: the number of a loss
stream is never checked. Streams are recognised by single bits, so that a summary stream (3) passes as a loss stream. `-M`
below the last level of the files does not fill missing layers. When every loss of level 1 is zero and a
maximum deductible restores one, allocation rules 2 and 3 allocate it to nobody (`fmcalc/fmcalc.cpp:227`). Losses exactly
at their limits look like losses without limits, and a maximum deductible raises them above
(`fmcalc/fmcalcrules.cpp:857`; `docs/md/fmprofiles.md:155` says they are not adjusted upwards). A maximum deductible together
with a deductible of the rule itself can make a loss negative where `docs/md/fmprofiles.md:282` clamps it. Rules 26, 35 and
36 skip their limit when the maximum deductible applies. Rules 8, 10, 11 and 13 do not add their `deductible_1` to
the effective deductible (`docs/md/fmprofiles.md:122` says all are additive). With `-n`, a layer filled with a no-op
subtracts the full loss.

*summarycalc.* `-x` returns without the last report (`summarycalc.cpp:497`), looks a coverage up a second time as if it were
an item, and ends silently on a stream that is not a gul stream. `-g` is the coverage stream in the code and the item
stream in `docs/md/CoreComponents.md:270`. A set option given twice leaves the index file of the first planned.

*leccalc, ordleccalc.* With weights, the tables of an ensemble use weights that are shared by all samples; the weighted
wheatsheaf mean is the sample mean (`aggreports.cpp:1099`; `docs/md/OutputComponents.md:125`). With no samples and a periods
file return periods are infinite. An empty index gives a report for summary -1. The header is lost when the events of the
first summary all lack an occurrence. The index path keeps losses of zero, the other drops them. The remaining length of an
incomplete write is carried to the next file (`aggreports.cpp:259`). leccalc and aalcalc write different
formats to the same `filelist.idx` and `summaries.idx` of a work folder.

*aalcalc, pltcalc, kat.* The deviation of aalcalc may be nan where `OutputComponents.md:299` gives a number (`aalcalc.cpp:442`); with a
single sample pltcalc writes nan and eltcalc 0. An event without an occurrence ends aalcalc when a file has no index. kat sorts
only what eve's default deal distributed (`kat/kat.cpp:105`), not the blocks of `eve -n`, which
`OutputComponents.md:316` does not exclude.

*Input files.* Converters return at a malformed line with success, leaving a shorter file; `fm_xref` and
`fm_profile_step` are not validated at all. validateoasisfiles does not check that item ids are contiguous (itemtobin does),
that each pair of level and node has a policy (`docs/md/DataConversionComponents.md:570`) and that a node has one parent
(line 462). crossvalidation requires five columns of the damage bins, validatedamagebin four, and a file
of one line makes it read an uninitialised value. Text printed without a header (`-s`) loses its first row when it is converted back.
An old `vulnerability.idx` next to a new `vulnerability.bin` without one is misread by getmodel, and a compressed footprint event
that exceeds 20 times its size ends it even when the index records the size.

## 5. Proofs

| Theorem | Module | Says |
|---|---|---|
| `TypeCorrect` | SummaryCalc_proofs | no index out of range, every variable typed; `IInv` is an invariant |
| `Exactness` | SummaryCalc_proofs | `ReportsAreExact` |
| `AtMostOnce` | SummaryCalc_proofs | `ReportedOnce` |
| `Completeness` | SummaryCalc_proofs | `NothingLost` |
| `IndexCorrect` | SummaryCalc_proofs | `IndexAddressesBlocks` |
| `Refinement` | SummaryCalc_proofs | `ImplementsLedger` |
| `TypeCorrect` | Eve_proofs | no process indexes the vector out of bounds; `IInv` is an invariant |
| `Disjoint` | Eve_proofs | `EmittedOnce` |
| `Covering` | Eve_proofs | `AllEmitted` |
| `NoOverrun` | GulToFm_proofs | `BufferBound` |
| `BlocksSeparated` | GulToFm_proofs | `BlocksClosed` |
| `TypeCorrect` | GulToFm_proofs | the offset is a size, the last header is one that was put |
| `ReaderInvariant` | FmEvents_proofs | the calculated events are those given up for another header; `IInv` is an invariant |
| `EveryEventOnce` | FmEvents_proofs | `CalculatedOnce` |
| `VectorsExact` | FmEvents_proofs | `VectorsAreExact` |
| `SeesWhatWasProduced` | GulToFm_proofs | `FmSeesGul` |
| `RowsKept` | KatSort_proofs | `AllRows` |
| `DealtInOrder` | KatSort_proofs | `DealtSorted` |
| `VectorsHold` | FmCalc_proofs | `VectorsHoldTheSample` |
| `RetainedIsTheRest` | FmCalc_proofs | `RetainedIsRest` |
| `BlocksStayWhole` | GulCalc_proofs | `BlocksAreWhole` |
| `LossesAreSampled` | GulCalc_proofs | `LossesSampled` |
| `CoveragesAreSums` | GulCalc_proofs | `CoverageIsItemSum` |
| `DatesComeBack` | Eve_proofs | a date converted to a day number and back is the same date |

They hold for every value of the constants that satisfies the named assumptions of each
module; for SummaryCalc these include the coverage stream (`CoverageStream`), several sets and zero output, of which the run
takes one choice.

**SummaryCalc** (`ParameterAssumption`: positive ids, sets 0..9, non-negative
losses). That a report is exact is not inductive: it follows from what the reused arrays hold *between*
reports. `ArraysInv` says that `sssl` is at each point the account of `last_event_id` alone, and that `sse` is
too, up to the exposure of the block whose header has been read and not yet
counted. `ControlInv` links the program counter, the statics and the stream position.
`BlocksInv` says of each block written that it is exact and its event is past, so that no
later record changes its account; `CompleteInv` that what is past and due has been
written. `IInv` is the conjunction of these with the type invariant. There is one lemma for each conjunct,
with one step for each action. The index needs no more than types and the way
offsets advance (`AppendAddresses`, `OffsetAdvances`).

That it refines the ledger needs no further invariant: `IInv` gives the guards of the ledger: the event of the block
being read is open (`OpenAccount`), the arrays of a flush are the account of a closed event whose block is not out yet
(`OutputRefines`), and at the end nothing due is missing (`FinishRefines`, from `CompleteInv`). There is one lemma for each kind of step;
a terminator, a block that is not due and the resumption of the record set aside change nothing the ledger knows. A loss is
credited when it *arrives*, also when `dosummary` sets it aside until the previous event is reported.

**Eve** (`BoundsAssumption`). The block limits need some arithmetic: `Division` and `StartFormula` give `StartPos`
as quotient times plus remainder, from which the blocks are disjoint
and cover the list (`Blocks`, `BlocksCover`); `Deal` does the same for the residues of the default mode.
For `-r` the invariant is about the histories: each process passes through the
sequence of vectors the draws determine (`TrailInv`), hence all through
the same (`SameTrail`), and a swap leaves the elements already passed alone. `Agreement` and
`Ownership` combine them.

**GulWriter** (first part of GulToFm_proofs; `WriterAssumption`; `RoomAssumption`: header + 2 records <= spare + 1 word). The buffer is tested before
the append, so the invariant `Bound` needs the room of one whole
call beyond a buffer one word short of full. With float losses a header and a record are one word and two are
spare: the assumption holds with equality. `Blocks` says that headers stand exactly at the
beginning and after terminators, and how the end of the stream relates to the block in
progress.

**FmEvents** (no assumption but `FileInit`: the blocks of an event follow each other (`Grouped`), a block has no sample twice and
opens its item before its losses (`Framed`), and the last block is not cut before that (`Entered`); `StreamsAdmitted` in
`MC_FmEvents` checks this of every stream `gultobin` makes of its texts). The code keeps one event id, so the invariant says what it stands
for: `LastRead`, that it is the event of the last header read and that every other event seen lies before it, and `Given`, that
the calculated events are the seen ones without it. That a header with another id is of an event never seen
(`HeaderRead`) is where the grouping is needed: with the same event in two places it would be calculated twice.
The matrix is exact through `Holds`, a statement about a matrix and the first n words of a stream: each item opened has one column, a
cell has the loss if it has been read and zero if not. `Matrix` says it of the matrix being filled, `Earlier` of those given to `dofm`,
for the *whole* part read since: no later word is of their events. The three things a word can do are the lemmas `Kept`, `NewColumn`
and `Filled`; the last needs `Current`, that `current_item_index` is the column of the block's item, which the code does not check.
`AllRead` then says that nothing of a calculated event is left to read. `Max` is a CHOOSE; that it is the greatest follows from
`LeastOf`, a least element of any set of naturals, which `WFMin` of the library gives without an induction.

**GulToFm** (`WriterAssumption`; the theorem is about runs with `ExposureFirst`: each block begins with the exposure, as with `-i` and `-a`) composes the two. `Core` says of
a stream that it is framed, in the order of the events (`Begins`), and has a record for each loss produced and no other (`Carries`); the three words
gulcalc can add keep it (`AddHeader`, `AddRecord`, `AddEnd`), because `WInv` knows the last block and the samples it has (`Ends`). fmcalc sees only
what has been written out: any beginning of such a stream is one that the reader's lemmas admit (`Readable`), and what
they say of the part read remains true when the pipe is filled (`StreamGrows`). The lemmas of FmEvents_proofs are used through an
INSTANCE with the pipe as the stream. That an event is calculated with *all* its losses, those still in gulcalc's buffer
included, is `AllRead` for `Stream` in place of `written`: a later event has begun, and events do not come back.

**KatSort** (`KatAssumption`: at least two files, positive first id). `AllRows` needs `Rows`: a row is printed, or its file
is still in the vector and not beyond it; and `Round`: no file is in the vector twice. `RemoveAt` and the iterator that
stays are in `Removed` and `Drop`. That dealt rows are sorted is the
argument of the comment `kat.cpp` does not have. The ids of a file are congruent modulo the number of files and the vector is in the
order of their residues (`Files`, `Turns`); one event is expected at each visit, so that between two visits of a file the
expected id grows by no more than the distance of the residues, and by less where a file between them has been erased. `Schedule`
says this of the file visited next, also at the turn of a round and just after an erasure; from it, a file passed over
because its head was ahead of the expected id has no id below one that is due now (`NotOvertaken`, `DueIsLeast`).

**FmCalc** (`PartsAssumption`; `CasesAssumption`: the programme is a tree in which every node has its policies, as `init_fmpolicytc` and
`parse_policytc` leave it, the items of an event are distinct, and behind a gul stream each has a coverage with an insured value). `IInv` says which row, level and layer the next call is for (`Counters`), that every
vector has a shape a call can clear (`Stored`: the records in use come first, those behind them never were), that the items hold the current row
(`HoldsRow`), and of every level and layer calculated for it that the vector holds what the reference `Folded` computes without vectors (`HoldsLayer`).
`VectorsHoldTheSample` alone is not inductive: what is left in a vector behind its nodes, and in the fields the property does not
look at, decides what the next call finds. One call has four steps, a lemma each: `Cleared`, whatever was left; `Aggregates`, after n
records of the level below every node has gathered the children among them, once each, whatever their order (`SumsUpTo`); `CarriedFilled`, the retained
losses of the layer before; `RuledVector`, the terms. The last needs that all 30 calculation rules and the six stepped ones depend on the
amounts of a record alone (`Alike`, one lemma for each rule), since proportions, shares and net losses do remain from call to call. The allocation that
follows changes those and no amount (`KeepsAll`, through `LevelProportions` for any number of levels). `AvxsIs` and `PolicyFacts` give the nodes of every level and
their policies, among them those `parse_policytc` adds on the last level.

`RetainedIsRest` relates the layers of a policy to the items many levels below. Since the vectors hold what `Folded` computes, it is a statement about
`Folded` alone, and needs no further invariant. `Accounts` is the account one rule keeps: on layer 1 it divides what the record had into loss and
retained loss; on the others it takes the loss from what the layer before retained. `Retained` keeps it (`RetainedAccounts`), what a rule does before
does not touch it, and there is a lemma for each rule of the list, one for a policy of several steps (`SteppedAccounts`), and one for the rules 12 and 100, which pass losses on and
keep it on layer 1 only: hence the two parts of `KeepsAccount`. Adding up the records of a node adds their accounts, and the items below a node are those
below its children, one after the other (`GroundOf`); by induction over the levels a node's loss and retained loss are its ground up loss. Over the layers of the
last level the losses then leave `ground - taken` (`LayersRetain`, `RestSums`). A policy of steps passes over the rules `applycalcrule_stepped` does not know, so that only 2, 14 and 34
count there.

**GulCalc** (`GulAssumption`: ids and event numbers are positive, the columns of the items file are functions of the item, a CDF has at least one
bin and no negative damage, the threshold is positive, and mode 1 comes with an allocation rule and without coverage output, as `main.cpp` sees to). The three properties speak of events that are over; what makes them inductive is what is held of the one that is
not. `IInv` has four parts. `Shape`: the CDFs read are of the events and keys, each event's stand together, and its numbers are drawn with the first. `Streamed`: the item
streams have exactly the records wanted of the events written, in whole blocks (`StreamIs`), with the losses sampled in mode 0. `Summed`: the coverage stream has
those of the finished events (`CovIs`), and `cov_` the sums of the current event by sample, of the items that met a CDF so far, and nothing for a coverage without one
(`SumsIs`). `Held`: in mode 1 `mode1_stats_` has each item of the current event that met a CDF once, under its coverage, and `mode1UsedCoverageIDs_` those coverages
once (`HeldIs`). The last two are what `clearmode1_data` and the reset of the sums must leave true; an event that comes after another begins with nothing held
(`SumsNone`, `HeldNone`).

A stream is known by the keys of its records, event, id and sample, each borne once (`Bears`), and by its blocks being uninterrupted (`Together`); the pieces that
`FlattenSeq` joins bear the union of what they bear if no key is in two of them (`BearsPieces`), and in what order they come
matters only to `Together`. In mode 1 a sample's row loses the items below the threshold (`SomeOfRow`), is allocated, which changes no item (`MaxLossIs`, `SplitIs`, `AllottedIs`),
and the rows of all samples, rising (`PiecesRise`), are sorted back item by item: since the exposure leads every item's records, the blocks are whole (`ItemByItemIs`). In mode 0
a block is complete at once (`ItemRowsAre`). Both write the same keys (`WantedMore`, `EventKeysAre`), which is why one property speaks of both. One turn of the read loop is the
hypothesis `Turned`, with a lemma for each part of the invariant and mode. The sum of a coverage grows by the items of each CDF (`CovLossGrows`), sums over disjoint sets
of items (`SumBoth`), and the item stream has the same losses below (`CovSumIs`). Arithmetic is integer division throughout, exactly as in the model.

**Folding** has what recursive functions, `FoldLeft` and `FoldSet` compute, for an operator that is a CONSTANT of the module: FmCalc_proofs
instantiates it once for each of its folds. The induction theorems of the library take the property as an operator, which no prover here can instantiate; `Induction` and
`SetInduction` take it as a set, and follow from the least element of a set of naturals (`LeastOf`), the latter by the size of a finite set. The folds of the
community modules choose an element of the rest at each step: `AnyLast` shows that for an operator that commutes any order gives the same, which makes a sum a sum
(`OverSetInsert`, `SumInsert`).

**Occurrence** (last part of Eve_proofs, no assumption). `g` numbers the days by years that end with February, so that a leap day comes last; `d` guesses
the year by a division (`Guess`: the year or the next), corrects it, and finds the month by another (`MonthFound`). `Centuries` takes a
year apart by 400, 100 and 4 years, which makes its days linear. It holds from the year 1 on, for integers of any size;
an `int` of the code holds the day numbers up to about the year 5.8 million.

**Only model-checked**: the liveness properties (`Terminates`, `Ends`, `EventuallyCalculated`), since fairness is out of TLAPS's reach here; of FmCalc
what is allocated and how the accounts of the rules relate (`AllocationConserves`, `NetIsRemainder`, `PaymentsBounded`), which are about
fractions and about limits reapplied along rules in sequence; of GulCalc that an allocation is exact (`AllocationBounded`), which holds for exposures that the
losses divide, as those of the run do, and with integer division up to one unit for each item only; all of LecCalc, Results, GetModel and Inputs.

## 6. Not modelled, and the plan

Not modelled for good: floating point arithmetic as such, number formatting, incomplete writes of the C library
and the loops that retry them (`eltcalc.cpp:103`, `pltcalc.cpp:144`, `aalcalc.cpp:371`, `aggreports.cpp:239`), the benchmark and debug
outputs, functions that are never called, `aalcalctocsv`, plain concatenation in kat, vendored code, shell scripts that set up pipes.

Left out so far: the loop of summarycalc `-x`; fmcalc `-O`, `-d` and layers below the last level (the input has `layer_id = 1`
there, `docs/md/DataConversionComponents.md:571`); what the coverage stream of gulcalc `-c` should hold with `-j`, where the code
sums no samples (the theorems about the item streams cover that command line).

What is left, most important first:

1. Proofs: that `LimitsReapplied` bounds what a policy pays, from the limits of each rule as `Accounts` follows from their divisions; that an
   allocation divides what is allocated (`AllocationConserves`), for which the fractions need a theory of their own; that `GetModel` clears the intensities between areaperils.
2. The accumulation of `LecCalc` does not depend on the order of the blocks: a lemma about `Raise`, and from it the agreement of the
   two ways of reading.
