--------------------------- MODULE MC_SummaryCalc ---------------------------
(* Instances of SummaryCalc for TLC.                                        *)
EXTENDS SummaryCalc

\* Exposure 0 or 2, one loss value otherwise: zero exposures (whose blocks are
\* skipped unless -z is given) and blocks with and without samples all occur.
MCLossAt == [k \in Sidx |-> CASE k = tiv_idx -> {0, 2}
                              [] k = std_dev_idx -> {1}
                              [] k = mean_idx -> {1}
                              [] OTHER -> {1}]
MCTiv == [o \in Output |-> o]
=============================================================================
