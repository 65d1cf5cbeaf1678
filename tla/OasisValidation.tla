--------------------------- MODULE OasisValidation ---------------------------
(***************************************************************************)
(* validateoasisfiles: the checks across the csv files of the exposures    *)
(* and of the financial module.  csv is a function from file names to      *)
(* lines; a file that is not in its domain cannot be opened.               *)
(***************************************************************************)
EXTENDS Integers, Sequences, SequencesExt, FiniteSets

Body(csv, name) == Tail(csv[name])
Rows(csv, name, columns) == SelectSeq(Body(csv, name), LAMBDA l : Len(l) >= columns)
Parses(csv, name, columns) ==
    name \in DOMAIN csv /\ \A n \in DOMAIN Body(csv, name) : Len(Body(csv, name)[n]) >= columns

------------------------------------------------------------------------------
(* fm_programme.csv: lines <<from_agg_id, level_id, to_agg_id>> *)

Programme(csv) == Rows(csv, "fm_programme", 3)
\* The from_agg_ids of level 1, with repetitions.
fromaggIDs(csv) ==
    LET first == SelectSeq(Programme(csv), LAMBDA l : l[2] = 1)
    IN  [n \in DOMAIN first |-> first[n][1]]
level_fromaggIDPairs(csv) == {<<l[2] - 1, l[1]>> : l \in {k \in ToSet(Programme(csv)) : k[2] # 1}}
level_toaggIDPairs(csv) == {<<l[2], l[3]>> : l \in ToSet(Programme(csv))}

\* mutant: any level is as good as the one before
ReadFMProgrammeFileAnyLevel(csv) ==
    /\ Parses(csv, "fm_programme", 3)
    /\ {p[2] : p \in level_fromaggIDPairs(csv)} \subseteq {p[2] : p \in level_toaggIDPairs(csv)}

ReadFMProgrammeFile(csv) ==
    /\ Parses(csv, "fm_programme", 3)
    /\ level_fromaggIDPairs(csv) \subseteq level_toaggIDPairs(csv)

------------------------------------------------------------------------------
(* coverages.csv, lines <<coverage_id, tiv>>, and items.csv *)

ReadCoveragesFile(csv) == Parses(csv, "coverages", 2)
coverageIDs(csv) == {l[1] : l \in ToSet(Rows(csv, "coverages", 2))}

\* Every item takes one from_agg_id of its own out of the list; in the end
\* none may be left.
WithoutFirst(ids, id) ==
    LET at == {n \in DOMAIN ids : ids[n] = id}
    IN  RemoveAt(ids, CHOOSE n \in at : \A m \in at : n <= m)
Unmatched(csv, ids) ==
    LET Taken(a, l) == IF l[1] \in ToSet(a.left) THEN [a EXCEPT !.left = WithoutFirst(@, l[1])]
                       ELSE [a EXCEPT !.ok = FALSE]
    IN  FoldLeft(Taken, [ok |-> TRUE, left |-> ids], Rows(csv, "items", 5))

ReadItemsFile(csv, gulOnly) ==
    /\ Parses(csv, "items", 5)
    /\ \A l \in ToSet(Body(csv, "items")) : l[2] \in coverageIDs(csv)
    /\ gulOnly \/ Unmatched(csv, fromaggIDs(csv)) = [ok |-> TRUE, left |-> <<>>]

------------------------------------------------------------------------------
(* fm_profile.csv and fm_policytc.csv, <<layer_id, level_id, agg_id, profile_id>> *)

ReadFMProfileFile(csv) == Parses(csv, "fm_profile", 10)
policytcIDs(csv) == {l[1] : l \in ToSet(Rows(csv, "fm_profile", 10))}

ReadFMPolicyTCFile(csv) ==
    /\ Parses(csv, "fm_policytc", 4)
    /\ \A l \in ToSet(Body(csv, "fm_policytc")) :
          <<l[2], l[3]>> \in level_toaggIDPairs(csv) /\ l[4] \in policytcIDs(csv)

------------------------------------------------------------------------------
\* Without a programme the files of the financial module are taken not to
\* exist.
GulOnly(csv, g) == g \/ "fm_programme" \notin DOMAIN csv

validateoasisfiles(csv, g) ==
    LET gulOnly == GulOnly(csv, g)
    IN  /\ gulOnly \/ ReadFMProgrammeFile(csv)
        /\ ReadCoveragesFile(csv)
        /\ ReadItemsFile(csv, gulOnly)
        /\ gulOnly \/ (ReadFMProfileFile(csv) /\ ReadFMPolicyTCFile(csv))
==============================================================================
