----------------------------- MODULE MC_LecCalc ------------------------------
(***************************************************************************)
(* Two files with the blocks of two summaries and three events, the third  *)
(* of which has no occurrence; an event may occur in two periods and two   *)
(* events in one period.                                                   *)
(***************************************************************************)
EXTENDS LecCalc

Rec(x, l) == [sidx |-> x, loss |-> l]
Small == <<Rec(-1, 2), Rec(1, 3)>>
Large == <<Rec(-1, 3), Rec(1, 2), Rec(2, 6)>>
Nothing == <<Rec(-1, 0), Rec(1, 0), Rec(2, 0)>>

B(e, i, recs) == [event |-> e, summary |-> i, recs |-> recs]
Occ(e, p) == [event |-> e, period |-> p]

FilesOf(r1, r2, r3) ==
    {("a" :> <<B(1, 2, r1), B(1, 1, r2)>>) @@ ("b" :> <<B(2, 2, r3), B(2, 1, r1)>>),
     ("a" :> <<B(3, 1, r1), B(2, 1, r2), B(3, 3, r3)>>) @@ ("b" :> <<B(1, 2, r2), B(1, 1, r3)>>)}
Occurrences == {<<Occ(1, 1), Occ(2, 1), Occ(2, 3)>>, <<Occ(2, 2), Occ(1, 3), Occ(2, 2)>>}

MCInputs == [files : UNION {FilesOf(r1, r2, r3) : r1 \in {Small, Large}, r2 \in {Large},
                                                  r3 \in {Small, Nothing}},
             occurrence : Occurrences]

Asked == <<10, 6, 3, 2, 1, 0>>
AllTables == EPType \X Curves
Base == [periods |-> 3, samples |-> 2, weight |-> <<>>, r |-> FALSE, rps |-> Asked, ensemble |-> <<>>,
         ord |-> TRUE, outputs |-> AllTables,
         opened |-> {"EPT", "PSEPT"}, skip |-> FALSE]
Legacy(o) == [o EXCEPT !.ord = FALSE]
Uneven == (1 :> <<1, 2>>) @@ (2 :> <<1, 8>>) @@ (3 :> <<1, 4>>)
Partly == (1 :> <<0, 1>>) @@ (3 :> <<1, 3>>)
MCOptions ==
    {Base, [Base EXCEPT !.r = TRUE], [Base EXCEPT !.r = TRUE, !.rps = <<>>],
     [Base EXCEPT !.outputs = {<<"AEP", "wheatsheaf">>}, !.opened = {"PSEPT"}],
     [Base EXCEPT !.outputs = {<<"OEP", "sampleMean">>}, !.opened = {"PSEPT"}],
     Legacy([Base EXCEPT !.ensemble = (1 :> {2}) @@ (2 :> {1})]),
     [Base EXCEPT !.weight = Uneven], [Base EXCEPT !.weight = Partly, !.r = TRUE],
     Legacy([Base EXCEPT !.weight = Uneven, !.r = TRUE, !.rps = <<8, 5, 3, 1>>, !.skip = TRUE])}

==============================================================================
