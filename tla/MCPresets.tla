----------------------------- MODULE MCPresets -----------------------------
(* Four names.  A path cannot hold one of them as it is, so that two share *)
(* a file; two differ only in case, and compare equal.                     *)
EXTENDS PdPresets, TLC

MCNames == {"a", "A", "c/", "c_"}
MCGiven == MCNames \ {"c_"}          \* two names with the same stem share a file
MCStem  == [name \in MCNames |-> IF name = "c/" THEN "c_" ELSE name]
MCRank  == "a" :> 1 @@ "A" :> 1 @@ "c/" :> 2 @@ "c_" :> 3
MCFiles == {<<"user", "a">>, <<"shared", "A">>}
ASSUME OwnFiles
Symmetry == Permutations(Objects)
=============================================================================
