---------------------------- MODULE MCSourceSync ----------------------------
(* Two sources, two synchronizations with the keys of both or of one.      *)
EXTENDS SourceSync, TLC

CONSTANTS p1, p2

All == <<"kstartup", "bizinfo">>

MCSelections == {All}

MCKeySets == {{"kstartup", "bizinfo"}, {"bizinfo"}}

Symmetry == Permutations(Syncs)
=============================================================================
