---------------------------- MODULE MCVisMFWrite ----------------------------
(***************************************************************************)
(* Instances of VisMFWrite: every rank has data, the ranks of both ends    *)
(* have, or a rank in the middle has, which makes the write sparse.        *)
(***************************************************************************)
EXTENDS VisMFWrite

MCLayouts == {Ranks, {0, NProcs - 1}, {1}}
=============================================================================
