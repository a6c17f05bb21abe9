---------------------------- MODULE MCAsyncWrite ----------------------------
(***************************************************************************)
(* Instances of AsyncWrite: writes in which every rank has data, in which  *)
(* the first rank has none, and in which the second has none.              *)
(***************************************************************************)
EXTENDS AsyncWrite

MCFiles == 1..NProcs
MCLayouts == {Ranks, Ranks \ {0}, Ranks \ {1}}
=============================================================================
