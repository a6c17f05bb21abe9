-------------------------- MODULE MCAmrCheckpoint --------------------------
(***************************************************************************)
(* Instances of AmrCheckpoint for TLC.                                     *)
(***************************************************************************)
EXTENDS AmrCheckpoint, TLC

MCRegridInt == (0 :> 2) @@ (1 :> 3) @@ (2 :> 1)
Factor2 == (0 :> 1) @@ (1 :> 2) @@ (2 :> 2)
Factor4 == (0 :> 1) @@ (1 :> 4) @@ (2 :> 2)

\* A restart may raise or lower max_level, or change n_cycle.
MCInputs ==
    {[maxl |-> m, ncyc |-> Factor2] : m \in {1, 2}} \cup {[maxl |-> 1, ncyc |-> Factor4]}
=============================================================================
