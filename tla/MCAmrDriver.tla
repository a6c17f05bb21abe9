---------------------------- MODULE MCAmrDriver ----------------------------
(***************************************************************************)
(* Instances of AmrDriver for TLC.                                         *)
(***************************************************************************)
EXTENDS AmrDriver, TLC

\* Three levels, refined twice in time, regridded every two steps of level 0
\* and every three of level 1.
MCRegridInt == (0 :> 2) @@ (1 :> 3) @@ (2 :> 1)
MCInputs == {[maxl |-> 2, ncyc |-> (0 :> 1) @@ (1 :> 2) @@ (2 :> 2)]}

=============================================================================
