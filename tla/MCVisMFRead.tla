----------------------------- MODULE MCVisMFRead -----------------------------
(***************************************************************************)
(* Instances of VisMFRead: one file that all ranks read, two files in      *)
(* which a rank has several fabs, and more files than ranks.               *)
(***************************************************************************)
EXTENDS VisMFRead

MCFilesOf == {<<1, 1, 1, 1, 1>>, <<1, 2, 1, 1, 2>>, <<1, 1, 2, 2, 3>>, <<1, 2, 3, 4, 4>>}
=============================================================================
