------------------------------ MODULE MCMioH1 -------------------------------
(* MioH1 as it is: all its constants are given values in the .cfg files.   *)
EXTENDS MioH1
=============================================================================
