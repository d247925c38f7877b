---------------------------- MODULE MCFemaSweep ----------------------------
(***************************************************************************)
(* Instances of FemaSweep for TLC.                                         *)
(***************************************************************************)
EXTENDS FemaSweep
===========================================================================
