----------------------------- MODULE MCIssuing -----------------------------
(***************************************************************************)
(* Instances of Issuing for TLC.                                           *)
(***************************************************************************)
EXTENDS Issuing
===========================================================================
