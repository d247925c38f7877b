------------------------------ MODULE MCESign ------------------------------
(***************************************************************************)
(* Instances of ESign for TLC.  Requests are interchangeable, and so are   *)
(* the links that are drawn.                                               *)
(***************************************************************************)
EXTENDS ESign, TLC

Symmetry == Permutations(Requests) \cup Permutations(Tokens)
===========================================================================
