--------------------------- MODULE MCSettlement ---------------------------
(***************************************************************************)
(* Instances of Settlement for TLC.  Requests are interchangeable, and so  *)
(* are the ids Razorpay gives to links.                                    *)
(***************************************************************************)
EXTENDS Settlement, TLC

Symmetry == Permutations(Requests) \cup Permutations(Links)
===========================================================================
