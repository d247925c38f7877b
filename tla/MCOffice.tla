------------------------------ MODULE MCOffice ------------------------------
(***************************************************************************)
(* An instance of Office for TLC.  The lines that are billed have a tax    *)
(* that is odd, one that is rounded up, and one with no rate given.        *)
(***************************************************************************)
EXTENDS Office, TLC

Item(cents, rate) == [cents |-> cents, gstRate |-> rate]
MCLineItems == {<<Item(10, 5), Item(30, 5)>>, <<Item(105, 18), Item(33, None)>>}

Symmetry == Permutations(Requests) \cup Permutations(Bills)
===========================================================================
