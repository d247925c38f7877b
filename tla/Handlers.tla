------------------------------ MODULE Handlers ------------------------------
(***************************************************************************)
(* What the handlers of the HR and back-office modules have in common.     *)
(* A handler reads a document, computes, and writes after an await.  Two   *)
(* kinds of write occur: doc.save(), which sets the fields that differ     *)
(* from what was read and leaves the others as they have become, and       *)
(* findOneAndUpdate or updateOne, which set the fields they name.          *)
(***************************************************************************)
EXTENDS Naturals, FiniteSets

CONSTANTS
  Requests,   \* requests in flight at one time
  None

ASSUME HandlersAssumption == None \notin Requests

\* What save() makes of the field that now is cur, when it was read as old and
\* assigned new.
Saved(cur, old, new) == IF new = old THEN cur ELSE new

\* The same for a set-valued abstraction whose members are fields of their own.
SavedSet(cur, old, new) == (cur \ (old \ new)) \cup (new \ old)
=============================================================================
