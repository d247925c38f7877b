--------------------------- MODULE SeriesLedger ---------------------------
(***************************************************************************)
(* What a document series promises, whatever the way numbers are made: a   *)
(* document is given a number once, the least number nobody in its series  *)
(* has had, and keeps it; the document is then issued, or its number is    *)
(* void for ever.                                                          *)
(***************************************************************************)
EXTENDS Naturals

CONSTANTS Docs, Series, None

VARIABLES
  home,   \* the series of a document, None before it has a number
  num,    \* its number there
  issued, \* the documents that exist
  void    \* the documents that never will

ledger == <<home, num, issued, void>>

Taken(s) == {num[d] : d \in {e \in Docs : home[e] = s}}

LInit ==
  /\ home = [d \in Docs |-> None]
  /\ num = [d \in Docs |-> 0]
  /\ issued = {}
  /\ void = {}

Reserve(d, s, n) ==
  /\ home[d] = None
  /\ n \notin Taken(s)
  /\ \A m \in 1..(n - 1) : m \in Taken(s)
  /\ home' = [home EXCEPT ![d] = s]
  /\ num' = [num EXCEPT ![d] = n]
  /\ UNCHANGED <<issued, void>>

Pending(d) == home[d] # None /\ d \notin issued \cup void

Issue(d) ==
  /\ Pending(d)
  /\ issued' = issued \cup {d}
  /\ UNCHANGED <<home, num, void>>

Void(d) ==
  /\ Pending(d)
  /\ void' = void \cup {d}
  /\ UNCHANGED <<home, num, issued>>

LNext ==
  \E d \in Docs :
    \/ \E s \in Series : \E n \in {1} \cup {m + 1 : m \in Taken(s)} : Reserve(d, s, n)
    \/ Issue(d)
    \/ Void(d)

LSpec == LInit /\ [][LNext]_ledger
===========================================================================
