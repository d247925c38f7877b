------------------------------ MODULE Contracts ------------------------------
(***************************************************************************)
(* The life of an agreement after its signature: renewal and expiry dates, *)
(* the obligations, and the sweep that reminds the signer 30, 7 and 1 days *)
(* ahead.  One agreement is modelled, since the sweep saves each on its    *)
(* own.  A date is kept as the days left, up to what the thresholds tell   *)
(* apart; a date that is not set is never due, like one that has passed.   *)
(*                                                                         *)
(* The document has no version key, so no save is refused.  A save writes  *)
(* the paths that were changed: a member of an array by the position that  *)
(* was read, a removal by the member's id, an addition to the end.         *)
(*                                                                         *)
(* Widest is a fault that no action uses.                                  *)
(***************************************************************************)
EXTENDS Handlers, Sequences

CONSTANTS
  Obligations,     \* obligations that may be added
  MaxContractCalls \* bound: requests that are begun

ASSUME ContractsAssumption == None \notin Obligations /\ MaxContractCalls \in Nat

VARIABLES
  left,      \* days left to each date
  sent,      \* lifecycleRemindersSent
  duties,    \* the obligations; of is None for a member without a title
  work,      \* requests in flight
  workCalls, \* requests begun so far
  mailed,    \* history: mails for each key since the dates were last set
  swept,     \* history: keys that were due to a finished sweep since then
  workStale, \* history: requests that know of reminders or dates less than was done
  workRaced, \* history: one of them has mailed or saved
  mailLost   \* history: a sweep died with mails it had not saved

workHistory == <<mailed, swept, workStale, workRaced, mailLost>>
contractVars == <<left, sent, duties, work, workCalls, workHistory>>

Kinds == {"renewal", "expiry"}
Thresholds == {1, 7, 30}
Past == 0 - 1
DaysLeft == {31, Past} \cup Thresholds
Keys == Kinds \X Thresholds

WorkRequest == [pc    : {"idle", "mail", "reminders", "dates", "toggle"},
                todo  : SUBSET Keys,     \* due and not yet mailed
                new   : SUBSET Keys,     \* mailed and to be pushed
                due   : SUBSET Keys,     \* history: what the dates it read make due
                resets: BOOLEAN,         \* there were reminders to forget
                kind  : Kinds,
                to    : DaysLeft \cup {None}, \* None when the date is left as it was read
                at    : Nat, \* the position that was read
                done  : BOOLEAN]
AtRest == [pc |-> "idle", todo |-> {}, new |-> {}, due |-> {}, resets |-> FALSE,
           kind |-> "renewal", to |-> Past, at |-> 1, done |-> FALSE]

ContractsTypeOK ==
  /\ left \in [Kinds -> DaysLeft]
  /\ sent \subseteq Keys
  /\ duties \in Seq([of : Obligations \cup {None}, done : BOOLEAN])
  /\ work \in [Requests -> WorkRequest]
  /\ workCalls \in 0..MaxContractCalls
  /\ mailed \in [Keys -> 0..2] /\ swept \subseteq Keys
  /\ workStale \subseteq Requests /\ workRaced \in BOOLEAN /\ mailLost \in BOOLEAN

ContractsInit ==
  /\ left = [k \in Kinds |-> Past]
  /\ sent = {}
  /\ duties = <<>>
  /\ work = [r \in Requests |-> AtRest]
  /\ workCalls = 0
  /\ mailed = [key \in Keys |-> 0] /\ swept = {}
  /\ workStale = {} /\ workRaced = FALSE /\ mailLost = FALSE

Works(r, q) ==
  /\ work[r].pc = "idle"
  /\ workCalls < MaxContractCalls
  /\ workCalls' = workCalls + 1
  /\ work' = [work EXCEPT ![r] = q]
  /\ workStale' = IF q.pc # "toggle" /\ \E o \in Requests : work[o].new # {}
                  THEN workStale \cup {r} ELSE workStale
  /\ UNCHANGED <<left, sent, duties, mailed, swept, workRaced, mailLost>>

Busy == {r \in Requests : work[r].pc # "idle"}
Involved == {r \in Busy : work[r].pc # "toggle"}

Ends(r) == work' = [work EXCEPT ![r] = AtRest]

ReachesOthers(r) ==
  /\ workStale' = (workStale \cup Involved) \ {r}
  /\ workRaced' = (workRaced \/ r \in workStale)

DayPasses(k) ==
  /\ left[k] # Past
  /\ left' = [left EXCEPT ![k] = CASE @ = 31 -> 30 [] @ = 30 -> 7 [] @ = 7 -> 1 [] @ = 1 -> Past]
  /\ UNCHANGED <<sent, duties, work, workCalls, workHistory>>

(***************************************************************************)
(* Dates.                                                                  *)
(***************************************************************************)

\* One of the dates may be given a new value; the reminders are forgotten for both.
\* An empty array assigned to an empty one is no change, and is not saved.
SetLifecycle(r, k, days) ==
  /\ days = left[k] => days = Past
  /\ Works(r, [AtRest EXCEPT !.pc = "dates", !.kind = k, !.to = days, !.resets = sent # {}])

DatesAfter(q) == IF q.to = None THEN left ELSE [left EXCEPT ![q.kind] = q.to]
RemindersAfter(q) == IF q.resets THEN {} ELSE sent

SaveLifecycle(r) ==
  LET q == work[r] IN
  /\ q.pc = "dates"
  /\ left' = DatesAfter(q)
  /\ sent' = RemindersAfter(q)
  /\ Ends(r)
  /\ mailed' = [key \in Keys |-> 0] /\ swept' = {}
  /\ ReachesOthers(r)
  /\ UNCHANGED <<duties, workCalls, mailLost>>

(***************************************************************************)
(* The sweep.                                                              *)
(***************************************************************************)
Crossed(days) == {t \in Thresholds : days <= t /\ days >= 0}

Widest(days) == {t \in Crossed(days) : \A u \in Crossed(days) : u <= t}
\* The smallest threshold that has been crossed, if any.
Threshold(days) == {t \in Crossed(days) : \A u \in Crossed(days) : t <= u}

RunLifecycleReminders(r) ==
  Works(r, [AtRest EXCEPT !.pc = "mail",
              !.todo = {key \in Keys : key[2] \in Threshold(left[key[1]])} \ sent,
              !.due  = {key \in Keys : key[2] = left[key[1]]}])

\* A mail that cannot be sent counts as sent.  The renewal comes first.
MailReminder(r, key) ==
  LET q == work[r] IN
  /\ q.pc = "mail" /\ key \in q.todo
  /\ key[1] = "expiry" => \A other \in q.todo : other[1] = "expiry"
  /\ work' = [work EXCEPT ![r] = [q EXCEPT !.todo = q.todo \ {key}, !.new = q.new \cup {key}]]
  /\ mailed' = [mailed EXCEPT ![key] = IF @ = 2 THEN 2 ELSE @ + 1]
  /\ ReachesOthers(r)
  /\ UNCHANGED <<left, sent, duties, workCalls, swept, mailLost>>

\* One save for the agreement, which pushes the keys.
SaveReminders(r) ==
  LET q == work[r] IN
  /\ q.pc = "mail" /\ q.todo = {}
  /\ sent' = sent \cup q.new
  /\ Ends(r)
  /\ swept' = IF r \in workStale THEN swept ELSE swept \cup q.due
  /\ IF q.new = {} THEN workStale' = workStale \ {r} /\ workRaced' = workRaced ELSE ReachesOthers(r)
  /\ UNCHANGED <<left, duties, workCalls, mailed, mailLost>>

(***************************************************************************)
(* Obligations.                                                            *)
(***************************************************************************)
Held(o) == {i \in DOMAIN duties : duties[i].of = o}

\* A validation that fails on a member without a title changes nothing.
AddObligation(o) ==
  /\ Held(o) = {}
  /\ duties' = Append(duties, [of |-> o, done |-> FALSE])
  /\ UNCHANGED <<left, sent, work, workCalls, workHistory>>

\* By the member's id, wherever it stands by now.
RemoveObligation(o) ==
  /\ \E i \in Held(o) : duties' = SubSeq(duties, 1, i - 1) \o SubSeq(duties, i + 1, Len(duties))
  /\ UNCHANGED <<left, sent, work, workCalls, workHistory>>

ToggleObligation(r, o) ==
  \E i \in Held(o) :
    Works(r, [AtRest EXCEPT !.pc = "toggle", !.at = i, !.done = ~duties[i].done])

\* The member that has the position by now is set, or one is made there.
SetDone(i, done) ==
  [j \in 1..(IF i > Len(duties) THEN i ELSE Len(duties)) |->
     [of |-> IF j <= Len(duties) THEN duties[j].of ELSE None,
      done |-> IF j = i THEN done ELSE j <= Len(duties) /\ duties[j].done]]

SaveObligation(r) ==
  /\ work[r].pc = "toggle"
  /\ duties' = SetDone(work[r].at, work[r].done)
  /\ Ends(r)
  /\ UNCHANGED <<left, sent, workCalls, workHistory>>

WorkDies(r) ==
  /\ r \in Busy
  /\ mailLost' = (mailLost \/ work[r].new # {})
  /\ Ends(r)
  /\ workStale' = workStale \ {r}
  /\ UNCHANGED <<left, sent, duties, workCalls, mailed, swept, workRaced>>

ContractsNext ==
  \/ \E k \in Kinds : DayPasses(k)
  \/ \E o \in Obligations : AddObligation(o) \/ RemoveObligation(o)
  \/ \E r \in Requests :
       \/ \E k \in Kinds, days \in DaysLeft \cup {None} : SetLifecycle(r, k, days)
       \/ SaveLifecycle(r)
       \/ RunLifecycleReminders(r)
       \/ \E key \in Keys : MailReminder(r, key)
       \/ SaveReminders(r)
       \/ \E o \in Obligations : ToggleObligation(r, o)
       \/ SaveObligation(r)
       \/ WorkDies(r)

ContractsSpec == ContractsInit /\ [][ContractsNext]_contractVars
---------------------------------------------------------------------------
(***************************************************************************)
(* Property.                                                               *)
(***************************************************************************)

\* agreements.service.ts 386-413: while the dates stand, each threshold that a
\* finished sweep met has been mailed, once, and is remembered; nothing else is.
\* Excepted are sweeps that overlap each other or a change of the dates, and a
\* death between a mail and the one save that follows all the mails.
RemindedOnce ==
  ~workRaced /\ ~mailLost =>
    /\ \A key \in Keys : mailed[key] <= 1
    /\ \A key \in swept : mailed[key] = 1
    /\ (\A r \in Requests : work[r].pc # "mail") => sent = {key \in Keys : mailed[key] = 1}
===========================================================================
