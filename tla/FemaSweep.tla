----------------------------- MODULE FemaSweep -----------------------------
(***************************************************************************)
(* The FEMA reminders of export invoices.                                  *)
(*                                                                         *)
(* FemaReminderService.sweep reads every unpaid export at once and then    *)
(* walks through the documents it has read: it marks those past their      *)
(* realisation date overdue, mails the highest reminder that is due and    *)
(* not in the document's femaRemindersSent, and only then adds the keys    *)
(* that were due, one update each, lowest first.  The BullMQ worker sweeps *)
(* every morning and again when a sweep has thrown; an owner may run one   *)
(* with POST /reminders/fema/run at any time.  Nothing keeps two sweeps    *)
(* apart, and meanwhile invoices get older, paid or edited.                *)
(*                                                                         *)
(* A reminder is a number, 1 for '9m' up to Top for 'overdue', and the age *)
(* of an invoice the number of reminders whose month it has reached; the   *)
(* date of 'overdue', 12 months, is the realisation date.                  *)
(*                                                                         *)
(* The definitions before Status, Unpaid, Due and Highest are faulty       *)
(* variants that no action uses: they show which property notices.         *)
(***************************************************************************)
EXTENDS Naturals, FiniteSets

CONSTANTS
  Invoices,    \* exports with a femaDueDate
  Reachable,   \* those whose organisation has an owner with an email
  Sweepers,    \* sweeps that may run at one time
  Cron,        \* the one that is the worker's
  Top,         \* number of REMINDER_THRESHOLDS: 4
  None,
  MaxFailures  \* bound: sweeps that may throw or die

Keys == 1..Top

ASSUME FemaAssumption ==
  /\ Reachable \subseteq Invoices
  /\ Cron \in Sweepers
  /\ Top \in Nat \ {0}
  /\ None \notin Invoices \cup {"open", "overdue", "paid"}
  /\ MaxFailures \in Nat

VARIABLES
  age,      \* reminders whose month an invoice has reached
  status,   \* invoices.status, draft and sent being both "open"
  sent,     \* invoices.femaRemindersSent
  sweep,    \* the sweeps in progress
  edit,     \* the status an edit of an invoice is about to write
  failures, \* sweeps that threw or died
  mailed,   \* history: reminders put on the email queue
  repeated, \* history: reminders put there more than once
  overlap   \* history: two sweeps have run at the same time

history == <<mailed, repeated, overlap>>
vars    == <<age, status, sent, sweep, edit, failures, history>>

StatusWithoutOverdue == {"open", "paid"}
Status == {"open", "overdue", "paid"}

Sweep == [pc    : {"idle", "scan", "mail", "push"},
          todo  : SUBSET Invoices,           \* documents still to be looked at
          keys  : [Invoices -> SUBSET Keys], \* their femaRemindersSent, as read
          late  : SUBSET Invoices,           \* those read as overdue
          now   : [Invoices -> 0..Top],      \* ages at the time of the sweep
          on    : Invoices \cup {None},      \* the document in hand
          due   : SUBSET Keys]               \* its keys still to be added

Idle == [pc |-> "idle", todo |-> {}, keys |-> [i \in Invoices |-> {}], late |-> {},
         now |-> [i \in Invoices |-> 0], on |-> None, due |-> {}]

TypeOK ==
  /\ age \in [Invoices -> 0..Top]
  /\ status \in [Invoices -> Status]
  /\ sent \in [Invoices -> SUBSET Keys]
  /\ sweep \in [Sweepers -> Sweep]
  /\ edit \in [Invoices -> Status \cup {None}]
  /\ failures \in 0..MaxFailures
  /\ mailed \subseteq Invoices \X Keys
  /\ repeated \subseteq Invoices \X Keys
  /\ overlap \in BOOLEAN

Init ==
  /\ age = [i \in Invoices |-> 0]
  /\ status = [i \in Invoices |-> "open"]
  /\ sent = [i \in Invoices |-> {}]
  /\ sweep = [s \in Sweepers |-> Idle]
  /\ edit = [i \in Invoices |-> None]
  /\ failures = 0
  /\ mailed = {} /\ repeated = {}
  /\ overlap = FALSE

(***************************************************************************)
(* The sweep.                                                              *)
(***************************************************************************)
Running(s) == sweep[s].pc # "idle"

EveryInvoice == Invoices

Unpaid == {i \in Invoices : status[i] # "paid"}

Start(s) ==
  /\ ~Running(s)
  /\ sweep' = [sweep EXCEPT ![s] =
       [pc |-> "scan", todo |-> Unpaid, keys |-> sent, now |-> age,
        late |-> {i \in Invoices : status[i] = "overdue"}, on |-> None, due |-> {}]]
  /\ overlap' = (overlap \/ \E o \in Sweepers : Running(o))
  /\ UNCHANGED <<age, status, sent, edit, failures, mailed, repeated>>

DueWhateverSent(s, i) == {k \in Keys : k <= sweep[s].now[i]}
DueAfterTheMonth(s, i) == {k \in Keys : k < sweep[s].now[i] /\ k \notin sweep[s].keys[i]}

Due(s, i) == {k \in Keys : k <= sweep[s].now[i] /\ k \notin sweep[s].keys[i]}

\* markOverdue repeats the test for paid in the update itself.
Look(s, i) ==
  /\ sweep[s].pc = "scan"
  /\ i \in sweep[s].todo
  /\ status' = IF sweep[s].now[i] = Top /\ i \notin sweep[s].late /\ status[i] # "paid"
               THEN [status EXCEPT ![i] = "overdue"] ELSE status
  /\ LET rest == sweep[s].todo \ {i}
         mail == Due(s, i) # {} /\ i \in Reachable
     IN  sweep' = [sweep EXCEPT ![s] =
           [sweep[s] EXCEPT !.todo = rest,
                            !.pc = IF mail THEN "mail" ELSE "scan",
                            !.on = IF mail THEN i ELSE None,
                            !.due = IF mail THEN Due(s, i) ELSE {}]]
  /\ UNCHANGED <<age, sent, edit, failures, history>>

Lowest(S, k) == k \in S /\ \A j \in S : k <= j

Highest(S, k) == k \in S /\ \A j \in S : j <= k

Mail(s, k) ==
  LET m == <<sweep[s].on, k>> IN
  /\ sweep[s].pc = "mail"
  /\ Highest(sweep[s].due, k)
  /\ mailed' = mailed \cup {m}
  /\ repeated' = IF m \in mailed THEN repeated \cup {m} ELSE repeated
  /\ sweep' = [sweep EXCEPT ![s].pc = "push"]
  /\ UNCHANGED <<age, status, sent, edit, failures, overlap>>

\* pushReminderSent, one $addToSet for each key that was due.
Push(s, k) ==
  LET left == sweep[s].due \ {k} IN
  /\ sweep[s].pc = "push"
  /\ Lowest(sweep[s].due, k)
  /\ sent' = [sent EXCEPT ![sweep[s].on] = @ \cup {k}]
  /\ sweep' = [sweep EXCEPT ![s] =
       [sweep[s] EXCEPT !.due = left,
                        !.pc = IF left = {} THEN "scan" ELSE "push",
                        !.on = IF left = {} THEN None ELSE sweep[s].on]]
  /\ UNCHANGED <<age, status, edit, failures, history>>

Finish(s) ==
  /\ sweep[s].pc = "scan"
  /\ sweep[s].todo = {}
  /\ sweep' = [sweep EXCEPT ![s] = Idle]
  /\ UNCHANGED <<age, status, sent, edit, failures, history>>

\* A database or queue call throws, or the process dies: the sweep is over,
\* whatever it has not done yet.
Fail(s) ==
  /\ Running(s)
  /\ failures < MaxFailures
  /\ failures' = failures + 1
  /\ sweep' = [sweep EXCEPT ![s] = Idle]
  /\ UNCHANGED <<age, status, sent, edit, history>>

(***************************************************************************)
(* Time, payments (markPaid) and edits: InvoicesService.update reads the   *)
(* document, and writes the new status by id later; one edit of an invoice *)
(* is in flight at a time.                                                 *)
(***************************************************************************)
Month(i) ==
  /\ age[i] < Top
  /\ age' = [age EXCEPT ![i] = @ + 1]
  /\ UNCHANGED <<status, sent, sweep, edit, failures, history>>

Settle(i) ==
  /\ status[i] # "paid"
  /\ status' = [status EXCEPT ![i] = "paid"]
  /\ UNCHANGED <<age, sent, sweep, edit, failures, history>>

\* "open" stands for draft and sent, so an edit may go from open to open.
EditRead(i, to) ==
  /\ edit[i] = None
  /\ status[i] # "paid"
  /\ to # status[i] \/ to = "open"
  /\ edit' = [edit EXCEPT ![i] = to]
  /\ UNCHANGED <<age, status, sent, sweep, failures, history>>

EditWrite(i) ==
  /\ edit[i] # None
  /\ status' = [status EXCEPT ![i] = edit[i]]
  /\ edit' = [edit EXCEPT ![i] = None]
  /\ UNCHANGED <<age, sent, sweep, failures, history>>

Continue(s) ==
  \/ \E i \in Invoices : Look(s, i)
  \/ \E k \in Keys : Mail(s, k) \/ Push(s, k)
  \/ Finish(s)

Next ==
  \/ \E s \in Sweepers : Start(s) \/ Continue(s) \/ Fail(s)
  \/ \E i \in Invoices : Month(i) \/ Settle(i) \/ EditWrite(i)
  \/ \E i \in Invoices, to \in Status : EditRead(i, to)

Spec == Init /\ [][Next]_vars

\* The worker's sweep starts every morning and a sweep that runs goes on;
\* nobody has to run one by hand, or to edit an invoice.
FairSpec ==
  /\ Spec
  /\ WF_vars(Start(Cron))
  /\ \A s \in Sweepers : WF_vars(Continue(s))
---------------------------------------------------------------------------
(***************************************************************************)
(* Properties.                                                             *)
(***************************************************************************)

\* A key in femaRemindersSent never stands for silence: that reminder or a
\* higher one was put on the email queue before.
SentMeansMailed ==
  \A i \in Invoices : \A k \in sent[i] : \E h \in Keys : h >= k /\ <<i, h>> \in mailed

\* The reminder of a key is mailed twice only if a sweep has failed or two
\* sweeps have overlapped; sweeps one after the other never repeat one.
RepeatsHaveACause == repeated # {} => overlap \/ failures > 0

\* Once an invoice is paid, and no sweep and no edit that read it before is
\* still under way, nobody is reminded of it again.
AtRest(i) ==
  /\ status[i] = "paid"
  /\ edit[i] \in {None, "paid"}
  /\ \A s \in Sweepers : i \notin sweep[s].todo /\ sweep[s].on # i

NoReminderAfterPayment ==
  [][\A i \in Invoices : AtRest(i) =>
       /\ AtRest(i)'
       /\ \A k \in Keys : <<i, k>> \in mailed' => <<i, k>> \in mailed]_vars

\* A reminder whose month has come is recorded in the end, unless the invoice
\* is paid first or there is nobody to mail: no failure loses one for good.
ReminderArrives ==
  \A i \in Reachable, k \in Keys :
    age[i] >= k ~> k \in sent[i] \/ status[i] = "paid"

(***************************************************************************)
(* What the repository says and the code does not do.                      *)
(***************************************************************************)

\* fema-reminder.service.ts:11: "each at most once (idempotent via
\* femaRemindersSent)".
AtMostOnce == repeated = {}
===========================================================================
