------------------------------- MODULE Payroll -------------------------------
(***************************************************************************)
(* The salary slips of a period and its payroll run.                       *)
(*                                                                         *)
(* A slip is created and edited one by one, each time followed by a best   *)
(* effort rendering and a second save.  The run sums the slips up, and     *)
(* finalising it is two writes: the run, then every slip of the period.    *)
(* One period is modelled; a slip has an employee's unique index, so slips *)
(* are named after employees.  Four earnings and four deductions behave    *)
(* alike, so earned and deducted stand for one of each, in whole units.    *)
(* The totals of a run are the slips they are the sums and the count of.   *)
(*                                                                         *)
(* NetOfEarnings, NoRunCheck and LockedPrinted are faults that no action   *)
(* uses.                                                                   *)
(***************************************************************************)
EXTENDS Handlers

CONSTANTS
  Employees,
  MaxPay,    \* bound: amounts are 0..MaxPay
  MaxPayCalls \* bound: requests that are begun

ASSUME PayrollAssumption ==
  /\ IsFiniteSet(Employees) /\ None \notin Employees
  /\ MaxPay \in Nat /\ MaxPayCalls \in Nat

VARIABLES
  slip,      \* the salary_slips of the period
  file,      \* salary-slips/<id>.pdf: the amounts it shows
  run,       \* the payroll_runs document of the period
  pay,       \* requests in flight
  payCalls,  \* requests begun so far
  payStale,  \* history: requests whose slip another one has saved
  payRaced,  \* history: slips saved by one of those
  late,      \* history: slips inserted after the run was finalised
  payDied,   \* history: a death between the two writes of finaliseRun
  moved      \* history: whose sums a slip has been changed after, the run's own as None

payHistory == <<payStale, payRaced, late, payDied, moved>>
payVars == <<slip, file, run, pay, payCalls, payHistory>>

Amounts == 0..MaxPay
SlipStatus == {"none", "draft", "finalised"}
Locked == {"finalised", "shared"}
RunStatus == {"none", "draft", "finalised"}

Slip == [status : SlipStatus, earned : Amounts, deducted : Amounts, net : Amounts,
         pdf : BOOLEAN]     \* pdfUrl is set
Printed == [earned : Amounts, deducted : Amounts, net : Amounts]
Totals == UNION {[S -> Printed] : S \in SUBSET Employees}
Run == [status : RunStatus, totals : Totals]

PayRequest == [pc    : {"idle", "edit", "render", "attach", "delete", "sum", "put", "lock", "slips"},
               of    : Employees \cup {None},
               old   : Slip, new : Slip,
               totals: Totals]

NoSlip == [status |-> "none", earned |-> 0, deducted |-> 0, net |-> 0, pdf |-> FALSE]
NoSlips == [e \in {} |-> 0]
NoRun  == [status |-> "none", totals |-> NoSlips]
Done   == [pc |-> "idle", of |-> None, old |-> NoSlip, new |-> NoSlip, totals |-> NoSlips]

PayrollTypeOK ==
  /\ slip \in [Employees -> Slip]
  /\ file \in [Employees -> Printed]
  /\ run \in Run
  /\ pay \in [Requests -> PayRequest]
  /\ payCalls \in 0..MaxPayCalls
  /\ payStale \subseteq Requests /\ payRaced \subseteq Employees
  /\ late \subseteq Employees /\ payDied \in BOOLEAN /\ moved \subseteq Requests \cup {None}

PayrollInit ==
  /\ slip = [e \in Employees |-> NoSlip]
  /\ file = [e \in Employees |-> [earned |-> 0, deducted |-> 0, net |-> 0]]
  /\ run = NoRun
  /\ pay = [r \in Requests |-> Done]
  /\ payCalls = 0
  /\ payStale = {} /\ payRaced = {} /\ late = {} /\ payDied = FALSE /\ moved = {}

Slips == {e \in Employees : slip[e].status # "none"}

Shows(s) == [earned |-> s.earned, deducted |-> s.deducted, net |-> s.net]

Accepted(r, q) ==
  /\ pay[r].pc = "idle"
  /\ payCalls < MaxPayCalls
  /\ payCalls' = payCalls + 1
  /\ pay' = [pay EXCEPT ![r] = q]

\* The slip e is saved by r.
Overwrites(r, e) ==
  /\ payStale' = (payStale \cup {o \in Requests : pay[o].of = e /\ pay[o].pc # "idle"}) \ {r}
  /\ payRaced' = IF r \in payStale THEN payRaced \cup {e} ELSE payRaced

\* A slip comes, goes or gets other amounts.
Moves == moved' = {None} \cup {o \in Requests : pay[o].pc = "put"}

(***************************************************************************)
(* Slips.                                                                  *)
(***************************************************************************)

NetOfEarnings(earned, deducted) == earned
\* compute: refused when the deductions exceed the earnings.
Net(earned, deducted) == earned - deducted

SlipOf(s, earned, deducted) ==
  [s EXCEPT !.earned = earned, !.deducted = deducted, !.net = Net(earned, deducted), !.pdf = FALSE]

\* The unique index makes the check and the insert one step.  Nothing looks
\* at the run.
CreateSlip(r, e, earned, deducted) ==
  LET new == SlipOf([NoSlip EXCEPT !.status = "draft"], earned, deducted) IN
  /\ slip[e].status = "none" /\ deducted <= earned
  /\ Accepted(r, [Done EXCEPT !.pc = "render", !.of = e, !.old = new, !.new = new])
  /\ slip' = [slip EXCEPT ![e] = new]
  /\ late' = IF run.status = "finalised" THEN late \cup {e} ELSE late \ {e}
  /\ payRaced' = payRaced \ {e}
  /\ Moves
  /\ UNCHANGED <<file, run, payStale, payDied>>

UpdateSlip(r, e, earned, deducted) ==
  /\ slip[e].status \notin {"none"} \cup Locked /\ deducted <= earned
  /\ Accepted(r, [Done EXCEPT !.pc = "edit", !.of = e, !.old = slip[e],
                              !.new = SlipOf(slip[e], earned, deducted)])
  /\ UNCHANGED <<slip, file, run, payHistory>>

\* save() of the fields that the edit changed.
SaveSlip(r) ==
  LET q == pay[r]
      s == slip[q.of]
  IN
  /\ q.pc = "edit"
  /\ slip' = [slip EXCEPT ![q.of] =
       [status   |-> s.status,
        earned   |-> Saved(s.earned, q.old.earned, q.new.earned),
        deducted |-> Saved(s.deducted, q.old.deducted, q.new.deducted),
        net      |-> Saved(s.net, q.old.net, q.new.net),
        pdf      |-> Saved(s.pdf, q.old.pdf, q.new.pdf)]]
  /\ pay' = [pay EXCEPT ![r].pc = "render"]
  /\ Overwrites(r, q.of)
  /\ Moves
  /\ UNCHANGED <<file, run, payCalls, late, payDied>>

\* getSlip: a slip without a PDF is rendered when it is looked at.
GetSlip(r, e) ==
  /\ slip[e].status # "none" /\ ~slip[e].pdf
  /\ Accepted(r, [Done EXCEPT !.pc = "render", !.of = e, !.old = slip[e], !.new = slip[e]])
  /\ UNCHANGED <<slip, file, run, payHistory>>

\* The PDF service writes the file of the slip, whose name is the slip's id.
\* It may fail, or answer too late to be heard.
Render(r) ==
  /\ pay[r].pc = "render"
  /\ \/ /\ file' = [file EXCEPT ![pay[r].of] = Shows(pay[r].new)]
        /\ payRaced' = IF r \in payStale THEN payRaced \cup {pay[r].of} ELSE payRaced
        /\ \/ pay' = [pay EXCEPT ![r].pc = "attach"] /\ payStale' = payStale
           \/ pay' = [pay EXCEPT ![r] = Done] /\ payStale' = payStale \ {r}
     \/ /\ pay' = [pay EXCEPT ![r] = Done]
        /\ payStale' = payStale \ {r}
        /\ UNCHANGED <<file, payRaced>>
  /\ UNCHANGED <<slip, run, payCalls, late, payDied, moved>>

Attach(r) ==
  LET e == pay[r].of IN
  /\ pay[r].pc = "attach"
  /\ slip' = [slip EXCEPT ![e].pdf = TRUE]
  /\ pay' = [pay EXCEPT ![r] = Done]
  /\ Overwrites(r, e)
  /\ UNCHANGED <<file, run, payCalls, late, payDied, moved>>

RemoveSlip(r, e) ==
  /\ slip[e].status \notin {"none"} \cup Locked
  /\ Accepted(r, [Done EXCEPT !.pc = "delete", !.of = e])
  /\ UNCHANGED <<slip, file, run, payHistory>>

\* deleteOne by id.  A request that still holds the slip can only fail from
\* here on, or print a file nothing links to: it ends with it.
DeleteSlip(r) ==
  LET e == pay[r].of IN
  /\ pay[r].pc = "delete"
  /\ slip' = [slip EXCEPT ![e] = NoSlip]
  /\ pay' = [o \in Requests |-> IF pay[o].of = e THEN Done ELSE pay[o]]
  /\ payStale' = {o \in payStale : pay[o].of # e}
  /\ Moves
  /\ UNCHANGED <<file, run, payCalls, payRaced, late, payDied>>

(***************************************************************************)
(* The run.                                                                *)
(***************************************************************************)
NoRunCheck == TRUE
RunOpen == run.status # "finalised"

RunPayroll(r) ==
  /\ RunOpen
  /\ Accepted(r, [Done EXCEPT !.pc = "sum"])
  /\ UNCHANGED <<slip, file, run, payHistory>>

Summed == Slips

SumOfSlips == [e \in Summed |-> Shows(slip[e])]

Aggregate(r) ==
  /\ pay[r].pc = "sum"
  /\ pay' = [pay EXCEPT ![r] = [Done EXCEPT !.pc = "put", !.totals = SumOfSlips]]
  /\ moved' = moved \ {r}
  /\ UNCHANGED <<slip, file, run, payCalls, payStale, payRaced, late, payDied>>

\* The upsert sets 'draft' whatever the run has become.
PutRun(r) ==
  /\ pay[r].pc = "put"
  /\ run' = [status |-> "draft", totals |-> pay[r].totals]
  /\ pay' = [pay EXCEPT ![r] = Done]
  /\ moved' = (IF r \in moved THEN moved \cup {None} ELSE moved \ {None}) \ {r}
  /\ UNCHANGED <<slip, file, payCalls, payStale, payRaced, late, payDied>>

FinaliseRun(r) ==
  /\ run.status = "draft"
  /\ Accepted(r, [Done EXCEPT !.pc = "lock"])
  /\ UNCHANGED <<slip, file, run, payHistory>>

LockRun(r) ==
  /\ pay[r].pc = "lock"
  /\ run' = [run EXCEPT !.status = "finalised"]
  /\ pay' = [pay EXCEPT ![r] = [Done EXCEPT !.pc = "slips"]]
  /\ UNCHANGED <<slip, file, payCalls, payHistory>>

LockedPrinted(e) == slip[e].pdf
EverySlip(e) == TRUE

LockSlips(r) ==
  /\ pay[r].pc = "slips"
  /\ slip' = [e \in Employees |-> IF e \in Slips /\ EverySlip(e)
                                  THEN [slip[e] EXCEPT !.status = "finalised"] ELSE slip[e]]
  /\ pay' = [pay EXCEPT ![r] = Done]
  /\ UNCHANGED <<file, run, payCalls, payHistory>>

PayDies(r) ==
  /\ pay[r].pc # "idle"
  /\ pay' = [pay EXCEPT ![r] = Done]
  /\ payStale' = payStale \ {r}
  /\ payDied' = (payDied \/ pay[r].pc = "slips")
  /\ moved' = moved \ {r}
  /\ UNCHANGED <<slip, file, run, payCalls, payRaced, late>>

PayrollNext ==
  \E r \in Requests :
    \/ \E e \in Employees, earned, deducted \in Amounts :
         CreateSlip(r, e, earned, deducted) \/ UpdateSlip(r, e, earned, deducted)
    \/ \E e \in Employees : GetSlip(r, e) \/ RemoveSlip(r, e)
    \/ SaveSlip(r) \/ Render(r) \/ Attach(r) \/ DeleteSlip(r)
    \/ RunPayroll(r) \/ Aggregate(r) \/ PutRun(r)
    \/ FinaliseRun(r) \/ LockRun(r) \/ LockSlips(r)
    \/ PayDies(r)

PayrollSpec == PayrollInit /\ [][PayrollNext]_payVars
---------------------------------------------------------------------------
(***************************************************************************)
(* Properties.                                                             *)
(***************************************************************************)

\* payroll.service.ts 43-61, 137-155: unless a request has saved or rendered a
\* slip over another one's changes, its net is what its components make it and
\* the PDF it links to shows its amounts, both of which are saved field by field;
\* and a run has the totals of the slips unless one was changed after it was summed.
FiguresAgree ==
  /\ \A e \in Slips \ payRaced :
       /\ slip[e].net = slip[e].earned - slip[e].deducted
       /\ slip[e].pdf => file[e] = Shows(slip[e])
  /\ run.status # "none" /\ None \notin moved => run.totals = [e \in Slips |-> Shows(slip[e])]

\* Lines 122, 218, 236: a finalised slip keeps its amounts and a finalised run
\* its totals for ever, once no request that read them before is still to write.
SlipAtRest(e) ==
  slip[e].status = "finalised" /\ \A r \in Requests : pay[r].of = e => pay[r].pc \notin {"edit", "delete"}
RunAtRest == run.status = "finalised" /\ \A r \in Requests : pay[r].pc \notin {"sum", "put"}

FinalisedStays ==
  [][/\ RunAtRest => RunAtRest' /\ run' = run
     /\ \A e \in Employees : SlipAtRest(e) => SlipAtRest(e)' /\ Shows(slip'[e]) = Shows(slip[e])]_payVars

\* Lines 299-309: when a run is finalised and its slips are no longer being
\* finalised, every slip is, but for those inserted afterwards (nothing asks
\* whether the period is closed) and a death between the two writes.
FinaliseCovers ==
  run.status = "finalised" /\ ~payDied /\ (\A r \in Requests : pay[r].pc # "slips") =>
    \A e \in Slips \ late : slip[e].status = "finalised"
===========================================================================
