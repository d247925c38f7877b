----------------------------- MODULE Attendance -----------------------------
(***************************************************************************)
(* The attendance sheet and the leave requests of one employee.            *)
(*                                                                         *)
(* A decision is saved first and written to the sheet day by day after     *)
(* that, each day with its own upsert; a check-in or check-out of the same *)
(* day may come anywhere in between.  The reason, the type and the minutes *)
(* of a day are left out: whether a day worked is full is a choice.        *)
(*                                                                         *)
(* LeaveStatusUndecided, OverlapsInside, AnyDecision and AllButLast are    *)
(* faults that no action uses.                                             *)
(***************************************************************************)
EXTENDS Handlers

CONSTANTS
  LastDay,    \* bound: the days are 1..LastDay
  Leaves,     \* leave documents that may be created
  MaxDayCalls \* bound: requests that are begun

ASSUME AttendanceAssumption == LastDay \in Nat \ {0} /\ MaxDayCalls \in Nat /\ None \notin Leaves

VARIABLES
  today,
  sheet,     \* the attendance documents, one for each day (unique index)
  leave,     \* the leave documents
  day,       \* requests in flight
  dayCalls,  \* requests begun so far
  inService, \* the employee is there and has not exited
  blind,     \* history: leaves requested while another one was being inserted
  redecided, \* history: leaves decided by two requests
  unmarked   \* history: leaves whose marking a death has cut short

dayHistory == <<blind, redecided, unmarked>>
dayVars == <<today, sheet, leave, day, dayCalls, inService, dayHistory>>

Days == 1..LastDay

AttendanceStatus == {"none", "present", "half", "leave"}
Sheet == [status : AttendanceStatus, in : BOOLEAN, out : BOOLEAN]

LeaveStatusUndecided == {"none", "pending", "approved"}
LeaveStatus == {"none", "pending", "approved", "rejected"}
Leave == [status : LeaveStatus, from : Days \cup {0}, to : Days \cup {0}]

DayRequest == [pc    : {"idle", "in", "out", "ask", "decide", "mark"},
               date  : Days \cup {0},     \* the day it is about, or marks next
               to    : Days \cup {0},     \* the last day of the leave it asks for
               on    : Leaves \cup {None},
               status: AttendanceStatus \cup LeaveStatus,
               others: SUBSET Leaves]     \* history: the leaves it has seen

NoDay   == [status |-> "none", in |-> FALSE, out |-> FALSE]
NoLeave == [status |-> "none", from |-> 0, to |-> 0]
Off == [pc |-> "idle", date |-> 0, to |-> 0, on |-> None, status |-> "none", others |-> {}]

AttendanceTypeOK ==
  /\ today \in Days
  /\ sheet \in [Days -> Sheet]
  /\ leave \in [Leaves -> Leave]
  /\ day \in [Requests -> DayRequest]
  /\ dayCalls \in 0..MaxDayCalls /\ inService \in BOOLEAN
  /\ blind \subseteq Leaves /\ redecided \subseteq Leaves /\ unmarked \subseteq Leaves

AttendanceInit ==
  /\ today = 1 /\ inService = TRUE /\ dayCalls = 0
  /\ sheet = [d \in Days |-> NoDay]
  /\ leave = [l \in Leaves |-> NoLeave]
  /\ day = [r \in Requests |-> Off]
  /\ blind = {} /\ redecided = {} /\ unmarked = {}

\* requireActiveEmployee is part of the handlers that call it.
Arrives(r, q) ==
  /\ day[r].pc = "idle"
  /\ dayCalls < MaxDayCalls
  /\ dayCalls' = dayCalls + 1
  /\ day' = [day EXCEPT ![r] = q]
  /\ UNCHANGED <<today, sheet, leave, inService, dayHistory>>

CheckIn(r) ==
  /\ inService /\ ~sheet[today].in
  /\ Arrives(r, [Off EXCEPT !.pc = "in", !.date = today])

\* The upsert sets the status whatever the day was marked with.
WriteIn(r) ==
  LET d == day[r].date IN
  /\ day[r].pc = "in"
  /\ sheet' = [sheet EXCEPT ![d] = [status |-> "present", in |-> TRUE, out |-> sheet[d].out]]
  /\ day' = [day EXCEPT ![r] = Off]
  /\ UNCHANGED <<today, leave, dayCalls, inService, dayHistory>>

\* save() writes the status only when it differs from the one that was read.
CheckOut(r, worked) ==
  /\ inService /\ sheet[today].in /\ ~sheet[today].out
  /\ worked \in {"present", "half"}
  /\ Arrives(r, [Off EXCEPT !.pc = "out", !.date = today,
                            !.status = IF worked = sheet[today].status THEN "none" ELSE worked])

WriteOut(r) ==
  LET q == day[r] IN
  /\ q.pc = "out"
  /\ sheet' = [sheet EXCEPT ![q.date] =
       [status |-> IF q.status = "none" THEN sheet[q.date].status ELSE q.status,
        in |-> sheet[q.date].in, out |-> TRUE]]
  /\ day' = [day EXCEPT ![r] = Off]
  /\ UNCHANGED <<today, leave, dayCalls, inService, dayHistory>>

InForce == {l \in Leaves : leave[l].status \in {"pending", "approved"}}
Approved == {l \in Leaves : leave[l].status = "approved"}

\* eachDate(from, to).
Covers(l, d) == leave[l].from <= d /\ d <= leave[l].to

OverlapsInside(l, from, to) == leave[l].from < to /\ leave[l].to > from
Overlaps(l, from, to) == leave[l].from <= to /\ leave[l].to >= from

RequestLeave(r, from, to) ==
  /\ inService
  /\ from <= to /\ from >= today
  /\ \A l \in InForce : ~Overlaps(l, from, to)
  /\ Arrives(r, [Off EXCEPT !.pc = "ask", !.date = from, !.to = to, !.others = InForce])

InsertLeave(r, l) ==
  /\ day[r].pc = "ask" /\ leave[l].status = "none"
  /\ leave' = [leave EXCEPT ![l] = [status |-> "pending", from |-> day[r].date, to |-> day[r].to]]
  /\ day' = [day EXCEPT ![r] = Off]
  /\ blind' = IF InForce \subseteq day[r].others THEN blind ELSE blind \cup {l}
  /\ UNCHANGED <<today, sheet, dayCalls, inService, redecided, unmarked>>

DecideLeave(r, l, decision) ==
  /\ leave[l].status = "pending"
  /\ decision \in {"approved", "rejected"}
  /\ Arrives(r, [Off EXCEPT !.pc = "decide", !.on = l, !.status = decision])

AnyDecision(decision) == TRUE
MarksSheet(decision) == decision = "approved"

SaveDecision(r) ==
  LET l == day[r].on IN
  /\ day[r].pc = "decide"
  /\ leave' = [leave EXCEPT ![l].status = day[r].status]
  /\ day' = [day EXCEPT ![r] = IF MarksSheet(day[r].status)
                               THEN [day[r] EXCEPT !.pc = "mark", !.date = leave[l].from] ELSE Off]
  /\ redecided' = IF leave[l].status = "pending" THEN redecided ELSE redecided \cup {l}
  /\ UNCHANGED <<today, sheet, dayCalls, inService, blind, unmarked>>

AllButLast(d, to) == d + 1 < to
MoreDays(d, to) == d < to

MarkDay(r) ==
  LET q == day[r] IN
  /\ q.pc = "mark"
  /\ sheet' = [sheet EXCEPT ![q.date].status = "leave"]
  /\ day' = [day EXCEPT ![r] = IF MoreDays(q.date, leave[q.on].to)
                               THEN [q EXCEPT !.date = q.date + 1] ELSE Off]
  /\ UNCHANGED <<today, leave, dayCalls, inService, dayHistory>>

DayDies(r) ==
  /\ day[r].pc # "idle"
  /\ day' = [day EXCEPT ![r] = Off]
  /\ unmarked' = IF day[r].pc = "mark" THEN unmarked \cup {day[r].on} ELSE unmarked
  /\ UNCHANGED <<today, sheet, leave, dayCalls, inService, blind, redecided>>

Midnight ==
  /\ today < LastDay
  /\ today' = today + 1
  /\ UNCHANGED <<sheet, leave, day, dayCalls, inService, dayHistory>>

\* EmployeesService.update to 'exited', or remove.
LeavesService ==
  /\ inService
  /\ inService' = FALSE
  /\ UNCHANGED <<today, sheet, leave, day, dayCalls, dayHistory>>

AttendanceNext ==
  \/ Midnight
  \/ LeavesService
  \/ \E r \in Requests :
       \/ CheckIn(r) \/ WriteIn(r)
       \/ \E worked \in {"present", "half"} : CheckOut(r, worked)
       \/ WriteOut(r)
       \/ \E from, to \in Days : RequestLeave(r, from, to)
       \/ \E l \in Leaves : InsertLeave(r, l)
       \/ \E l \in Leaves, decision \in {"approved", "rejected"} : DecideLeave(r, l, decision)
       \/ SaveDecision(r) \/ MarkDay(r) \/ DayDies(r)

AttendanceSpec == AttendanceInit /\ [][AttendanceNext]_dayVars
---------------------------------------------------------------------------
(***************************************************************************)
(* Properties.                                                             *)
(***************************************************************************)

\* attendance.service.ts 174-182: whoever else decides it, every day of an approved
\* leave is marked on the sheet, unless somebody checked in on it, once nobody is
\* marking it any more and no death has cut the marking short.
LeaveIsMarked ==
  \A l \in Approved \ unmarked, d \in Days :
    Covers(l, d) /\ (\A r \in Requests : day[r].pc = "mark" => day[r].on # l) =>
      sheet[d].status = "leave" \/ sheet[d].in

\* The converse: a mark stands for an approved leave, but for a leave that two
\* requests have decided (lines 162-172).
MarkHasLeave ==
  \A d \in Days : sheet[d].status = "leave" =>
    \E l \in Leaves : Covers(l, d) /\ l \in Approved \cup redecided

\* Lines 135-143: leaves that are pending or approved do not overlap, unless one
\* was inserted over another one it had not seen, or was decided twice.
LeavesDisjoint ==
  \A l, m \in InForce, d \in Days : l # m /\ Covers(l, d) /\ Covers(m, d) =>
    {l, m} \cap (blind \cup redecided) # {}
===========================================================================
