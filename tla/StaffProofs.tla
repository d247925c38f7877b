----------------------------- MODULE StaffProofs -----------------------------
(***************************************************************************)
(* Proofs about Attendance, for every number of days, set of leaves and    *)
(* set of requests: what the sheet shows and what was decided agree, and   *)
(* leaves in force do not overlap; and about Employment, for every         *)
(* checklist, set of exits and set of requests: the three documents of an  *)
(* employee agree as far as their order makes them, and what is closed     *)
(* stays closed.                                                           *)
(***************************************************************************)
EXTENDS Attendance, Employment, TLAPS

(***************************************************************************)
(* Attendance.                                                             *)
(***************************************************************************)

\* A leave that exists has its days in order, and only such a leave is decided.
LeaveInv ==
  /\ \A l \in Leaves : leave[l].status # "none" =>
       leave[l].from \in Days /\ leave[l].to \in Days /\ leave[l].from <= leave[l].to
  /\ \A l \in redecided : leave[l].status # "none"

\* What a request in flight may rely on: a day that is checked out has been
\* checked in, the leaves that were in force when one was asked for do not
\* overlap it, and what is decided or marked exists and was approved.
RequestInv(r) ==
  /\ day[r].pc \in {"in", "out"} => day[r].date \in Days
  /\ day[r].pc = "out" =>
       sheet[day[r].date].in /\ day[r].status \in {"none", "present", "half"}
  /\ day[r].pc = "ask" =>
       /\ day[r].date \in Days /\ day[r].to \in Days /\ day[r].date <= day[r].to
       /\ \A l \in day[r].others :
            leave[l].status # "none" /\ ~Overlaps(l, day[r].date, day[r].to)
  /\ day[r].pc = "decide" =>
       /\ day[r].on \in Leaves /\ leave[day[r].on].status # "none"
       /\ day[r].status \in {"approved", "rejected"}
  /\ day[r].pc = "mark" =>
       /\ day[r].on \in Approved \cup redecided
       /\ leave[day[r].on].status # "none"
       /\ Covers(day[r].on, day[r].date)

DayInv == \A r \in Requests : RequestInv(r)

\* A day of an approved leave is marked, was worked, or is yet to be marked.
MarkingInv ==
  \A l \in Approved \ unmarked, d \in Days : Covers(l, d) =>
    \/ sheet[d].status = "leave" \/ sheet[d].in
    \/ \E r \in Requests : day[r].pc = "mark" /\ day[r].on = l /\ day[r].date <= d

AttendanceIInv ==
  AttendanceTypeOK /\ LeaveInv /\ DayInv /\ MarkingInv /\ MarkHasLeave /\ LeavesDisjoint

LEMMA AttendanceInitInv == AttendanceInit => AttendanceIInv
<1> SUFFICES ASSUME AttendanceInit PROVE AttendanceIInv
  OBVIOUS
<1> USE AttendanceAssumption DEF AttendanceInit, NoDay, NoLeave, Off
<1>1. AttendanceTypeOK
  BY DEF AttendanceTypeOK, Sheet, AttendanceStatus, Leave, LeaveStatus, DayRequest, Days
<1>2. LeaveInv /\ DayInv
  BY DEF LeaveInv, DayInv, RequestInv
<1>3. MarkingInv /\ MarkHasLeave /\ LeavesDisjoint
  BY DEF MarkingInv, MarkHasLeave, LeavesDisjoint, Approved, InForce
<1>4. QED
  BY <1>1, <1>2, <1>3 DEF AttendanceIInv



DaySheets == today \in Days /\ sheet \in [Days -> Sheet] /\ leave \in [Leaves -> Leave]
DayFlight == day \in [Requests -> DayRequest]
DayCounted ==
  /\ dayCalls \in 0..MaxDayCalls /\ inService \in BOOLEAN
  /\ blind \subseteq Leaves /\ redecided \subseteq Leaves /\ unmarked \subseteq Leaves

LEMMA AttendanceTypeParts == AttendanceTypeOK <=> DaySheets /\ DayFlight /\ DayCounted
BY Zenon DEF AttendanceTypeOK, DaySheets, DayFlight, DayCounted

LEMMA OffType == Off \in DayRequest
BY DEF Off, DayRequest, AttendanceStatus

LEMMA ArrivesType ==
  ASSUME DaySheets, DayFlight, DayCounted, NEW r \in Requests, NEW q \in DayRequest, Arrives(r, q)
  PROVE  DaySheets' /\ DayFlight' /\ DayCounted'
<1>1. DaySheets'
  BY DEF Arrives, DaySheets
<1>2. DayFlight'
  BY DEF Arrives, DayFlight
<1>3. dayCalls' \in 0..MaxDayCalls
  BY AttendanceAssumption DEF Arrives, DayCounted
<1>4. DayCounted'
  BY <1>3, Zenon DEF Arrives, DayCounted, dayHistory
<1>5. QED
  BY <1>1, <1>2, <1>4

LEMMA AttendanceTypeNext ==
  AttendanceTypeOK /\ LeaveInv /\ DayInv /\ [AttendanceNext]_dayVars => AttendanceTypeOK'
<1> SUFFICES ASSUME DaySheets, DayFlight, DayCounted, LeaveInv, DayInv, [AttendanceNext]_dayVars
             PROVE  DaySheets' /\ DayFlight' /\ DayCounted'
  BY AttendanceTypeParts, Zenon DEF AttendanceTypeOK, DaySheets, DayFlight, DayCounted
<1> USE OffType, AttendanceAssumption
<1>1. CASE Midnight
  <2>1. DaySheets'
    BY <1>1 DEF Midnight, DaySheets, Days
  <2>2. DayFlight' /\ DayCounted'
    BY <1>1, Zenon DEF Midnight, DayFlight, DayCounted, dayHistory
  <2>3. QED
    BY <2>1, <2>2
<1>2. CASE LeavesService
  BY <1>2, Zenon DEF LeavesService, DaySheets, DayFlight, DayCounted, dayHistory
<1>3. ASSUME NEW r \in Requests, CheckIn(r) PROVE DaySheets' /\ DayFlight' /\ DayCounted'
  <2>1. [Off EXCEPT !.pc = "in", !.date = today] \in DayRequest
    BY DEF DayRequest, DaySheets
  <2>2. QED
    BY <1>3, <2>1, ArrivesType DEF CheckIn
<1>4. ASSUME NEW r \in Requests, WriteIn(r) PROVE DaySheets' /\ DayFlight' /\ DayCounted'
  <2>1. sheet' \in [Days -> Sheet]
    BY <1>4 DEF WriteIn, DayInv, RequestInv, DaySheets, Sheet, AttendanceStatus
  <2>2. DaySheets' /\ DayFlight'
    BY <1>4, <2>1 DEF WriteIn, DaySheets, DayFlight
  <2>3. DayCounted'
    BY <1>4, Zenon DEF WriteIn, DayCounted, dayHistory
  <2>4. QED
    BY <2>2, <2>3
<1>5. ASSUME NEW r \in Requests, NEW worked \in {"present", "half"}, CheckOut(r, worked)
      PROVE  DaySheets' /\ DayFlight' /\ DayCounted'
  <2>1. \A status \in {"none", "present", "half"} :
          [Off EXCEPT !.pc = "out", !.date = today, !.status = status] \in DayRequest
    BY DEF DayRequest, DaySheets, AttendanceStatus
  <2>2. QED
    BY <1>5, <2>1, ArrivesType DEF CheckOut
<1>6. ASSUME NEW r \in Requests, WriteOut(r) PROVE DaySheets' /\ DayFlight' /\ DayCounted'
  <2>1. sheet' \in [Days -> Sheet]
    BY <1>6 DEF WriteOut, DayInv, RequestInv, DaySheets, Sheet, AttendanceStatus
  <2>2. DaySheets' /\ DayFlight'
    BY <1>6, <2>1 DEF WriteOut, DaySheets, DayFlight
  <2>3. DayCounted'
    BY <1>6, Zenon DEF WriteOut, DayCounted, dayHistory
  <2>4. QED
    BY <2>2, <2>3
<1>7. ASSUME NEW r \in Requests, NEW from \in Days, NEW to \in Days, RequestLeave(r, from, to)
      PROVE  DaySheets' /\ DayFlight' /\ DayCounted'
  <2>1. [Off EXCEPT !.pc = "ask", !.date = from, !.to = to, !.others = InForce] \in DayRequest
    BY DEF DayRequest, InForce
  <2>2. QED
    BY <1>7, <2>1, ArrivesType DEF RequestLeave
<1>8. ASSUME NEW r \in Requests, NEW l \in Leaves, InsertLeave(r, l)
      PROVE  DaySheets' /\ DayFlight' /\ DayCounted'
  <2>1. leave' \in [Leaves -> Leave]
    BY <1>8 DEF InsertLeave, DayInv, RequestInv, DaySheets, Leave, LeaveStatus
  <2>2. DaySheets' /\ DayFlight'
    BY <1>8, <2>1 DEF InsertLeave, DaySheets, DayFlight
  <2>3. blind' \subseteq Leaves
    BY <1>8 DEF InsertLeave, DayCounted
  <2>4. DayCounted'
    BY <1>8, <2>3, Zenon DEF InsertLeave, DayCounted
  <2>5. QED
    BY <2>2, <2>4
<1>9. ASSUME NEW r \in Requests, NEW l \in Leaves, NEW decision \in {"approved", "rejected"},
             DecideLeave(r, l, decision)
      PROVE  DaySheets' /\ DayFlight' /\ DayCounted'
  <2>1. [Off EXCEPT !.pc = "decide", !.on = l, !.status = decision] \in DayRequest
    BY DEF DayRequest, LeaveStatus
  <2>2. QED
    BY <1>9, <2>1, ArrivesType DEF DecideLeave
<1>10. ASSUME NEW r \in Requests, SaveDecision(r) PROVE DaySheets' /\ DayFlight' /\ DayCounted'
  <2>1. /\ day[r].on \in Leaves /\ day[r].status \in {"approved", "rejected"}
        /\ leave[day[r].on].status # "none" /\ leave[day[r].on].from \in Days
    BY <1>10 DEF SaveDecision, DayInv, RequestInv, LeaveInv
  <2>2. leave' \in [Leaves -> Leave]
    BY <1>10, <2>1 DEF SaveDecision, DaySheets, Leave, LeaveStatus
  <2>3. [day[r] EXCEPT !.pc = "mark", !.date = leave[day[r].on].from] \in DayRequest
    BY <2>1 DEF DayFlight, DayRequest
  <2>4. DaySheets' /\ DayFlight'
    BY <1>10, <2>2, <2>3 DEF SaveDecision, DaySheets, DayFlight
  <2>5. redecided' \subseteq Leaves
    BY <1>10, <2>1 DEF SaveDecision, DayCounted
  <2>6. DayCounted'
    BY <1>10, <2>5, Zenon DEF SaveDecision, DayCounted
  <2>7. QED
    BY <2>4, <2>6
<1>11. ASSUME NEW r \in Requests, MarkDay(r) PROVE DaySheets' /\ DayFlight' /\ DayCounted'
  <2>1. day[r].on \in Leaves /\ leave[day[r].on].status # "none" /\ Covers(day[r].on, day[r].date)
    BY <1>11 DEF MarkDay, DayInv, RequestInv, Approved, DayCounted
  <2>2. /\ leave[day[r].on].from \in Days /\ leave[day[r].on].to \in Days
        /\ day[r].date \in Days \cup {0}
    BY <2>1 DEF LeaveInv, DayFlight, DayRequest
  <2>3. day[r].date \in Days
    BY <2>1, <2>2 DEF Covers, Days
  <2>4. MoreDays(day[r].date, leave[day[r].on].to) => day[r].date + 1 \in Days
    BY <2>2, <2>3 DEF MoreDays, Days
  <2>5. sheet' \in [Days -> Sheet]
    BY <1>11, <2>3 DEF MarkDay, DaySheets, Sheet, AttendanceStatus
  <2>6. MoreDays(day[r].date, leave[day[r].on].to) =>
          [day[r] EXCEPT !.date = day[r].date + 1] \in DayRequest
    BY <2>4 DEF DayFlight, DayRequest
  <2>7. DaySheets' /\ DayFlight'
    BY <1>11, <2>5, <2>6 DEF MarkDay, DaySheets, DayFlight
  <2>8. DayCounted'
    BY <1>11, Zenon DEF MarkDay, DayCounted, dayHistory
  <2>9. QED
    BY <2>7, <2>8
<1>12. ASSUME NEW r \in Requests, DayDies(r) PROVE DaySheets' /\ DayFlight' /\ DayCounted'
  <2>1. unmarked' \subseteq Leaves
    BY <1>12 DEF DayDies, DayInv, RequestInv, Approved, DayCounted
  <2>2. DaySheets' /\ DayFlight'
    BY <1>12 DEF DayDies, DaySheets, DayFlight
  <2>3. DayCounted'
    BY <1>12, <2>1, Zenon DEF DayDies, DayCounted
  <2>4. QED
    BY <2>2, <2>3
<1>13. CASE UNCHANGED dayVars
  BY <1>13, Zenon DEF dayVars, dayHistory, DaySheets, DayFlight, DayCounted
<1>14. QED
  BY <1>1, <1>2, <1>3, <1>4, <1>5, <1>6, <1>7, <1>8, <1>9, <1>10, <1>11, <1>12, <1>13, Zenon
     DEF AttendanceNext

\* A leave that exists keeps its days; it changes by an insert or a decision.
LEMMA LeaveSteps ==
  ASSUME AttendanceTypeOK, DayInv, [AttendanceNext]_dayVars
  PROVE  \/ leave' = leave
         \/ \E r \in Requests, l \in Leaves : InsertLeave(r, l)
         \/ \E r \in Requests : SaveDecision(r)
<1> USE DEF Arrives, dayHistory
<1>1. CASE AttendanceNext
  BY <1>1, Zenon
     DEF AttendanceNext, Midnight, LeavesService, CheckIn, WriteIn, CheckOut, WriteOut,
         RequestLeave, DecideLeave, MarkDay, DayDies
<1>2. CASE UNCHANGED dayVars
  BY <1>2 DEF dayVars
<1>3. QED
  BY <1>1, <1>2

LEMMA LeavesKept ==
  ASSUME AttendanceTypeOK, DayInv, [AttendanceNext]_dayVars,
         NEW l \in Leaves, leave[l].status # "none"
  PROVE  /\ leave'[l].status # "none"
         /\ leave'[l].from = leave[l].from /\ leave'[l].to = leave[l].to
<1> USE DEF AttendanceTypeOK, Leave
<1>1. ASSUME NEW r \in Requests, NEW m \in Leaves, InsertLeave(r, m)
      PROVE  leave'[l] = leave[l]
  BY <1>1 DEF InsertLeave
<1>2. ASSUME NEW r \in Requests, SaveDecision(r)
      PROVE  /\ leave'[l].status # "none"
             /\ leave'[l].from = leave[l].from /\ leave'[l].to = leave[l].to
  <2>1. day[r].on \in Leaves /\ day[r].status \in {"approved", "rejected"}
    BY <1>2 DEF SaveDecision, DayInv, RequestInv
  <2>2. leave' = [leave EXCEPT ![day[r].on] = [leave[day[r].on] EXCEPT !.status = day[r].status]]
    BY <1>2 DEF SaveDecision
  <2>3. QED
    BY <2>1, <2>2
<1>3. QED
  BY <1>1, <1>2, LeaveSteps

LEMMA RedecidedSteps ==
  ASSUME AttendanceTypeOK, [AttendanceNext]_dayVars, NEW l, l \in redecided', l \notin redecided
  PROVE  \E r \in Requests : SaveDecision(r) /\ l = day[r].on
<1> USE DEF Arrives, dayHistory
<1>1. ASSUME NEW r \in Requests, SaveDecision(r) PROVE l = day[r].on
  BY <1>1 DEF SaveDecision
<1>2. CASE AttendanceNext
  BY <1>1, <1>2
     DEF AttendanceNext, Midnight, LeavesService, CheckIn, WriteIn, CheckOut, WriteOut, RequestLeave,
         InsertLeave, DecideLeave, MarkDay, DayDies
<1>3. CASE UNCHANGED dayVars
  BY <1>3 DEF dayVars
<1>4. QED
  BY <1>2, <1>3

LEMMA LeaveInvNext ==
  AttendanceTypeOK /\ LeaveInv /\ DayInv /\ [AttendanceNext]_dayVars => LeaveInv'
<1> SUFFICES ASSUME AttendanceTypeOK, LeaveInv, DayInv, [AttendanceNext]_dayVars PROVE LeaveInv'
  OBVIOUS
<1>0. ASSUME NEW l \in redecided' PROVE leave'[l].status # "none"
  <2>1. CASE l \in redecided
    BY <2>1, LeavesKept DEF LeaveInv, AttendanceTypeOK
  <2>2. CASE l \notin redecided
    <3>1. PICK r \in Requests : SaveDecision(r) /\ l = day[r].on
      BY <1>0, <2>2, RedecidedSteps
    <3>2. l \in Leaves /\ leave[l].status # "none"
      BY <3>1 DEF SaveDecision, DayInv, RequestInv
    <3>3. QED
      BY <3>2, LeavesKept
  <2>3. QED
    BY <2>1, <2>2
<1>1. ASSUME NEW l \in Leaves, leave'[l].status # "none"
      PROVE  leave'[l].from \in Days /\ leave'[l].to \in Days /\ leave'[l].from <= leave'[l].to
  <2>1. CASE leave[l].status # "none"
    BY <2>1, LeavesKept DEF LeaveInv
  <2>2. CASE leave[l].status = "none"
    <3>1. ASSUME NEW r \in Requests, NEW m \in Leaves, InsertLeave(r, m)
          PROVE  day[r].pc = "ask" /\ leave'[l].from = day[r].date /\ leave'[l].to = day[r].to
      BY <1>1, <2>2, <3>1 DEF InsertLeave, AttendanceTypeOK
    <3>2. ASSUME NEW r \in Requests, SaveDecision(r) PROVE FALSE
      <4>1. day[r].on \in Leaves /\ day[r].on # l
        BY <2>2, <3>2 DEF SaveDecision, DayInv, RequestInv
      <4>2. leave'[l] = leave[l]
        BY <3>2, <4>1 DEF SaveDecision, AttendanceTypeOK
      <4>3. QED
        BY <1>1, <2>2, <4>2
    <3>0. PICK r \in Requests, m \in Leaves : InsertLeave(r, m)
      BY <1>1, <2>2, <3>2, LeaveSteps
    <3>3. day[r].pc = "ask" /\ leave'[l].from = day[r].date /\ leave'[l].to = day[r].to
      BY <3>0, <3>1
    <3>4. day[r].date \in Days /\ day[r].to \in Days /\ day[r].date <= day[r].to
      BY <3>3 DEF DayInv, RequestInv
    <3>5. QED
      BY <3>3, <3>4
  <2>3. QED
    BY <2>1, <2>2
<1>2. QED
  BY <1>0, <1>1 DEF LeaveInv, Days

\* Nobody takes back a check-in.
LEMMA CheckInKept ==
  ASSUME AttendanceTypeOK, DayInv, [AttendanceNext]_dayVars, NEW d \in Days, sheet[d].in
  PROVE  sheet'[d].in
<1> USE DEF Arrives, dayHistory
<1>1. CASE sheet' = sheet
  BY <1>1
<1>2. ASSUME NEW r \in Requests, WriteIn(r) PROVE sheet'[d].in
  BY <1>2 DEF WriteIn, AttendanceTypeOK
<1>3. ASSUME NEW r \in Requests, WriteOut(r) PROVE sheet'[d].in
  BY <1>3 DEF WriteOut, AttendanceTypeOK
<1>4. ASSUME NEW r \in Requests, MarkDay(r) PROVE sheet'[d].in
  BY <1>4 DEF MarkDay, AttendanceTypeOK, Sheet
<1>5. \/ sheet' = sheet
      \/ \E r \in Requests : WriteIn(r) \/ WriteOut(r) \/ MarkDay(r)
  <2>1. CASE AttendanceNext
    BY <2>1, Zenon
       DEF AttendanceNext, Midnight, LeavesService, CheckIn, CheckOut, RequestLeave, InsertLeave,
           DecideLeave, SaveDecision, DayDies
  <2>2. CASE UNCHANGED dayVars
    BY <2>2 DEF dayVars
  <2>3. QED
    BY <2>1, <2>2
<1>6. QED
  BY <1>1, <1>2, <1>3, <1>4, <1>5

\* An approval is taken back only by a second decision, which is remembered.
LEMMA ApprovalKept ==
  ASSUME AttendanceTypeOK, DayInv, [AttendanceNext]_dayVars
  PROVE  Approved \cup redecided \subseteq (Approved \cup redecided)'
<1>1. redecided \subseteq redecided'
  <2> USE DEF Arrives, dayHistory
  <2>1. CASE AttendanceNext
    BY <2>1 DEF AttendanceNext, Midnight, LeavesService, CheckIn, WriteIn, CheckOut, WriteOut,
                RequestLeave, InsertLeave, DecideLeave, SaveDecision, MarkDay, DayDies
  <2>2. CASE UNCHANGED dayVars
    BY <2>2 DEF dayVars
  <2>3. QED
    BY <2>1, <2>2
<1>2. ASSUME NEW l \in Approved PROVE l \in (Approved \cup redecided)'
  <2> USE DEF Approved
  <2>1. CASE leave' = leave
    BY <2>1
  <2>2. ASSUME NEW r \in Requests, NEW m \in Leaves, InsertLeave(r, m) PROVE l \in Approved'
    BY <2>2 DEF InsertLeave, AttendanceTypeOK
  <2>3. ASSUME NEW r \in Requests, SaveDecision(r) PROVE l \in (Approved \cup redecided)'
    BY <2>3 DEF SaveDecision, AttendanceTypeOK
  <2>4. QED
    BY <2>1, <2>2, <2>3, LeaveSteps
<1>3. QED
  BY <1>1, <1>2

\* What a request relies on stays true while others act.
LEMMA OthersKeep ==
  ASSUME AttendanceTypeOK, LeaveInv, DayInv, [AttendanceNext]_dayVars,
         NEW o \in Requests, day'[o] = day[o]
  PROVE  RequestInv(o)'
<1>0. day[o] \in DayRequest /\ redecided \subseteq Leaves
  BY DEF AttendanceTypeOK
<1>1. RequestInv(o)
  BY DEF DayInv
<1>2. CASE day[o].pc \in {"idle", "in", "out"}
  BY <1>1, <1>2, CheckInKept DEF RequestInv, Days
<1>3. CASE day[o].pc = "ask"
  <2>1. \A l \in day[o].others : l \in Leaves
    BY <1>0 DEF DayRequest
  <2>2. \A l \in day[o].others :
          leave'[l].status # "none" /\ ~Overlaps(l, day[o].date, day[o].to)'
    BY <1>1, <1>3, <2>1, LeavesKept DEF RequestInv, Overlaps
  <2>3. QED
    BY <1>1, <1>3, <2>2 DEF RequestInv, Overlaps, Days
<1>4. CASE day[o].pc = "decide"
  BY <1>1, <1>4, LeavesKept DEF RequestInv
<1>5. CASE day[o].pc = "mark"
  <2>1. day[o].on \in Leaves
    BY <1>0, <1>1, <1>5 DEF RequestInv, Approved
  <2>2. leave'[day[o].on].status # "none" /\ Covers(day[o].on, day[o].date)'
    BY <1>1, <1>5, <2>1, LeavesKept DEF RequestInv, Covers
  <2>3. day[o].on \in (Approved \cup redecided)'
    BY <1>1, <1>5, ApprovalKept DEF RequestInv
  <2>4. QED
    BY <1>5, <2>2, <2>3 DEF RequestInv
<1>6. QED
  BY <1>0, <1>2, <1>3, <1>4, <1>5 DEF DayRequest

\* A request that arrives, or goes on, changes nobody else.
LEMMA DayInvNext ==
  AttendanceTypeOK /\ LeaveInv /\ DayInv /\ [AttendanceNext]_dayVars => DayInv'
<1> SUFFICES ASSUME AttendanceTypeOK, LeaveInv, DayInv, [AttendanceNext]_dayVars
             PROVE  DayInv'
  OBVIOUS
<1>0. \A o \in Requests : day'[o] = day[o] => RequestInv(o)'
  BY OthersKeep
<1>a. ASSUME NEW r \in Requests, NEW q, day' = [day EXCEPT ![r] = q], day'[r] = q => RequestInv(r)'
      PROVE  DayInv'
  <2>1. \A o \in Requests : o # r => day'[o] = day[o]
    BY <1>a DEF AttendanceTypeOK
  <2>2. day'[r] = q
    BY <1>a DEF AttendanceTypeOK
  <2>3. QED
    BY <1>0, <1>a, <2>1, <2>2, Zenon DEF DayInv
<1>b. ASSUME NEW r \in Requests, day' = [day EXCEPT ![r] = Off] PROVE DayInv'
  <2>1. day'[r] = Off => RequestInv(r)'
    BY DEF RequestInv, Off
  <2>2. QED
    BY <1>a, <1>b, <2>1, Zenon
<1> USE DEF Arrives
<1>1. ASSUME day' = day PROVE DayInv'
  BY <1>0, <1>1 DEF DayInv
<1>2. ASSUME NEW r \in Requests, CheckIn(r) PROVE DayInv'
  BY <1>2, <1>a DEF CheckIn, RequestInv, Off, AttendanceTypeOK
<1>3. ASSUME NEW r \in Requests, WriteIn(r) \/ WriteOut(r) \/ DayDies(r)
      PROVE  DayInv'
  BY <1>3, <1>b DEF WriteIn, WriteOut, DayDies
<1>4. ASSUME NEW r \in Requests, NEW worked \in {"present", "half"}, CheckOut(r, worked)
      PROVE  DayInv'
  BY <1>4, <1>a DEF CheckOut, RequestInv, Off, AttendanceTypeOK
<1>5. ASSUME NEW r \in Requests, NEW from \in Days, NEW to \in Days, RequestLeave(r, from, to)
      PROVE  DayInv'
  <2> DEFINE q == [Off EXCEPT !.pc = "ask", !.date = from, !.to = to, !.others = InForce]
  <2>1. day' = [day EXCEPT ![r] = q] /\ leave' = leave /\ from <= to
    BY <1>5 DEF RequestLeave
  <2>2. \A l \in InForce : leave[l].status # "none" /\ ~Overlaps(l, from, to)
    BY <1>5 DEF RequestLeave, InForce
  <2>3. ASSUME day'[r] = q PROVE RequestInv(r)'
    <3>1. \A l \in InForce : leave'[l].status # "none" /\ ~(Overlaps(l, from, to)')
      BY <2>1, <2>2 DEF Overlaps
    <3>2. /\ day'[r].pc = "ask" /\ day'[r].date = from /\ day'[r].to = to
          /\ day'[r].others = InForce
      BY <2>3 DEF Off
    <3>3. QED
      BY <2>1, <3>1, <3>2 DEF RequestInv, Overlaps, Days
  <2>4. QED
    BY <1>a, <2>1, <2>3, Zenon
<1>6. ASSUME NEW r \in Requests, NEW l \in Leaves, InsertLeave(r, l) PROVE DayInv'
  <2>1. day' = [day EXCEPT ![r] = Off]
    BY <1>6 DEF InsertLeave
  <2>2. QED
    BY <1>b, <2>1, Zenon
<1>7. ASSUME NEW r \in Requests, NEW l \in Leaves, NEW decision \in {"approved", "rejected"},
             DecideLeave(r, l, decision)
      PROVE  DayInv'
  <2> DEFINE q == [Off EXCEPT !.pc = "decide", !.on = l, !.status = decision]
  <2>1. day' = [day EXCEPT ![r] = q] /\ leave' = leave /\ leave[l].status = "pending"
    BY <1>7 DEF DecideLeave
  <2>a. q.pc = "decide" /\ q.on = l /\ q.status = decision
    BY DEF Off
  <2> HIDE DEF q
  <2>2. day'[r] = q => RequestInv(r)'
    BY <2>1, <2>a DEF RequestInv
  <2>3. QED
    BY <1>a, <2>1, <2>2, Zenon
<1>8. ASSUME NEW r \in Requests, SaveDecision(r) PROVE DayInv'
  <2> DEFINE l == day[r].on
             q == [day[r] EXCEPT !.pc = "mark", !.date = leave[l].from]
  <2>1. l \in Leaves /\ leave[l].status # "none"
    BY <1>8 DEF SaveDecision, DayInv, RequestInv
  <2>2. CASE day[r].status = "approved"
    <3>1. day' = [day EXCEPT ![r] = q]
      BY <1>8, <2>2 DEF SaveDecision, MarksSheet
    <3>2. leave'[l].status = "approved" /\ leave'[l].from = leave[l].from /\ leave'[l].to = leave[l].to
      BY <1>8, <2>1, <2>2 DEF SaveDecision, AttendanceTypeOK, Leave
    <3>3. day'[r].pc = "mark" /\ day'[r].on = l /\ day'[r].date = leave[l].from
      BY <3>1 DEF AttendanceTypeOK, DayRequest
    <3>4. leave[l].from \in Days /\ leave[l].to \in Days /\ leave[l].from <= leave[l].to
      BY <2>1 DEF LeaveInv
    <3>5. Covers(day[r].on, leave[l].from)'
      BY <3>2, <3>3, <3>4 DEF Covers, Days
    <3>6. RequestInv(r)'
      BY <2>1, <3>2, <3>3, <3>4 DEF RequestInv, Covers, Approved, Days
    <3>7. QED
      BY <1>a, <3>1, <3>6
  <2>3. CASE day[r].status # "approved"
    BY <1>8, <1>b, <2>3 DEF SaveDecision, MarksSheet
  <2>4. QED
    BY <2>2, <2>3
<1>9. ASSUME NEW r \in Requests, MarkDay(r) PROVE DayInv'
  <2> DEFINE l == day[r].on
             q == [day[r] EXCEPT !.date = day[r].date + 1]
  <2>1. RequestInv(r) /\ day[r].pc = "mark"
    BY <1>9 DEF MarkDay, DayInv
  <2>2. l \in Leaves /\ leave[l].status # "none" /\ Covers(l, day[r].date) /\ l \in Approved \cup redecided
    BY <2>1 DEF RequestInv, Approved, AttendanceTypeOK
  <2>3. CASE MoreDays(day[r].date, leave[l].to)
    <3>1. day' = [day EXCEPT ![r] = q] /\ leave' = leave /\ redecided' = redecided
      BY <1>9, <2>3 DEF MarkDay, dayHistory
    <3>2. day'[r].pc = "mark" /\ day'[r].on = l /\ day'[r].date = day[r].date + 1
      BY <2>1, <3>1 DEF AttendanceTypeOK, DayRequest
    <3>3. /\ leave[l].from \in Days /\ leave[l].to \in Days /\ day[r].date \in Days \cup {0}
      BY <2>2 DEF LeaveInv, AttendanceTypeOK, DayRequest
    <3>4. leave[l].from <= day[r].date + 1 /\ day[r].date + 1 <= leave[l].to
      BY <2>2, <2>3, <3>3 DEF Covers, MoreDays, Days
    <3>5. RequestInv(r)'
      BY <2>2, <3>1, <3>2, <3>4 DEF RequestInv, Covers, Approved
    <3>6. QED
      BY <1>a, <3>1, <3>5
  <2>4. CASE ~MoreDays(day[r].date, leave[l].to)
    BY <1>9, <1>b, <2>4 DEF MarkDay
  <2>5. QED
    BY <2>3, <2>4
<1>10. CASE Midnight \/ LeavesService \/ UNCHANGED dayVars
  BY <1>1, <1>10 DEF Midnight, LeavesService, dayVars
<1>11. QED
  BY <1>2, <1>3, <1>4, <1>5, <1>6, <1>7, <1>8, <1>9, <1>10, Zenon DEF AttendanceNext


\* A day that waits to be marked goes on waiting, or is marked.
LEMMA MarkingInvNext ==
  AttendanceTypeOK /\ LeaveInv /\ DayInv /\ MarkingInv /\ [AttendanceNext]_dayVars => MarkingInv'
<1> DEFINE Marker(l, d) ==
             \E r \in Requests : day[r].pc = "mark" /\ day[r].on = l /\ day[r].date <= d
<1> SUFFICES ASSUME AttendanceTypeOK, LeaveInv, DayInv, MarkingInv, [AttendanceNext]_dayVars,
                    NEW l \in Leaves, leave'[l].status = "approved", l \notin unmarked',
                    NEW d \in Days, Covers(l, d)', sheet'[d].status # "leave", ~sheet'[d].in
             PROVE  Marker(l, d)'
  BY DEF MarkingInv, Days, Approved
<1> USE DEF AttendanceTypeOK, Arrives, dayHistory
<1>0. ~sheet[d].in
  BY CheckInKept
<1>1. ASSUME sheet'[d] = sheet[d], leave'[l] = leave[l], l \notin unmarked,
             \A r \in Requests : day[r].pc = "mark" /\ day[r].on = l => day'[r] = day[r]
      PROVE  Marker(l, d)'
  <2>1. Marker(l, d)
    BY <1>0, <1>1 DEF MarkingInv, Approved, Covers
  <2>2. QED
    BY <1>1, <2>1
<1>2. ASSUME NEW r \in Requests, CheckIn(r) \/ (\E worked \in {"present", "half"} : CheckOut(r, worked))
      PROVE  Marker(l, d)'
  BY <1>1, <1>2 DEF CheckIn, CheckOut
<1>3. ASSUME NEW r \in Requests, \E from, to \in Days : RequestLeave(r, from, to)
      PROVE  Marker(l, d)'
  BY <1>1, <1>3 DEF RequestLeave
<1>4. ASSUME NEW r \in Requests,
             \E m \in Leaves, decision \in {"approved", "rejected"} : DecideLeave(r, m, decision)
      PROVE  Marker(l, d)'
  BY <1>1, <1>4 DEF DecideLeave
<1>5. ASSUME NEW r \in Requests, WriteIn(r) PROVE Marker(l, d)'
  <2>1. d # day[r].date
    BY <1>5 DEF WriteIn
  <2>2. QED
    BY <1>1, <1>5, <2>1 DEF WriteIn
<1>6. ASSUME NEW r \in Requests, WriteOut(r) PROVE Marker(l, d)'
  <2>1. d # day[r].date
    BY <1>0, <1>6 DEF WriteOut, DayInv, RequestInv
  <2>2. QED
    BY <1>1, <1>6, <2>1 DEF WriteOut
<1>7. ASSUME NEW r \in Requests, NEW m \in Leaves, InsertLeave(r, m) PROVE Marker(l, d)'
  <2>1. l # m
    BY <1>7 DEF InsertLeave
  <2>2. QED
    BY <1>1, <1>7, <2>1 DEF InsertLeave
<1>8. ASSUME NEW r \in Requests, SaveDecision(r) PROVE Marker(l, d)'
  <2>1. CASE day[r].on # l
    BY <1>1, <1>8, <2>1 DEF SaveDecision
  <2>2. CASE day[r].on = l
    <3>1. leave' = [leave EXCEPT ![l] = [leave[l] EXCEPT !.status = day[r].status]]
      BY <1>8, <2>2 DEF SaveDecision
    <3>2. day[r].status = "approved" /\ leave'[l].from = leave[l].from
      BY <3>1 DEF Leave
    <3>3. day' = [day EXCEPT ![r] = [day[r] EXCEPT !.pc = "mark", !.date = leave[l].from]]
      BY <1>8, <2>2, <3>2 DEF SaveDecision, MarksSheet
    <3>4. day'[r].pc = "mark" /\ day'[r].on = l /\ day'[r].date = leave[l].from
      BY <2>2, <3>3 DEF DayRequest
    <3>5. leave[l].from <= d
      BY <3>2 DEF Covers
    <3>6. QED
      BY <3>4, <3>5
  <2>3. QED
    BY <2>1, <2>2
<1>9. ASSUME NEW r \in Requests, MarkDay(r) PROVE Marker(l, d)'
  <2>0. RequestInv(r) /\ day[r].pc = "mark"
    BY <1>9 DEF MarkDay, DayInv
  <2>1. sheet'[d] = sheet[d] /\ d # day[r].date
    <3>1. d # day[r].date
      BY <1>9 DEF MarkDay, Sheet
    <3>2. QED
      BY <1>9, <3>1 DEF MarkDay
  <2>2. CASE day[r].on # l
    BY <1>1, <1>9, <2>1, <2>2 DEF MarkDay
  <2>3. CASE day[r].on = l
    <3>1. l \in Approved \ unmarked /\ Covers(l, d)
      BY <1>9 DEF MarkDay, Approved, Covers
    <3>2. PICK o \in Requests : day[o].pc = "mark" /\ day[o].on = l /\ day[o].date <= d
      BY <1>0, <2>1, <3>1 DEF MarkingInv
    <3>3. CASE o # r
      BY <1>9, <3>2, <3>3 DEF MarkDay
    <3>4. CASE o = r
      <4>1. leave[l].from \in Days /\ leave[l].to \in Days /\ day[r].date \in Days \cup {0}
        BY <2>0, <2>3 DEF LeaveInv, RequestInv, DayRequest
      <4>2. day[r].date < d /\ d <= leave[l].to
        BY <2>1, <3>1, <3>2, <3>4, <4>1 DEF Covers, Days
      <4>3. MoreDays(day[r].date, leave[l].to) /\ day[r].date + 1 <= d
        BY <4>1, <4>2 DEF MoreDays, Days
      <4>4. day' = [day EXCEPT ![r] = [day[r] EXCEPT !.date = day[r].date + 1]]
        BY <1>9, <2>3, <4>3 DEF MarkDay
      <4>5. day'[r].pc = "mark" /\ day'[r].on = l /\ day'[r].date = day[r].date + 1
        BY <2>0, <2>3, <4>4 DEF DayRequest
      <4>6. QED
        BY <4>3, <4>5
    <3>5. QED
      BY <3>3, <3>4
  <2>4. QED
    BY <2>2, <2>3
<1>10. ASSUME NEW r \in Requests, DayDies(r) PROVE Marker(l, d)'
  <2>1. l \notin unmarked /\ ~(day[r].pc = "mark" /\ day[r].on = l)
    BY <1>10 DEF DayDies
  <2>2. QED
    BY <1>1, <1>10, <2>1 DEF DayDies
<1>11. CASE Midnight \/ LeavesService \/ UNCHANGED dayVars
  BY <1>1, <1>11 DEF Midnight, LeavesService, dayVars
<1>12. QED
  BY <1>2, <1>3, <1>4, <1>5, <1>6, <1>7, <1>8, <1>9, <1>10, <1>11, Zenon DEF AttendanceNext

LEMMA MarkHasLeaveNext ==
  AttendanceTypeOK /\ LeaveInv /\ DayInv /\ MarkHasLeave /\ [AttendanceNext]_dayVars => MarkHasLeave'
<1> SUFFICES ASSUME AttendanceTypeOK, LeaveInv, DayInv, MarkHasLeave, [AttendanceNext]_dayVars,
                    NEW d \in Days, sheet'[d].status = "leave"
             PROVE  \E l \in Leaves : Covers(l, d)' /\ l \in (Approved \cup redecided)'
  BY DEF MarkHasLeave, Days
<1>0. \A l \in Approved \cup redecided : l \in Leaves
  BY DEF Approved, AttendanceTypeOK
<1>1. ASSUME NEW l \in Approved \cup redecided, leave[l].status # "none", Covers(l, d)
      PROVE  Covers(l, d)' /\ l \in (Approved \cup redecided)'
  BY <1>0, <1>1, LeavesKept, ApprovalKept DEF Covers
<1>2. CASE sheet[d].status = "leave"
  <2>1. PICK l \in Leaves : Covers(l, d) /\ l \in Approved \cup redecided
    BY <1>2 DEF MarkHasLeave
  <2>2. leave[l].status # "none"
    BY <2>1 DEF Approved, LeaveInv
  <2>3. QED
    BY <1>1, <2>1, <2>2
<1>3. CASE sheet[d].status # "leave"
  <2> USE DEF Arrives, dayHistory
  <2>a. ASSUME NEW r \in Requests, WriteIn(r) PROVE FALSE
    BY <1>3, <2>a DEF WriteIn, AttendanceTypeOK
  <2>b. ASSUME NEW r \in Requests, WriteOut(r) PROVE FALSE
    <3>1. day[r].status \in {"none", "present", "half"}
      BY <2>b DEF WriteOut, DayInv, RequestInv
    <3>2. QED
      BY <1>3, <2>b, <3>1 DEF WriteOut, AttendanceTypeOK
  <2>c. ASSUME NEW r \in Requests, MarkDay(r) PROVE day[r].date = d
    BY <1>3, <2>c DEF MarkDay, AttendanceTypeOK
  <2>d. sheet' # sheet
    BY <1>3
  <2>e. AttendanceNext
    BY <2>d DEF dayVars
  <2>1. PICK r \in Requests : MarkDay(r) /\ day[r].date = d
    BY <2>a, <2>b, <2>c, <2>d, <2>e, Zenon
       DEF AttendanceNext, Midnight, LeavesService, CheckIn, CheckOut, RequestLeave, InsertLeave,
           DecideLeave, SaveDecision, DayDies
  <2>2. RequestInv(r) /\ day[r].pc = "mark"
    BY <2>1 DEF MarkDay, DayInv
  <2>3. QED
    BY <1>0, <1>1, <2>1, <2>2 DEF RequestInv
<1>4. QED
  BY <1>2, <1>3

LEMMA LeavesDisjointNext ==
  AttendanceTypeOK /\ LeaveInv /\ DayInv /\ LeavesDisjoint /\ [AttendanceNext]_dayVars
    => LeavesDisjoint'
<1> SUFFICES ASSUME AttendanceTypeOK, LeaveInv, DayInv, LeavesDisjoint, [AttendanceNext]_dayVars,
                    NEW l \in Leaves, NEW m \in Leaves, NEW d \in Days,
                    l \in InForce', m \in InForce', l # m, Covers(l, d)', Covers(m, d)',
                    {l, m} \cap (blind \cup redecided)' = {}
             PROVE  FALSE
  BY DEF LeavesDisjoint, Days, InForce
<1> USE DEF AttendanceTypeOK, InForce
<1>1. blind \subseteq blind' /\ redecided \subseteq redecided'
  <2> USE DEF Arrives, dayHistory
  <2>1. CASE AttendanceNext
    BY <2>1 DEF AttendanceNext, Midnight, LeavesService, CheckIn, WriteIn, CheckOut, WriteOut,
                RequestLeave, InsertLeave, DecideLeave, SaveDecision, MarkDay, DayDies
  <2>2. CASE UNCHANGED dayVars
    BY <2>2 DEF dayVars
  <2>3. QED
    BY <2>1, <2>2
<1>2. ASSUME l \in InForce, m \in InForce PROVE FALSE
  BY <1>1, <1>2, LeavesKept DEF LeavesDisjoint, Covers
<1>3. ASSUME NEW r \in Requests, SaveDecision(r) PROVE FALSE
  <2>1. ASSUME NEW k \in {l, m}, k \notin InForce PROVE FALSE
    <3>1. k = day[r].on /\ leave[k].status # "pending"
      BY <1>3, <2>1 DEF SaveDecision
    <3>2. k \in redecided'
      BY <1>3, <3>1 DEF SaveDecision
    <3>3. QED
      BY <3>2
  <2>2. QED
    BY <1>2, <2>1
<1>4. ASSUME NEW r \in Requests, NEW k \in {l, m}, NEW n \in {l, m} \ {k}, InsertLeave(r, k)
      PROVE  FALSE
  <2>1. n \in InForce /\ leave'[n] = leave[n]
    BY <1>4 DEF InsertLeave
  <2>2. InForce \subseteq day[r].others
    BY <1>4 DEF InsertLeave
  <2>3. ~Overlaps(n, day[r].date, day[r].to)
    BY <1>4, <2>1, <2>2 DEF InsertLeave, DayInv, RequestInv
  <2>4. leave'[k].from = day[r].date /\ leave'[k].to = day[r].to
    BY <1>4 DEF InsertLeave
  <2>5. /\ leave[n].from \in Days /\ leave[n].to \in Days
        /\ day[r].date \in Days /\ day[r].to \in Days
    BY <1>4, <2>1 DEF InsertLeave, DayInv, RequestInv, LeaveInv
  <2>6. day[r].date <= d /\ d <= day[r].to /\ leave[n].from <= d /\ d <= leave[n].to
    BY <2>1, <2>4 DEF Covers
  <2>7. QED
    BY <2>3, <2>5, <2>6 DEF Overlaps, Days
<1>5. ASSUME NEW r \in Requests, NEW k \in Leaves \ {l, m}, InsertLeave(r, k) PROVE FALSE
  <2>1. leave'[l] = leave[l] /\ leave'[m] = leave[m]
    BY <1>5 DEF InsertLeave
  <2>2. QED
    BY <1>2, <2>1
<1>6. CASE leave' = leave
  BY <1>2, <1>6
<1>7. QED
  BY <1>3, <1>4, <1>5, <1>6, LeaveSteps

LEMMA AttendanceNextInv == AttendanceIInv /\ [AttendanceNext]_dayVars => AttendanceIInv'
BY AttendanceTypeNext, LeaveInvNext, DayInvNext, MarkingInvNext, MarkHasLeaveNext,
   LeavesDisjointNext, Zenon DEF AttendanceIInv

\* The inductive invariant of attendance holds in every reachable state.
THEOREM AttendanceInvariance == AttendanceSpec => []AttendanceIInv
BY AttendanceInitInv, AttendanceNextInv, PTL DEF AttendanceSpec

\* attendance.service.ts 174-182: however decisions, check-ins and deaths
\* interleave, every day of an approved leave gets its mark.
THEOREM ApprovedIsMarked == AttendanceSpec => []LeaveIsMarked
<1>1. AttendanceIInv => LeaveIsMarked
  BY DEF AttendanceIInv, MarkingInv, LeaveIsMarked
<1>2. QED
  BY <1>1, AttendanceInvariance, PTL

\* Lines 162-172: no mark without an approval, but for a leave decided twice.
THEOREM MarksAreApproved == AttendanceSpec => []MarkHasLeave
<1>1. AttendanceIInv => MarkHasLeave
  BY DEF AttendanceIInv
<1>2. QED
  BY <1>1, AttendanceInvariance, PTL

\* Lines 135-143: leaves in force never share a day, but for the two races.
THEOREM LeavesNeverOverlap == AttendanceSpec => []LeavesDisjoint
<1>1. AttendanceIInv => LeavesDisjoint
  BY DEF AttendanceIInv
<1>2. QED
  BY <1>1, AttendanceInvariance, PTL

(***************************************************************************)
(* Employment.                                                             *)
(***************************************************************************)

\* What a request holds makes sense by itself: it asks for a status, a settled
\* exit has an amount, every field that differs is written, and a checklist it
\* read existed and was recomputed.
Sound(q) ==
  /\ q.pc \in {"ask", "write"} => q.to \in EmployeeStatus
  /\ q.pc \in {"ask", "write"} /\ q.then = "save" => q.to = "exited" /\ q.newExit.status = "settled"
  /\ q.pc = "save" \/ q.then = "save" => q.exit # None
  /\ q.exit # None =>
       /\ q.exit \in Exits /\ q.pc \in {"ask", "write", "save"}
       /\ q.oldExit.status \in Open /\ q.newExit.status \in Open \cup {"settled"}
       /\ q.newExit.status = "settled" => "amount" \in q.newExit.has
       /\ (q.oldExit.has \ q.newExit.has) \cup (q.newExit.has \ q.oldExit.has) \subseteq q.writes
  /\ q.pc = "tick" => q.old.status # "none" /\ q.new.status = Recomputed(q.new.done)

HrDocuments ==
  /\ emp \in EmployeeStatus \cup {"none", "removed"}
  /\ board \in Checklist
  /\ exits \in [Exits -> ExitRecord]
HrFlight == hr \in [Requests -> HrRequest] /\ \A r \in Requests : Sound(hr[r])
HrCounted ==
  /\ hrCalls \in 0..MaxHrCalls
  /\ refused \subseteq EmployeeStatus \X EmployeeStatus
  /\ hrStale \subseteq Requests /\ hrRaced \in BOOLEAN /\ hrDied \in BOOLEAN

HrType == HrDocuments /\ HrFlight /\ HrCounted

LEMMA HrTypeParts == HrType => EmploymentTypeOK
BY Zenon DEF HrType, HrDocuments, HrFlight, HrCounted, EmploymentTypeOK

LEMMA FreeType == Free \in HrRequest /\ Sound(Free)
<1>1. Free \in HrRequest
  BY DEF Free, HrRequest, NoBoard, Checklist, NoExit, ExitRecord
<1>2. Sound(Free)
  BY DEF Free, Sound
<1>3. QED
  BY <1>1, <1>2

\* One request goes on to q.
LEMMA HrFlightNext ==
  ASSUME HrFlight, NEW r \in Requests, NEW q \in HrRequest, Sound(q), hr' = [hr EXCEPT ![r] = q]
  PROVE  HrFlight'
<1>1. hr' \in [Requests -> HrRequest] /\ \A o \in Requests : hr'[o] = IF o = r THEN q ELSE hr[o]
  BY DEF HrFlight
<1>2. \A o \in Requests : Sound(hr'[o])
  BY <1>1 DEF HrFlight
<1>3. QED
  BY <1>1, <1>2 DEF HrFlight, Sound, Recomputed

LEMMA BeginsType ==
  ASSUME HrType, NEW r \in Requests, NEW q \in HrRequest, Sound(q), Begins(r, q)
  PROVE  HrType'
<1>1. HrFlight'
  BY HrFlightNext DEF Begins, HrType
<1>2. HrDocuments'
  BY DEF Begins, HrType, HrDocuments
<1>3. hrCalls' \in 0..MaxHrCalls
  BY EmploymentAssumption DEF Begins, HrType, HrCounted
<1>4. HrCounted'
  BY <1>3, Zenon DEF Begins, HrType, HrCounted, hrHistory
<1>5. QED
  BY <1>1, <1>2, <1>4 DEF HrType

\* The request comes back from the update, or is through.
LEMMA ReturnedType ==
  ASSUME NEW q \in HrRequest, Sound(q), q.pc \in {"ask", "write"}
  PROVE  Returned(q) \in HrRequest /\ Sound(Returned(q))
<1>1. CASE q.then = "save"
  <2>1. [q EXCEPT !.pc = "save"] \in HrRequest
    BY DEF HrRequest
  <2>2. Sound([q EXCEPT !.pc = "save"])
    BY <1>1 DEF HrRequest, Sound
  <2>3. QED
    BY <1>1, <2>1, <2>2 DEF Returned
<1>2. CASE q.then # "save"
  BY <1>2, FreeType DEF Returned
<1>3. QED
  BY <1>1, <1>2

LEMMA WroteType ==
  ASSUME HrCounted, NEW r \in Requests, NEW doc, Wrote(r, doc),
         UNCHANGED <<refused, hrDied, hrCalls>>
  PROVE  HrCounted'
<1>1. hrStale' \subseteq Requests
  BY DEF Wrote, Overtaken, HrCounted
<1>2. hrRaced' \in BOOLEAN
  BY Zenon DEF Wrote, HrCounted
<1>3. QED
  BY <1>1, <1>2, Zenon DEF HrCounted

\* What UpdateExit begins is a request that makes sense.
LEMMA UpdateExitSound ==
  ASSUME NEW r \in Requests, NEW x \in Exits, UpdateExit(r, x), exits[x] \in ExitRecord
  PROVE  \E q \in HrRequest : /\ Sound(q) /\ Begins(r, q)
                              /\ q.pc \in {"ask", "save"} /\ q.exit = x /\ q.oldExit = exits[x]
                              /\ q.pc = "save" => q.newExit.status # "settled"
<1>1. PICK has \in SUBSET Fields, asked \in Open \cup {"settled", None} :
        LET e == exits[x]
            changed == (e.has \ has) \cup (has \ e.has)
            status  == IF asked # None THEN asked
                       ELSE IF Marks \subseteq has /\ e.status = "notice" THEN "cleared" ELSE e.status
        IN
        /\ asked # None => GatesPass(e.status, asked, has)
        /\ \E again \in SUBSET ((Fields \cap Replaced) \ changed) :
             Begins(r, [Free EXCEPT !.pc = IF status = "settled" THEN "ask" ELSE "save",
                                    !.then = "save", !.to = IF status = "settled" THEN "exited" ELSE None,
                                    !.exit = x, !.oldExit = e, !.newExit = [status |-> status, has |-> has],
                                    !.writes = changed \cup again])
  BY Zenon DEF UpdateExit
<1> DEFINE e == exits[x]
           changed == (e.has \ has) \cup (has \ e.has)
           status  == IF asked # None THEN asked
                      ELSE IF Marks \subseteq has /\ e.status = "notice" THEN "cleared" ELSE e.status
<1>2. PICK again \in SUBSET ((Fields \cap Replaced) \ changed) :
        Begins(r, [Free EXCEPT !.pc = IF status = "settled" THEN "ask" ELSE "save",
                               !.then = "save", !.to = IF status = "settled" THEN "exited" ELSE None,
                               !.exit = x, !.oldExit = e, !.newExit = [status |-> status, has |-> has],
                               !.writes = changed \cup again])
  BY <1>1, Zenon
<1>3. e.status \in Open /\ e \in ExitRecord
  BY DEF UpdateExit
<1>4. status \in Open \cup {"settled"} /\ (status = "settled" => "amount" \in has)
  BY <1>1, <1>3 DEF Open, GatesPass
<1>5. changed \subseteq Fields /\ again \subseteq Fields /\ [status |-> status, has |-> has] \in ExitRecord
  BY <1>3, <1>4 DEF ExitRecord, Open
<1> HIDE DEF status, changed
<1> DEFINE q == [Free EXCEPT !.pc = IF status = "settled" THEN "ask" ELSE "save",
                             !.then = "save", !.to = IF status = "settled" THEN "exited" ELSE None,
                             !.exit = x, !.oldExit = e, !.newExit = [status |-> status, has |-> has],
                             !.writes = changed \cup again]
<1>6. q \in HrRequest
  BY <1>3, <1>5, FreeType DEF HrRequest, EmployeeStatus
<1>7. x # None
  BY EmploymentAssumption
<1>8. changed \subseteq q.writes
  BY DEF Free
<1>9. /\ q.pc \in {"ask", "save"} /\ q.exit = x /\ q.oldExit = e /\ q.then = "save"
      /\ q.newExit.status = status /\ q.newExit.has = has
      /\ q.pc = "ask" => q.to = "exited" /\ status = "settled"
      /\ q.pc = "save" => status # "settled"
  BY DEF Free
<1> HIDE DEF q
<1>10. (q.oldExit.has \ q.newExit.has) \cup (q.newExit.has \ q.oldExit.has) \subseteq q.writes
  BY <1>8, <1>9 DEF changed
<1>11. Sound(q)
  BY <1>3, <1>4, <1>7, <1>9, <1>10 DEF Sound, EmployeeStatus
<1>12. QED
  BY <1>2, <1>6, <1>9, <1>11, Zenon DEF q

LEMMA EmploymentTypeNext == HrType /\ [EmploymentNext]_hrVars => HrType'
<1> SUFFICES ASSUME HrType, HrDocuments, HrFlight, HrCounted, [EmploymentNext]_hrVars
             PROVE  HrType'
  BY DEF HrType
<1> USE FreeType, EmploymentAssumption
<1>1. ASSUME NEW s \in EmployeeStatus, CreateEmployee(s) PROVE HrType'
  <2>1. HrDocuments'
    BY <1>1 DEF CreateEmployee, HrDocuments
  <2>2. HrFlight' /\ HrCounted'
    BY <1>1, Zenon DEF CreateEmployee, HrFlight, HrCounted, hrHistory, Sound, Recomputed
  <2>3. QED
    BY <2>1, <2>2 DEF HrType
<1>2. CASE GetOnboarding
  <2>1. HrDocuments'
    BY <1>2 DEF GetOnboarding, HrDocuments, Checklist
  <2>2. HrFlight' /\ HrCounted'
    BY <1>2, Zenon DEF GetOnboarding, HrFlight, HrCounted, hrHistory, Sound, Recomputed
  <2>3. QED
    BY <2>1, <2>2 DEF HrType
<1>3. ASSUME NEW r \in Requests, NEW s \in EmployeeStatus, UpdateEmployee(r, s) PROVE HrType'
  <2> DEFINE q == [Free EXCEPT !.pc = "write", !.to = s]
  <2>1. q \in HrRequest
    BY DEF HrRequest
  <2>2. Sound(q)
    BY DEF Sound, Free
  <2>3. QED
    BY <1>3, <2>1, <2>2, BeginsType DEF UpdateEmployee
<1>4. ASSUME NEW r \in Requests, RemoveEmployee(r) PROVE HrType'
  <2> DEFINE q == [Free EXCEPT !.pc = "delete"]
  <2>1. q \in HrRequest
    BY DEF HrRequest
  <2>2. Sound(q)
    BY DEF Sound, Free
  <2>3. QED
    BY <1>4, <2>1, <2>2, BeginsType DEF RemoveEmployee
<1>5. ASSUME NEW r \in Requests, WriteEmployee(r) PROVE HrType'
  <2>1. hr[r] \in HrRequest /\ Sound(hr[r]) /\ hr[r].pc = "write"
    BY <1>5 DEF WriteEmployee, HrFlight
  <2>2. HrFlight'
    BY <1>5, <2>1, ReturnedType, HrFlightNext DEF WriteEmployee
  <2>3. HrDocuments'
    BY <1>5, <2>1 DEF WriteEmployee, HrDocuments, Sound
  <2>4. HrCounted'
    BY <1>5, WroteType DEF WriteEmployee
  <2>5. QED
    BY <2>2, <2>3, <2>4 DEF HrType
<1>6. ASSUME NEW r \in Requests, DeleteEmployee(r) PROVE HrType'
  <2>1. HrFlight'
    BY <1>6, HrFlightNext DEF DeleteEmployee
  <2>2. HrDocuments'
    BY <1>6 DEF DeleteEmployee, HrDocuments
  <2>3. HrCounted'
    BY <1>6, WroteType DEF DeleteEmployee
  <2>4. QED
    BY <2>1, <2>2, <2>3 DEF HrType
<1>7. ASSUME NEW r \in Requests, Ask(r) PROVE HrType'
  <2>1. hr[r] \in HrRequest /\ Sound(hr[r]) /\ hr[r].pc = "ask"
    BY <1>7 DEF Ask, HrFlight
  <2>2. HrDocuments'
    BY <1>7 DEF Ask, HrDocuments
  <2>3. CASE Employed /\ MayMove(emp, hr[r].to)
    <3>1. [hr[r] EXCEPT !.pc = "write"] \in HrRequest /\ Sound([hr[r] EXCEPT !.pc = "write"])
      BY <2>1 DEF HrRequest, Sound
    <3>2. HrFlight'
      BY <1>7, <2>3, <3>1, HrFlightNext DEF Ask
    <3>3. HrCounted'
      BY <1>7, <2>3, Zenon DEF Ask, HrCounted
    <3>4. QED
      BY <2>2, <3>2, <3>3 DEF HrType
  <2>4. CASE ~(Employed /\ MayMove(emp, hr[r].to))
    <3>1. HrFlight'
      BY <1>7, <2>1, <2>4, ReturnedType, HrFlightNext DEF Ask
    <3>2. refused' \subseteq EmployeeStatus \X EmployeeStatus
      <4>1. hr[r].to \in EmployeeStatus
        BY <2>1 DEF Sound
      <4>2. CASE Employed
        <5>1. refused' = refused \cup {<<emp, hr[r].to>>} /\ emp \in EmployeeStatus
          BY <1>7, <2>4, <4>2, Zenon DEF Ask, Employed
        <5>2. QED
          BY <4>1, <5>1 DEF HrCounted
      <4>3. CASE ~Employed
        BY <1>7, <2>4, <4>3 DEF Ask, HrCounted
      <4>4. QED
        BY <4>2, <4>3
    <3>3. hrStale' \subseteq Requests
      BY <1>7, <2>4 DEF Ask, HrCounted
    <3>4. HrCounted'
      BY <1>7, <3>2, <3>3, Zenon DEF Ask, HrCounted
    <3>5. QED
      BY <2>2, <3>1, <3>4 DEF HrType
  <2>5. QED
    BY <2>3, <2>4
<1>8. ASSUME NEW r \in Requests, NEW i \in Items, NEW ticked \in BOOLEAN, ToggleChecklist(r, i, ticked)
      PROVE  HrType'
  <2> DEFINE done == IF ticked THEN board.done \cup {i} ELSE board.done \ {i}
             q == [Free EXCEPT !.pc = "tick", !.old = board,
                               !.new = [status |-> Recomputed(done), done |-> done]]
  <2>1. [status |-> Recomputed(done), done |-> done] \in Checklist
    BY DEF HrDocuments, Checklist, Recomputed
  <2>2. q \in HrRequest
    BY <2>1 DEF HrRequest, HrDocuments
  <2>3. Sound(q)
    BY <1>8 DEF ToggleChecklist, Sound, Free
  <2>4. QED
    BY <1>8, <2>2, <2>3, BeginsType DEF ToggleChecklist
<1>9. ASSUME NEW r \in Requests, SaveChecklist(r) PROVE HrType'
  <2>1. hr[r] \in HrRequest
    BY DEF HrFlight
  <2>2. HrDocuments'
    BY <1>9, <2>1 DEF SaveChecklist, HrDocuments, HrRequest, Checklist, Saved, SavedSet
  <2>3. [Free EXCEPT !.pc = "ask", !.to = "active"] \in HrRequest
    BY DEF HrRequest, EmployeeStatus
  <2>4. Sound([Free EXCEPT !.pc = "ask", !.to = "active"])
    BY DEF Free, Sound, EmployeeStatus
  <2>5. HrFlight'
    BY <1>9, <2>3, <2>4, HrFlightNext DEF SaveChecklist
  <2>6. HrCounted'
    BY <1>9, WroteType DEF SaveChecklist
  <2>7. QED
    BY <2>2, <2>5, <2>6 DEF HrType
<1>10. ASSUME NEW r \in Requests, CreateExit(r) PROVE HrType'
  <2> DEFINE q == [Free EXCEPT !.pc = "file"]
  <2>1. q \in HrRequest
    BY DEF HrRequest
  <2>2. Sound(q)
    BY DEF Sound, Free
  <2>3. QED
    BY <1>10, <2>1, <2>2, BeginsType DEF CreateExit
<1>11. ASSUME NEW r \in Requests, NEW x \in Exits, FileExit(r, x) PROVE HrType'
  <2>1. HrDocuments'
    BY <1>11 DEF FileExit, HrDocuments, ExitRecord, Open
  <2>2. [Free EXCEPT !.pc = "ask", !.to = "on_notice"] \in HrRequest
    BY DEF HrRequest, EmployeeStatus
  <2>3. Sound([Free EXCEPT !.pc = "ask", !.to = "on_notice"])
    BY DEF Free, Sound, EmployeeStatus
  <2>4. HrFlight'
    BY <1>11, <2>2, <2>3, HrFlightNext DEF FileExit
  <2>5. HrCounted'
    BY <1>11, WroteType DEF FileExit
  <2>6. QED
    BY <2>1, <2>4, <2>5 DEF HrType
<1>12. ASSUME NEW r \in Requests, NEW x \in Exits, UpdateExit(r, x) PROVE HrType'
  <2>1. exits[x] \in ExitRecord /\ exits[x].status \in Open
    BY <1>12 DEF UpdateExit, HrDocuments
  <2>2. PICK q \in HrRequest : Sound(q) /\ Begins(r, q)
    BY <1>12, <2>1, UpdateExitSound
  <2>3. QED
    BY <2>2, BeginsType
<1>13. ASSUME NEW r \in Requests, SaveExit(r) PROVE HrType'
  <2>1. hr[r] \in HrRequest /\ Sound(hr[r]) /\ hr[r].exit \in Exits
    BY <1>13 DEF SaveExit, HrFlight, Sound
  <2>2. HrDocuments'
    BY <1>13, <2>1 DEF SaveExit, HrDocuments, HrRequest, ExitRecord, Saved
  <2>3. HrFlight'
    BY <1>13, HrFlightNext DEF SaveExit
  <2>4. HrCounted'
    BY <1>13, WroteType DEF SaveExit
  <2>5. QED
    BY <2>2, <2>3, <2>4 DEF HrType
<1>14. ASSUME NEW r \in Requests, HrDies(r) PROVE HrType'
  <2>1. HrFlight'
    BY <1>14, HrFlightNext DEF HrDies
  <2>2. HrDocuments'
    BY <1>14 DEF HrDies, HrDocuments
  <2>3. hrStale' \subseteq Requests
    BY <1>14 DEF HrDies, HrCounted
  <2>4. hrDied' \in BOOLEAN
    BY <1>14, Zenon DEF HrDies, HrCounted
  <2>5. HrCounted'
    BY <1>14, <2>3, <2>4, Zenon DEF HrDies, HrCounted
  <2>6. QED
    BY <2>1, <2>2, <2>5 DEF HrType
<1>15. CASE UNCHANGED hrVars
  <2>1. HrDocuments' /\ HrFlight' /\ HrCounted'
    BY <1>15, Zenon DEF hrVars, hrHistory, HrDocuments, HrFlight, HrCounted, Sound, Recomputed
  <2>2. QED
    BY <2>1 DEF HrType
<1>16. QED
  BY <1>1, <1>2, <1>3, <1>4, <1>5, <1>6, <1>7, <1>8, <1>9, <1>10, <1>11, <1>12, <1>13, <1>14, <1>15,
     Zenon DEF EmploymentNext

\* Before there is an employee nothing is asked of one.
NotYet ==
  emp = "none" => /\ board = NoBoard
                  /\ \A x \in Exits : exits[x].status = "none"
                  /\ \A r \in Requests : hr[r].pc = "idle"

\* What a request read still holds when nobody has overwritten it.
Holds(r) ==
  /\ hr[r].pc = "tick" => hr[r].old = board
  /\ hr[r].pc = "file" => ~OpenExitExists
  /\ hr[r].exit # None => hr[r].oldExit = exits[hr[r].exit]
  /\ hr[r].pc = "write" => Employed /\ MayMove(emp, hr[r].to)
ReadingHolds == ~hrRaced => \A r \in Requests \ hrStale : Holds(r)

\* A complete checklist is about to make the employee active, or has.
OnTheWay(r) == hr[r].pc \in {"ask", "write"} /\ hr[r].to = "active"
ActiveFollows ==
  ~hrRaced /\ ~hrDied /\ board.status = "complete" /\ emp = "onboarding" =>
    \E r \in Requests : OnTheWay(r)

\* An exit is settled only after the employee was asked to leave.
Leaving == (\E x \in Exits : exits[x].status = "settled")
           \/ (\E r \in Requests : hr[r].pc = "save" /\ hr[r].newExit.status = "settled")
Told == emp \in {"exited", "removed"} \/ <<"onboarding", "exited">> \in refused
SettledTold == ~hrRaced /\ Leaving => Told

HrIInv == HrType /\ NotYet /\ ReadingHolds /\ RecordsAgree /\ ActiveFollows /\ SettledTold

LEMMA HrInitInv == EmploymentInit => HrIInv
<1> SUFFICES ASSUME EmploymentInit PROVE HrIInv
  OBVIOUS
<1> USE FreeType, EmploymentAssumption DEF EmploymentInit
<1>1. HrDocuments
  BY DEF HrDocuments, NoBoard, NoExit, Checklist, ExitRecord
<1>2. HrFlight
  <2>1. hr \in [Requests -> HrRequest] /\ \A r \in Requests : hr[r] = Free
    OBVIOUS
  <2>2. \A r \in Requests : Sound(hr[r])
    BY <2>1, Zenon
  <2>3. QED
    BY <2>1, <2>2 DEF HrFlight
<1>3. HrCounted
  <2>1. hrCalls \in 0..MaxHrCalls /\ refused \subseteq EmployeeStatus \X EmployeeStatus /\ hrStale \subseteq Requests
    OBVIOUS
  <2>2. hrRaced \in BOOLEAN /\ hrDied \in BOOLEAN
    BY Zenon
  <2>3. QED
    BY <2>1, <2>2, Zenon DEF HrCounted
<1>4. \A r \in Requests : hr[r].pc = "idle" /\ hr[r].exit = None
  <2>1. \A r \in Requests : hr[r] = Free
    OBVIOUS
  <2>2. Free.pc = "idle" /\ Free.exit = None
    BY Zenon DEF Free
  <2>3. QED
    BY <2>1, <2>2, Zenon
<1>5. NotYet
  BY <1>4 DEF NotYet, NoExit
<1>6. ReadingHolds
  BY <1>4 DEF ReadingHolds, Holds
<1>7. RecordsAgree
  BY DEF RecordsAgree, NoBoard, NoExit, Open
<1>8. ActiveFollows /\ SettledTold
  BY <1>4 DEF ActiveFollows, SettledTold, Leaving, NoExit
<1>9. QED
  BY <1>1, <1>2, <1>3, <1>5, <1>6, <1>7, <1>8 DEF HrIInv, HrType

\* A step that begins a request leaves the documents and the history alone.
LEMMA BeginsSteps ==
  ASSUME HrFlight, NEW r \in Requests, NEW q \in HrRequest, Begins(r, q)
  PROVE  /\ hr[r].pc = "idle" /\ hr'[r] = q
         /\ \A o \in Requests \ {r} : hr'[o] = hr[o]
         /\ UNCHANGED <<emp, board, exits, refused, hrStale, hrRaced, hrDied>>
<1>1. hr' = [hr EXCEPT ![r] = q] /\ hr[r].pc = "idle"
  BY DEF Begins
<1>2. hr'[r] = q /\ \A o \in Requests \ {r} : hr'[o] = hr[o]
  BY <1>1 DEF HrFlight
<1>3. UNCHANGED <<emp, board, exits, refused, hrStale, hrRaced, hrDied>>
  BY Zenon DEF Begins, hrHistory
<1>4. QED
  BY <1>1, <1>2, <1>3

\* The requests that are begun, as one action: nothing but hr and hrCalls changes,
\* and what the new request holds is true of the documents now.
BegunHr(r, q) ==
  /\ Begins(r, q) /\ Sound(q)
  /\ Holds(r)'
  /\ Employed \/ board.status # "none" \/ \E x \in Exits : exits[x].status # "none"
  /\ q.pc = "save" => q.newExit.status # "settled"

LEMMA HrBegins ==
  ASSUME HrType, NEW r \in Requests,
         \/ \E s \in EmployeeStatus : UpdateEmployee(r, s)
         \/ RemoveEmployee(r)
         \/ \E i \in Items, ticked \in BOOLEAN : ToggleChecklist(r, i, ticked)
         \/ CreateExit(r)
         \/ \E x \in Exits : UpdateExit(r, x)
  PROVE  \E q \in HrRequest : BegunHr(r, q)
<1> USE EmploymentAssumption
<1>0. HrFlight /\ HrDocuments
  BY DEF HrType
<1>1. ASSUME NEW s \in EmployeeStatus, UpdateEmployee(r, s) PROVE \E q \in HrRequest : BegunHr(r, q)
  <2> DEFINE q == [Free EXCEPT !.pc = "write", !.to = s]
  <2>1. q \in HrRequest
    BY FreeType DEF HrRequest
  <2>2. q.pc = "write" /\ q.to = s /\ q.exit = None /\ q.then = "idle"
    BY DEF Free
  <2>3. Begins(r, q)
    BY <1>1 DEF UpdateEmployee
  <2> HIDE DEF q
  <2>4. hr'[r] = q /\ UNCHANGED <<emp, board, exits>>
    BY <1>0, <2>1, <2>3, BeginsSteps
  <2>5. Sound(q)
    BY <2>2 DEF Sound
  <2>6. Holds(r)'
    BY <1>1, <2>2, <2>4 DEF Holds, UpdateEmployee, Employed, MayMove
  <2>7. QED
    BY <1>1, <2>1, <2>2, <2>3, <2>5, <2>6 DEF BegunHr, UpdateEmployee
<1>2. ASSUME RemoveEmployee(r) PROVE \E q \in HrRequest : BegunHr(r, q)
  <2> DEFINE q == [Free EXCEPT !.pc = "delete"]
  <2>1. q \in HrRequest
    BY FreeType DEF HrRequest
  <2>2. q.pc = "delete" /\ q.exit = None /\ q.then = "idle"
    BY DEF Free
  <2>3. Begins(r, q) /\ Employed
    BY <1>2 DEF RemoveEmployee, Deletable, Employed
  <2> HIDE DEF q
  <2>4. hr'[r] = q
    BY <1>0, <2>1, <2>3, BeginsSteps
  <2>5. Sound(q) /\ Holds(r)'
    BY <2>2, <2>4 DEF Sound, Holds
  <2>6. QED
    BY <2>1, <2>2, <2>3, <2>5 DEF BegunHr
<1>3. ASSUME NEW i \in Items, NEW ticked \in BOOLEAN, ToggleChecklist(r, i, ticked)
      PROVE  \E q \in HrRequest : BegunHr(r, q)
  <2> DEFINE done == IF ticked THEN board.done \cup {i} ELSE board.done \ {i}
             q == [Free EXCEPT !.pc = "tick", !.old = board,
                               !.new = [status |-> Recomputed(done), done |-> done]]
  <2>1. [status |-> Recomputed(done), done |-> done] \in Checklist
    BY <1>0 DEF HrDocuments, Checklist, Recomputed
  <2>2. q \in HrRequest
    BY <1>0, <2>1, FreeType DEF HrRequest, HrDocuments
  <2>3. q.pc = "tick" /\ q.exit = None /\ q.then = "idle" /\ q.old = board /\ q.new.status = Recomputed(q.new.done)
    BY DEF Free
  <2>4. Begins(r, q) /\ board.status # "none"
    BY <1>3 DEF ToggleChecklist
  <2> HIDE DEF q
  <2>5. hr'[r] = q /\ UNCHANGED <<emp, board, exits>>
    BY <1>0, <2>2, <2>4, BeginsSteps
  <2>6. Sound(q) /\ Holds(r)'
    BY <2>3, <2>4, <2>5 DEF Sound, Holds
  <2>7. QED
    BY <2>2, <2>3, <2>4, <2>6 DEF BegunHr
<1>4. ASSUME CreateExit(r) PROVE \E q \in HrRequest : BegunHr(r, q)
  <2> DEFINE q == [Free EXCEPT !.pc = "file"]
  <2>1. q \in HrRequest
    BY FreeType DEF HrRequest
  <2>2. q.pc = "file" /\ q.exit = None /\ q.then = "idle"
    BY DEF Free
  <2>3. Begins(r, q) /\ Employed /\ ~OpenExitExists
    BY <1>4 DEF CreateExit
  <2> HIDE DEF q
  <2>4. hr'[r] = q /\ UNCHANGED <<emp, board, exits>>
    BY <1>0, <2>1, <2>3, BeginsSteps
  <2>5. Sound(q) /\ Holds(r)'
    BY <2>2, <2>3, <2>4 DEF Sound, Holds, OpenExitExists
  <2>6. QED
    BY <2>1, <2>2, <2>3, <2>5 DEF BegunHr
<1>5. ASSUME NEW x \in Exits, UpdateExit(r, x) PROVE \E q \in HrRequest : BegunHr(r, q)
  <2>1. exits[x] \in ExitRecord /\ exits[x].status # "none"
    BY <1>0, <1>5 DEF UpdateExit, HrDocuments, Open
  <2>2. PICK q \in HrRequest : /\ Sound(q) /\ Begins(r, q)
                               /\ q.pc \in {"ask", "save"} /\ q.exit = x /\ q.oldExit = exits[x]
                               /\ q.pc = "save" => q.newExit.status # "settled"
    BY <1>5, <2>1, UpdateExitSound
  <2>3. hr'[r] = q /\ UNCHANGED <<emp, board, exits>>
    BY <1>0, <2>2, BeginsSteps
  <2>4. Holds(r)'
    BY <2>2, <2>3 DEF Holds
  <2>5. QED
    BY <2>1, <2>2, <2>4 DEF BegunHr
<1>6. QED
  BY <1>1, <1>2, <1>3, <1>4, <1>5

\* What a step of the specification is, the beginnings of requests taken together.
LEMMA HrSteps ==
  ASSUME HrType, [EmploymentNext]_hrVars
  PROVE  \/ \E s \in EmployeeStatus : CreateEmployee(s)
         \/ GetOnboarding
         \/ \E r \in Requests, q \in HrRequest : BegunHr(r, q)
         \/ \E r \in Requests : WriteEmployee(r) \/ DeleteEmployee(r) \/ Ask(r) \/ SaveChecklist(r)
                                \/ SaveExit(r) \/ HrDies(r)
         \/ \E r \in Requests, x \in Exits : FileExit(r, x)
         \/ UNCHANGED hrVars
<1>1. ASSUME NEW r \in Requests,
             \/ \E s \in EmployeeStatus : UpdateEmployee(r, s)
             \/ RemoveEmployee(r)
             \/ \E i \in Items, ticked \in BOOLEAN : ToggleChecklist(r, i, ticked)
             \/ CreateExit(r)
             \/ \E x \in Exits : UpdateExit(r, x)
      PROVE  \E q \in HrRequest : BegunHr(r, q)
  BY <1>1, HrBegins
<1>2. QED
  BY <1>1, Zenon DEF EmploymentNext

\* A request that a step leaves alone keeps its reading when the documents it
\* is about are as they were.
LEMMA HoldsKept ==
  ASSUME NEW o, Holds(o), hr'[o] = hr[o],
         hr[o].pc = "tick" => UNCHANGED board,
         hr[o].pc = "file" \/ hr[o].exit # None => UNCHANGED exits,
         hr[o].pc = "write" => UNCHANGED emp
  PROVE  Holds(o)'
BY DEF Holds, OpenExitExists, Employed, MayMove

\* After a write nobody was overtaken by, the writer's reading held, and so does
\* that of every other request that is not marked now.
LEMMA WroteFresh ==
  ASSUME HrType, ReadingHolds, NEW r \in Requests, NEW doc, Wrote(r, doc), ~hrRaced'
  PROVE  /\ ~hrRaced /\ Holds(r)
         /\ \A o \in Requests \ hrStale' : o # r => Holds(o) /\ o \notin Overtaken(doc)
<1>1. ~hrRaced /\ r \notin hrStale
  BY Zenon DEF Wrote
<1>2. \A o \in Requests \ hrStale' : o # r => o \notin hrStale /\ o \notin Overtaken(doc)
  BY DEF Wrote
<1>3. QED
  BY <1>1, <1>2 DEF ReadingHolds

\* The reading of every request that is still trusted holds after a write, when
\* those the write did not overtake use none of what it changed.
LEMMA ReadingAfterWrite ==
  ASSUME HrType, ReadingHolds, NEW r \in Requests, NEW doc, Wrote(r, doc),
         NEW q \in HrRequest, hr' = [hr EXCEPT ![r] = q], ~hrRaced' => Holds(r)',
         \A o \in Requests \ Overtaken(doc) : o # r =>
           /\ hr[o].pc = "tick" => UNCHANGED board
           /\ hr[o].pc = "file" \/ hr[o].exit # None => UNCHANGED exits
           /\ hr[o].pc = "write" => UNCHANGED emp
  PROVE  ReadingHolds'
<1> SUFFICES ASSUME ~hrRaced', NEW o \in Requests, o \notin hrStale', o # r
             PROVE  Holds(o)'
  BY DEF ReadingHolds
<1>1. Holds(o) /\ o \notin Overtaken(doc)
  BY WroteFresh
<1>2. hr'[o] = hr[o]
  BY DEF HrType, HrFlight
<1>3. QED
  BY <1>1, <1>2, HoldsKept

LEMMA ReadingHoldsNext == HrType /\ NotYet /\ ReadingHolds /\ [EmploymentNext]_hrVars => ReadingHolds'
<1> SUFFICES ASSUME HrType, NotYet, ReadingHolds, [EmploymentNext]_hrVars
             PROVE  ReadingHolds'
  OBVIOUS
<1>0. HrFlight /\ HrDocuments
  BY DEF HrType
<1> USE EmploymentAssumption
<1>1. ASSUME NEW s \in EmployeeStatus, CreateEmployee(s) PROVE ReadingHolds'
  <2>1. emp = "none" /\ UNCHANGED <<board, exits, hr, hrStale, hrRaced>>
    BY <1>1, Zenon DEF CreateEmployee, hrHistory
  <2>2. \A o \in Requests : hr[o].pc = "idle" /\ hr[o].exit = None
    BY <1>0, <2>1 DEF NotYet, HrFlight, Sound
  <2>3. QED
    BY <2>1, <2>2 DEF ReadingHolds, Holds
<1>2. CASE GetOnboarding
  <2>1. board.status = "none" /\ UNCHANGED <<emp, exits, hr, hrStale, hrRaced>>
    BY <1>2, Zenon DEF GetOnboarding, hrHistory
  <2>2. \A o \in Requests : Holds(o) => hr[o].pc # "tick"
    BY <1>0, <2>1 DEF Holds, HrFlight, Sound
  <2>3. \A o \in Requests : Holds(o) => Holds(o)'
    BY <2>1, <2>2, HoldsKept
  <2>4. QED
    BY <2>1, <2>3 DEF ReadingHolds
<1>3. ASSUME NEW r \in Requests, NEW q \in HrRequest, BegunHr(r, q) PROVE ReadingHolds'
  <2>1. /\ \A o \in Requests \ {r} : hr'[o] = hr[o]
        /\ UNCHANGED <<emp, board, exits, hrStale, hrRaced>>
    BY <1>0, <1>3, BeginsSteps DEF BegunHr
  <2>2. \A o \in Requests \ {r} : Holds(o) => Holds(o)'
    BY <2>1, HoldsKept
  <2>3. Holds(r)'
    BY <1>3 DEF BegunHr
  <2>4. QED
    BY <2>1, <2>2, <2>3 DEF ReadingHolds
<1>4. ASSUME NEW r \in Requests, WriteEmployee(r) PROVE ReadingHolds'
  <2>1. hr[r] \in HrRequest /\ Sound(hr[r]) /\ hr[r].pc = "write"
    BY <1>0, <1>4 DEF HrFlight, WriteEmployee
  <2>2. /\ Wrote(r, "emp") /\ hr' = [hr EXCEPT ![r] = Returned(hr[r])]
        /\ UNCHANGED <<board, exits>>
    BY <1>4 DEF WriteEmployee
  <2>3. Returned(hr[r]) \in HrRequest
    BY <2>1, ReturnedType
  <2>4. ASSUME ~hrRaced' PROVE Holds(r)'
    <3>1. Holds(r)
      BY <2>2, <2>4, WroteFresh
    <3>2. hr'[r].pc \in {"idle", "save"} /\ hr'[r].exit \in {None, hr[r].exit}
          /\ (hr'[r].exit # None => hr'[r].oldExit = hr[r].oldExit)
      BY <1>0, <2>1, <2>2 DEF Returned, Free, HrFlight, HrRequest
    <3>3. QED
      BY <2>2, <3>1, <3>2 DEF Holds
  <2>5. \A o \in Requests \ Overtaken("emp") : hr[o].pc # "write"
    BY DEF Overtaken
  <2>6. QED
    BY <2>2, <2>3, <2>4, <2>5, ReadingAfterWrite
<1>5. ASSUME NEW r \in Requests, DeleteEmployee(r) PROVE ReadingHolds'
  <2>1. /\ Wrote(r, "emp") /\ hr' = [hr EXCEPT ![r] = Free]
        /\ UNCHANGED <<board, exits>>
    BY <1>5 DEF DeleteEmployee
  <2>2. Holds(r)'
    BY <1>0, <2>1 DEF Holds, Free, HrFlight
  <2>3. \A o \in Requests \ Overtaken("emp") : hr[o].pc # "write"
    BY DEF Overtaken
  <2>4. QED
    BY <2>1, <2>2, <2>3, FreeType, ReadingAfterWrite
<1>6. ASSUME NEW r \in Requests, Ask(r) PROVE ReadingHolds'
  <2>1. hr[r] \in HrRequest /\ Sound(hr[r]) /\ hr[r].pc = "ask"
    BY <1>0, <1>6 DEF HrFlight, Ask
  <2>2. UNCHANGED <<emp, board, exits, hrRaced>> /\ \A o \in Requests \ {r} : hr'[o] = hr[o]
    BY <1>0, <1>6 DEF HrFlight, Ask
  <2>3. \A o \in Requests \ {r} : Holds(o) => Holds(o)'
    BY <2>2, HoldsKept
  <2>4. hrStale \subseteq hrStale' \cup {r}
    BY <1>6 DEF Ask
  <2>5. CASE Employed /\ MayMove(emp, hr[r].to)
    <3>1. hr' = [hr EXCEPT ![r] = [hr[r] EXCEPT !.pc = "write"]] /\ hrStale' = hrStale
      BY <1>6, <2>5 DEF Ask
    <3>2. hr'[r].pc = "write" /\ hr'[r].to = hr[r].to /\ hr'[r].exit = hr[r].exit /\ hr'[r].oldExit = hr[r].oldExit
      BY <1>0, <2>1, <3>1 DEF HrFlight, HrRequest
    <3>3. Holds(r) => Holds(r)'
      BY <2>2, <2>5, <3>2 DEF Holds, Employed, MayMove
    <3>4. QED
      BY <2>2, <2>3, <3>1, <3>3 DEF ReadingHolds
  <2>6. CASE ~(Employed /\ MayMove(emp, hr[r].to))
    <3>1. /\ hr' = [hr EXCEPT ![r] = Returned(hr[r])]
          /\ hrStale' = IF hr[r].then = "save" THEN hrStale ELSE hrStale \ {r}
      BY <1>6, <2>6 DEF Ask
    <3>2. hr'[r] = Returned(hr[r])
      BY <1>0, <3>1 DEF HrFlight
    <3>3. CASE hr[r].then = "save"
      <4>1. hr'[r].pc = "save" /\ hr'[r].exit = hr[r].exit /\ hr'[r].oldExit = hr[r].oldExit
        BY <2>1, <3>2, <3>3 DEF Returned, HrRequest
      <4>2. Holds(r) => Holds(r)'
        BY <2>2, <4>1 DEF Holds
      <4>3. QED
        BY <2>2, <2>3, <3>1, <3>3, <4>2 DEF ReadingHolds
    <3>4. CASE hr[r].then # "save"
      <4>1. Holds(r)'
        BY <3>2, <3>4 DEF Returned, Holds, Free
      <4>2. QED
        BY <2>2, <2>3, <2>4, <4>1 DEF ReadingHolds
    <3>5. QED
      BY <3>3, <3>4
  <2>7. QED
    BY <2>5, <2>6
<1>7. ASSUME NEW r \in Requests, SaveChecklist(r) PROVE ReadingHolds'
  <2> DEFINE q == IF hr[r].new.status = "complete" /\ hr[r].old.status # "complete"
                  THEN [Free EXCEPT !.pc = "ask", !.to = "active"] ELSE Free
  <2>1. Wrote(r, "board") /\ hr' = [hr EXCEPT ![r] = q] /\ UNCHANGED <<emp, exits>>
    BY <1>7 DEF SaveChecklist
  <2>2. q \in HrRequest /\ q.exit = None /\ q.pc \in {"idle", "ask"}
    BY FreeType DEF HrRequest, EmployeeStatus, Free
  <2> HIDE DEF q
  <2>3. Holds(r)'
    BY <1>0, <2>1, <2>2 DEF Holds, HrFlight
  <2>4. \A o \in Requests \ Overtaken("board") : hr[o].pc # "tick"
    BY DEF Overtaken
  <2>5. QED
    BY <2>1, <2>2, <2>3, <2>4, ReadingAfterWrite
<1>8. ASSUME NEW r \in Requests, NEW x \in Exits, FileExit(r, x) PROVE ReadingHolds'
  <2> DEFINE q == [Free EXCEPT !.pc = "ask", !.to = "on_notice"]
  <2>1. Wrote(r, "exit") /\ hr' = [hr EXCEPT ![r] = q] /\ UNCHANGED <<emp, board>>
    BY <1>8 DEF FileExit
  <2>2. q \in HrRequest /\ q.exit = None /\ q.pc = "ask"
    BY FreeType DEF HrRequest, EmployeeStatus, Free
  <2> HIDE DEF q
  <2>3. Holds(r)'
    BY <1>0, <2>1, <2>2 DEF Holds, HrFlight
  <2>4. \A o \in Requests \ Overtaken("exit") : hr[o].pc # "file" /\ hr[o].exit = None
    BY DEF Overtaken
  <2>5. QED
    BY <2>1, <2>2, <2>3, <2>4, ReadingAfterWrite
<1>9. ASSUME NEW r \in Requests, SaveExit(r) PROVE ReadingHolds'
  <2>1. Wrote(r, "exit") /\ hr' = [hr EXCEPT ![r] = Free] /\ UNCHANGED <<emp, board>>
    BY <1>9 DEF SaveExit
  <2>2. Holds(r)'
    BY <1>0, <2>1 DEF Holds, HrFlight, Free
  <2>3. \A o \in Requests \ Overtaken("exit") : hr[o].pc # "file" /\ hr[o].exit = None
    BY DEF Overtaken
  <2>4. QED
    BY <2>1, <2>2, <2>3, FreeType, ReadingAfterWrite
<1>10. ASSUME NEW r \in Requests, HrDies(r) PROVE ReadingHolds'
  <2>1. /\ UNCHANGED <<emp, board, exits, hrRaced>> /\ hrStale' = hrStale \ {r}
        /\ hr'[r] = Free /\ \A o \in Requests \ {r} : hr'[o] = hr[o]
    BY <1>0, <1>10 DEF HrFlight, HrDies
  <2>2. \A o \in Requests \ {r} : Holds(o) => Holds(o)'
    BY <2>1, HoldsKept
  <2>3. Holds(r)'
    BY <2>1 DEF Holds, Free
  <2>4. QED
    BY <2>1, <2>2, <2>3 DEF ReadingHolds
<1>11. CASE UNCHANGED hrVars
  <2>1. UNCHANGED <<emp, board, exits, hr, hrStale, hrRaced>>
    BY <1>11, Zenon DEF hrVars, hrHistory
  <2>2. \A o \in Requests : Holds(o) => Holds(o)'
    BY <2>1, HoldsKept
  <2>3. QED
    BY <2>1, <2>2 DEF ReadingHolds
<1>12. QED
  BY <1>1, <1>2, <1>3, <1>4, <1>5, <1>6, <1>7, <1>8, <1>9, <1>10, <1>11, HrSteps, Zenon

LEMMA NotYetNext == HrType /\ NotYet /\ [EmploymentNext]_hrVars => NotYet'
<1> SUFFICES ASSUME HrType, NotYet, [EmploymentNext]_hrVars, emp' = "none"
             PROVE  /\ board' = NoBoard /\ \A x \in Exits : exits'[x].status = "none"
                    /\ \A r \in Requests : hr'[r].pc = "idle"
  BY DEF NotYet
<1>0. HrFlight /\ HrDocuments
  BY DEF HrType
<1>1. CASE emp = "none"
  <2>1. \A r \in Requests : hr[r].pc = "idle"
    BY <1>1 DEF NotYet
  <2>2. ~Employed /\ board = NoBoard /\ \A x \in Exits : exits[x].status = "none"
    BY <1>1 DEF NotYet, Employed, EmployeeStatus
  <2>3. \A r \in Requests, q \in HrRequest : ~BegunHr(r, q)
    BY <2>2 DEF BegunHr, NoBoard
  <2>4. \A r \in Requests : ~(WriteEmployee(r) \/ DeleteEmployee(r) \/ Ask(r) \/ SaveChecklist(r)
                                \/ SaveExit(r) \/ HrDies(r))
    BY <2>1, Zenon DEF WriteEmployee, DeleteEmployee, Ask, SaveChecklist, SaveExit, HrDies
  <2>5. \A r \in Requests, x \in Exits : ~FileExit(r, x)
    BY <2>1, Zenon DEF FileExit
  <2>6. ~GetOnboarding /\ \A s \in EmployeeStatus : ~CreateEmployee(s)
    BY <1>1, <2>2 DEF GetOnboarding, CreateEmployee, EmployeeStatus
  <2>7. UNCHANGED hrVars
    BY <2>3, <2>4, <2>5, <2>6, HrSteps, Zenon
  <2>8. UNCHANGED <<board, exits, hr>>
    BY <2>7, Zenon DEF hrVars
  <2>9. QED
    BY <2>1, <2>2, <2>8
<1>2. CASE emp # "none"
  <2>1. ASSUME NEW s \in EmployeeStatus, CreateEmployee(s) PROVE FALSE
    BY <1>2, <2>1 DEF CreateEmployee
  <2>2. CASE GetOnboarding
    BY <1>2, <2>2 DEF GetOnboarding
  <2>3. ASSUME NEW r \in Requests, NEW q \in HrRequest, BegunHr(r, q) PROVE FALSE
    BY <1>2, <2>3 DEF BegunHr, Begins
  <2>4. ASSUME NEW r \in Requests, WriteEmployee(r) PROVE FALSE
    <3>1. hr[r].to \in EmployeeStatus
      BY <1>0, <2>4 DEF HrFlight, Sound, WriteEmployee
    <3>2. QED
      BY <1>2, <2>4, <3>1 DEF WriteEmployee, EmployeeStatus
  <2>5. ASSUME NEW r \in Requests, DeleteEmployee(r) PROVE FALSE
    BY <2>5 DEF DeleteEmployee
  <2>6. ASSUME NEW r \in Requests, Ask(r) \/ SaveChecklist(r) \/ SaveExit(r) \/ HrDies(r) PROVE FALSE
    BY <1>2, <2>6 DEF Ask, SaveChecklist, SaveExit, HrDies
  <2>7. ASSUME NEW r \in Requests, NEW x \in Exits, FileExit(r, x) PROVE FALSE
    BY <1>2, <2>7 DEF FileExit
  <2>8. CASE UNCHANGED hrVars
    BY <1>2, <2>8, Zenon DEF hrVars
  <2>9. QED
    BY <2>1, <2>2, <2>3, <2>4, <2>5, <2>6, <2>7, <2>8, HrSteps, Zenon
<1>3. QED
  BY <1>1, <1>2

\* When the reading of a request holds, the document becomes what it saves.
LEMMA SaveExitFresh ==
  ASSUME HrType, NEW r \in Requests, Holds(r), SaveExit(r)
  PROVE  /\ hr[r].exit \in Exits /\ exits[hr[r].exit].status \in Open
         /\ exits'[hr[r].exit].status = hr[r].newExit.status
         /\ exits'[hr[r].exit].has = hr[r].newExit.has
         /\ \A x \in Exits : x # hr[r].exit => exits'[x] = exits[x]
<1>1. hr[r] \in HrRequest /\ Sound(hr[r]) /\ hr[r].pc = "save"
  BY DEF HrType, HrFlight, SaveExit
<1>2. /\ hr[r].exit \in Exits /\ hr[r].exit # None /\ hr[r].oldExit.status \in Open
      /\ (hr[r].oldExit.has \ hr[r].newExit.has) \cup (hr[r].newExit.has \ hr[r].oldExit.has) \subseteq hr[r].writes
  BY <1>1 DEF Sound
<1>3. hr[r].oldExit = exits[hr[r].exit]
  BY <1>2 DEF Holds
<1>4. /\ exits'[hr[r].exit].status = Saved(exits[hr[r].exit].status, hr[r].oldExit.status, hr[r].newExit.status)
      /\ exits'[hr[r].exit].has = (exits[hr[r].exit].has \ hr[r].writes) \cup (hr[r].newExit.has \cap hr[r].writes)
      /\ \A x \in Exits : x # hr[r].exit => exits'[x] = exits[x]
  BY <1>2 DEF SaveExit, HrType, HrDocuments
<1>5. exits'[hr[r].exit].status = hr[r].newExit.status
  BY <1>3, <1>4 DEF Saved
<1>6. exits'[hr[r].exit].has = hr[r].newExit.has
  BY <1>2, <1>3, <1>4
<1>7. QED
  BY <1>2, <1>3, <1>4, <1>5, <1>6

LEMMA SaveChecklistFresh ==
  ASSUME HrType, NEW r \in Requests, Holds(r), SaveChecklist(r)
  PROVE  board'.status = hr[r].new.status /\ board'.done = hr[r].new.done
<1>1. hr[r] \in HrRequest /\ hr[r].old = board
  BY DEF HrType, HrFlight, SaveChecklist, Holds
<1>2. hr[r].new.done \subseteq Items /\ hr[r].old.done \subseteq Items
  BY <1>1 DEF HrRequest, Checklist
<1>3. /\ board'.status = Saved(board.status, hr[r].old.status, hr[r].new.status)
      /\ board'.done = SavedSet(board.done, hr[r].old.done, hr[r].new.done)
  BY DEF SaveChecklist
<1>4. board'.status = hr[r].new.status
  BY <1>1, <1>3 DEF Saved
<1>5. board'.done = hr[r].new.done
  BY <1>1, <1>2, <1>3 DEF SavedSet
<1>6. QED
  BY <1>4, <1>5

LEMMA RecordsAgreeNext ==
  HrType /\ ReadingHolds /\ RecordsAgree /\ [EmploymentNext]_hrVars => RecordsAgree'
<1> SUFFICES ASSUME HrType, ReadingHolds, RecordsAgree, [EmploymentNext]_hrVars, ~hrRaced'
             PROVE  RecordsAgree'
  BY DEF RecordsAgree
<1> USE EmploymentAssumption
<1>0. HrFlight /\ HrDocuments
  BY DEF HrType
<1>1. ASSUME UNCHANGED <<board, exits, hrRaced>> PROVE RecordsAgree'
  BY <1>1 DEF RecordsAgree
<1>2. ASSUME NEW r \in Requests, SaveChecklist(r) PROVE RecordsAgree'
  <2>1. ~hrRaced /\ Holds(r)
    BY <1>2, WroteFresh DEF SaveChecklist
  <2>2. board'.status = hr[r].new.status /\ board'.done = hr[r].new.done
    BY <1>2, <2>1, SaveChecklistFresh
  <2>3. hr[r].new.status = Recomputed(hr[r].new.done)
    BY <1>0, <1>2 DEF HrFlight, Sound, SaveChecklist
  <2>4. board'.status = "complete" <=> board'.status # "none" /\ board'.done = Items
    BY <2>2, <2>3 DEF Recomputed
  <2>5. UNCHANGED exits
    BY <1>2 DEF SaveChecklist
  <2>6. QED
    BY <2>1, <2>4, <2>5 DEF RecordsAgree
<1>3. ASSUME NEW r \in Requests, NEW x \in Exits, FileExit(r, x) PROVE RecordsAgree'
  <2>1. ~hrRaced /\ Holds(r)
    BY <1>3, WroteFresh DEF FileExit
  <2>2. ~OpenExitExists
    BY <1>3, <2>1 DEF Holds, FileExit
  <2>3. /\ exits'[x].status = "notice" /\ UNCHANGED board
        /\ \A y \in Exits \ {x} : exits'[y] = exits[y]
    BY <1>0, <1>3 DEF FileExit, HrDocuments
  <2>4. QED
    BY <2>1, <2>2, <2>3 DEF RecordsAgree, OpenExitExists
<1>4. ASSUME NEW r \in Requests, SaveExit(r) PROVE RecordsAgree'
  <2>1. ~hrRaced /\ Holds(r)
    BY <1>4, WroteFresh DEF SaveExit
  <2>2. /\ hr[r].exit \in Exits /\ exits[hr[r].exit].status \in Open
        /\ exits'[hr[r].exit].status = hr[r].newExit.status
        /\ exits'[hr[r].exit].has = hr[r].newExit.has
        /\ \A x \in Exits : x # hr[r].exit => exits'[x] = exits[x]
    BY <1>4, <2>1, SaveExitFresh
  <2>3. hr[r].newExit.status = "settled" => "amount" \in hr[r].newExit.has
    BY <1>0, <1>4, <2>2 DEF HrFlight, Sound, SaveExit
  <2>4. UNCHANGED board
    BY <1>4 DEF SaveExit
  <2>5. \A x \in Exits : exits'[x].status \in Open => exits[x].status \in Open
    BY <2>2
  <2>6. \A x \in Exits : exits'[x].status = "settled" => "amount" \in exits'[x].has
    BY <2>1, <2>2, <2>3 DEF RecordsAgree
  <2>7. QED
    BY <2>1, <2>4, <2>5, <2>6 DEF RecordsAgree
<1>5. CASE GetOnboarding
  <2>1. board' = [status |-> "in_progress", done |-> {}] /\ UNCHANGED <<exits, hrRaced>>
    BY <1>5, Zenon DEF GetOnboarding, hrHistory
  <2>2. QED
    BY <2>1 DEF RecordsAgree
<1>6. ASSUME NEW s \in EmployeeStatus, CreateEmployee(s) PROVE RecordsAgree'
  BY <1>1, <1>6, Zenon DEF CreateEmployee, hrHistory
<1>7. ASSUME NEW r \in Requests, NEW q \in HrRequest, BegunHr(r, q) PROVE RecordsAgree'
  BY <1>1, <1>7, Zenon DEF BegunHr, Begins, hrHistory
<1>8. ASSUME NEW r \in Requests, WriteEmployee(r) \/ DeleteEmployee(r) PROVE RecordsAgree'
  <2>1. Wrote(r, "emp") /\ UNCHANGED <<board, exits>>
    BY <1>8, Zenon DEF WriteEmployee, DeleteEmployee
  <2>2. ~hrRaced
    BY <2>1, WroteFresh
  <2>3. QED
    BY <2>1, <2>2 DEF RecordsAgree
<1>9. ASSUME NEW r \in Requests, Ask(r) \/ HrDies(r) PROVE RecordsAgree'
  BY <1>1, <1>9, Zenon DEF Ask, HrDies
<1>10. CASE UNCHANGED hrVars
  BY <1>1, <1>10, Zenon DEF hrVars, hrHistory
<1>11. QED
  BY <1>2, <1>3, <1>4, <1>5, <1>6, <1>7, <1>8, <1>9, <1>10, HrSteps, Zenon

\* Where a request may be after a step of its own; the others are as they were.
LEMMA HrGoesOn ==
  ASSUME HrType, NEW r \in Requests
  PROVE  /\ WriteEmployee(r) => /\ hr'[r].pc \in {"idle", "save"} /\ hr'[r].exit \in {None, hr[r].exit}
                                /\ hr'[r].pc = "save" => hr[r].then = "save" /\ hr[r].to = "exited"
         /\ Ask(r) => /\ hr'[r].pc \in {"idle", "save", "write"} /\ hr'[r].exit \in {None, hr[r].exit}
                      /\ hr'[r].pc = "save" => /\ hr[r].to = "exited" /\ ~(Employed /\ MayMove(emp, hr[r].to))
                                               /\ Employed => <<emp, "exited">> \in refused'
                      /\ hr'[r].pc = "write" => MayMove(emp, hr[r].to) /\ hr'[r].to = hr[r].to
                      /\ refused \subseteq refused'
         /\ DeleteEmployee(r) \/ SaveExit(r) \/ HrDies(r) => hr'[r].pc = "idle" /\ hr'[r].exit = None
         /\ SaveChecklist(r) \/ (\E x \in Exits : FileExit(r, x)) =>
              hr'[r].pc \in {"idle", "ask"} /\ hr'[r].exit = None
         /\ WriteEmployee(r) \/ DeleteEmployee(r) \/ Ask(r) \/ SaveChecklist(r) \/ SaveExit(r) \/ HrDies(r)
              \/ (\E x \in Exits : FileExit(r, x)) => \A o \in Requests \ {r} : hr'[o] = hr[o]
<1>0. hr[r] \in HrRequest /\ Sound(hr[r]) /\ hr \in [Requests -> HrRequest]
  BY DEF HrType, HrFlight
<1>1. ASSUME hr[r].pc \in {"ask", "write"}
      PROVE  /\ Returned(hr[r]).pc \in {"idle", "save"} /\ Returned(hr[r]).exit \in {None, hr[r].exit}
             /\ Returned(hr[r]).pc = "save" => hr[r].then = "save" /\ hr[r].to = "exited"
  BY <1>0, <1>1 DEF Returned, Free, HrRequest, Sound
<1>2. ASSUME WriteEmployee(r)
      PROVE  /\ hr'[r].pc \in {"idle", "save"} /\ hr'[r].exit \in {None, hr[r].exit}
             /\ hr'[r].pc = "save" => hr[r].then = "save" /\ hr[r].to = "exited"
  <2>1. hr[r].pc = "write" /\ hr' = [hr EXCEPT ![r] = Returned(hr[r])]
    BY <1>2 DEF WriteEmployee
  <2>2. hr'[r] = Returned(hr[r])
    BY <1>0, <2>1
  <2>3. QED
    BY <1>1, <2>1, <2>2
<1>3. ASSUME Ask(r)
      PROVE  /\ hr'[r].pc \in {"idle", "save", "write"} /\ hr'[r].exit \in {None, hr[r].exit}
             /\ hr'[r].pc = "save" => /\ hr[r].to = "exited" /\ ~(Employed /\ MayMove(emp, hr[r].to))
                                      /\ Employed => <<emp, "exited">> \in refused'
             /\ hr'[r].pc = "write" => MayMove(emp, hr[r].to) /\ hr'[r].to = hr[r].to
             /\ refused \subseteq refused'
  <2>1. CASE Employed /\ MayMove(emp, hr[r].to)
    <3>1. hr' = [hr EXCEPT ![r] = [hr[r] EXCEPT !.pc = "write"]] /\ refused' = refused
      BY <1>3, <2>1 DEF Ask
    <3>2. hr'[r].pc = "write" /\ hr'[r].to = hr[r].to /\ hr'[r].exit = hr[r].exit
      BY <1>0, <3>1 DEF HrRequest
    <3>3. QED
      BY <2>1, <3>1, <3>2
  <2>2. CASE ~(Employed /\ MayMove(emp, hr[r].to))
    <3>1. /\ hr' = [hr EXCEPT ![r] = Returned(hr[r])] /\ hr[r].pc = "ask"
          /\ refused' = IF Employed THEN refused \cup {<<emp, hr[r].to>>} ELSE refused
      BY <1>3, <2>2 DEF Ask
    <3>2. hr'[r] = Returned(hr[r])
      BY <1>0, <3>1
    <3>3. QED
      BY <1>1, <2>2, <3>1, <3>2
  <2>3. QED
    BY <2>1, <2>2
<1>4. DeleteEmployee(r) \/ SaveExit(r) \/ HrDies(r) => hr'[r].pc = "idle" /\ hr'[r].exit = None
  BY <1>0 DEF DeleteEmployee, SaveExit, HrDies, Free
<1>5. SaveChecklist(r) => hr'[r].pc \in {"idle", "ask"} /\ hr'[r].exit = None
  BY <1>0 DEF SaveChecklist, Free
<1>6. ASSUME NEW x \in Exits, FileExit(r, x) PROVE hr'[r].pc \in {"idle", "ask"} /\ hr'[r].exit = None
  BY <1>0, <1>6 DEF FileExit, Free
<1>7. ASSUME NEW o \in Requests \ {r}, NEW q, hr' = [hr EXCEPT ![r] = q] PROVE hr'[o] = hr[o]
  BY <1>0, <1>7
<1>8. WriteEmployee(r) \/ DeleteEmployee(r) \/ Ask(r) \/ SaveChecklist(r) \/ SaveExit(r) \/ HrDies(r)
        \/ (\E x \in Exits : FileExit(r, x)) => \E q : hr' = [hr EXCEPT ![r] = q]
  BY Zenon DEF WriteEmployee, DeleteEmployee, Ask, SaveChecklist, SaveExit, HrDies, FileExit
<1>9. QED
  BY <1>2, <1>3, <1>4, <1>5, <1>6, <1>7, <1>8, Zenon

LEMMA ActiveFollowsNext ==
  HrType /\ NotYet /\ ReadingHolds /\ ActiveFollows /\ [EmploymentNext]_hrVars => ActiveFollows'
<1> SUFFICES ASSUME HrType, NotYet, ReadingHolds, ActiveFollows, [EmploymentNext]_hrVars,
                    ~hrRaced', ~hrDied', board'.status = "complete", emp' = "onboarding"
             PROVE  \E o \in Requests : OnTheWay(o)'
  BY DEF ActiveFollows
<1>0. HrFlight /\ HrDocuments
  BY DEF HrType
<1>1. ASSUME NEW o \in Requests, OnTheWay(o), hr'[o] = hr[o] PROVE \E p \in Requests : OnTheWay(p)'
  BY <1>1 DEF OnTheWay
<1>2. ASSUME UNCHANGED <<emp, board>>, ~hrRaced, ~hrDied PROVE \E o \in Requests : OnTheWay(o)
  BY <1>2 DEF ActiveFollows
<1>3. ASSUME NEW s \in EmployeeStatus, CreateEmployee(s) PROVE FALSE
  BY <1>3 DEF CreateEmployee, NotYet, NoBoard
<1>4. CASE GetOnboarding
  BY <1>4 DEF GetOnboarding
<1>5. ASSUME NEW r \in Requests, NEW q \in HrRequest, BegunHr(r, q) PROVE \E o \in Requests : OnTheWay(o)'
  <2>1. /\ hr[r].pc = "idle" /\ \A o \in Requests \ {r} : hr'[o] = hr[o]
        /\ UNCHANGED <<emp, board, hrRaced, hrDied>>
    BY <1>0, <1>5, BeginsSteps DEF BegunHr
  <2>2. PICK o \in Requests : OnTheWay(o)
    BY <1>2, <2>1
  <2>3. o # r
    BY <2>1, <2>2 DEF OnTheWay
  <2>4. QED
    BY <1>1, <2>1, <2>2, <2>3
<1>6. ASSUME NEW r \in Requests, WriteEmployee(r) PROVE \E o \in Requests : OnTheWay(o)'
  <2>1. ~hrRaced /\ Holds(r)
    BY <1>6, WroteFresh DEF WriteEmployee
  <2>2. Employed /\ MayMove(emp, hr[r].to) /\ hr[r].to = "onboarding"
    BY <1>6, <2>1 DEF Holds, WriteEmployee
  <2>3. emp = "onboarding"
    BY <2>2 DEF Employed, EmployeeStatus, MayMove, StatusTransitions
  <2>4. UNCHANGED <<emp, board, hrDied>>
    BY <1>6, <2>3 DEF WriteEmployee
  <2>5. PICK o \in Requests : OnTheWay(o)
    BY <1>2, <2>1, <2>4
  <2>6. o # r
    BY <2>2, <2>5 DEF OnTheWay
  <2>7. QED
    BY <1>1, <1>6, <2>5, <2>6, HrGoesOn
<1>7. ASSUME NEW r \in Requests, DeleteEmployee(r) PROVE FALSE
  BY <1>7 DEF DeleteEmployee
<1>8. ASSUME NEW r \in Requests, Ask(r) PROVE \E o \in Requests : OnTheWay(o)'
  <2>1. UNCHANGED <<emp, board, hrRaced, hrDied>>
    BY <1>8 DEF Ask
  <2>2. PICK o \in Requests : OnTheWay(o)
    BY <1>2, <2>1
  <2>3. CASE o # r
    BY <1>1, <1>8, <2>2, <2>3, HrGoesOn
  <2>4. CASE o = r
    <3>1. Employed /\ MayMove(emp, hr[r].to)
      BY <2>1, <2>2, <2>4 DEF OnTheWay, Employed, EmployeeStatus, MayMove, StatusTransitions
    <3>2. hr' = [hr EXCEPT ![r] = [hr[r] EXCEPT !.pc = "write"]]
      BY <1>8, <3>1 DEF Ask
    <3>3. hr'[r].pc = "write" /\ hr'[r].to = "active"
      BY <1>0, <2>2, <2>4, <3>2 DEF OnTheWay, HrFlight, HrRequest
    <3>4. QED
      BY <3>3 DEF OnTheWay
  <2>5. QED
    BY <2>3, <2>4
<1>9. ASSUME NEW r \in Requests, SaveChecklist(r) PROVE \E o \in Requests : OnTheWay(o)'
  <2>1. ~hrRaced /\ Holds(r) /\ hr[r].pc = "tick"
    BY <1>9, WroteFresh DEF SaveChecklist
  <2>2. hr[r].new.status = "complete" /\ hr[r].old = board
    BY <1>9, <2>1, SaveChecklistFresh DEF Holds
  <2>3. CASE board.status # "complete"
    <3>1. hr' = [hr EXCEPT ![r] = [Free EXCEPT !.pc = "ask", !.to = "active"]]
      BY <1>9, <2>2, <2>3 DEF SaveChecklist
    <3>2. hr'[r].pc = "ask" /\ hr'[r].to = "active"
      BY <1>0, <3>1 DEF HrFlight, Free
    <3>3. QED
      BY <3>2 DEF OnTheWay
  <2>4. CASE board.status = "complete"
    <3>1. UNCHANGED <<emp, hrDied>>
      BY <1>9 DEF SaveChecklist
    <3>2. PICK o \in Requests : OnTheWay(o)
      BY <2>1, <2>4, <3>1 DEF ActiveFollows
    <3>3. o # r
      BY <2>1, <3>2 DEF OnTheWay
    <3>4. QED
      BY <1>1, <1>9, <3>2, <3>3, HrGoesOn
  <2>5. QED
    BY <2>3, <2>4
<1>10. ASSUME NEW r \in Requests, SaveExit(r) \/ \E x \in Exits : FileExit(r, x)
       PROVE  \E o \in Requests : OnTheWay(o)'
  <2>1. Wrote(r, "exit") /\ UNCHANGED <<emp, board, hrDied>> /\ hr[r].pc \in {"save", "file"}
    BY <1>10 DEF SaveExit, FileExit
  <2>2. ~hrRaced
    BY <2>1, WroteFresh
  <2>3. PICK o \in Requests : OnTheWay(o)
    BY <1>2, <2>1, <2>2
  <2>4. o # r
    BY <2>1, <2>3 DEF OnTheWay
  <2>5. QED
    BY <1>1, <1>10, <2>3, <2>4, HrGoesOn
<1>11. ASSUME NEW r \in Requests, HrDies(r) PROVE \E o \in Requests : OnTheWay(o)'
  <2>1. UNCHANGED <<emp, board, hrRaced>> /\ ~hrDied /\ hr[r].pc \notin {"ask", "write"}
    BY <1>11, Zenon DEF HrDies
  <2>2. PICK o \in Requests : OnTheWay(o)
    BY <1>2, <2>1
  <2>3. o # r
    BY <2>1, <2>2 DEF OnTheWay
  <2>4. QED
    BY <1>1, <1>11, <2>2, <2>3, HrGoesOn
<1>12. CASE UNCHANGED hrVars
  <2>1. UNCHANGED <<emp, board, hr, hrRaced, hrDied>>
    BY <1>12, Zenon DEF hrVars, hrHistory
  <2>2. QED
    BY <1>1, <1>2, <2>1
<1>13. QED
  BY <1>3, <1>4, <1>5, <1>6, <1>7, <1>8, <1>9, <1>10, <1>11, <1>12, HrSteps, Zenon

LEMMA SettledToldNext ==
  HrType /\ NotYet /\ ReadingHolds /\ SettledTold /\ [EmploymentNext]_hrVars => SettledTold'
<1> SUFFICES ASSUME HrType, NotYet, ReadingHolds, SettledTold, [EmploymentNext]_hrVars,
                    ~hrRaced', Leaving'
             PROVE  Told'
  BY DEF SettledTold
<1>0. HrFlight /\ HrDocuments
  BY DEF HrType
<1> DEFINE Saves(o) == hr[o].pc = "save" /\ hr[o].newExit.status = "settled"
<1>1. ASSUME UNCHANGED exits, \A o \in Requests : hr'[o] = hr[o] \/ ~Saves(o)' PROVE Leaving
  BY <1>1 DEF Leaving
<1>2. ASSUME Leaving, ~hrRaced, UNCHANGED emp, refused \subseteq refused' PROVE Told'
  BY <1>2 DEF SettledTold, Told
<1>3. ASSUME NEW s \in EmployeeStatus, CreateEmployee(s) PROVE Told'
  <2>1. UNCHANGED <<exits, hr, refused, hrRaced>> /\ emp = "none"
    BY <1>3, Zenon DEF CreateEmployee, hrHistory
  <2>2. Leaving
    BY <1>1, <2>1
  <2>3. QED
    BY <2>1, <2>2 DEF SettledTold, Told
<1>4. CASE GetOnboarding
  <2>1. UNCHANGED <<emp, exits, hr, refused, hrRaced>>
    BY <1>4, Zenon DEF GetOnboarding, hrHistory
  <2>2. QED
    BY <1>1, <1>2, <2>1
<1>5. ASSUME NEW r \in Requests, NEW q \in HrRequest, BegunHr(r, q) PROVE Told'
  <2>1. /\ hr'[r] = q /\ \A o \in Requests \ {r} : hr'[o] = hr[o]
        /\ UNCHANGED <<emp, exits, refused, hrRaced>>
    BY <1>0, <1>5, BeginsSteps DEF BegunHr
  <2>2. ~Saves(r)'
    BY <1>5, <2>1 DEF BegunHr
  <2>3. QED
    BY <1>1, <1>2, <2>1, <2>2
<1>6. ASSUME NEW r \in Requests, WriteEmployee(r) PROVE Told'
  <2>1. ~hrRaced /\ Holds(r)
    BY <1>6, WroteFresh DEF WriteEmployee
  <2>2. /\ emp' = hr[r].to /\ Employed /\ MayMove(emp, hr[r].to)
        /\ UNCHANGED <<exits, refused>>
    BY <1>6, <2>1 DEF Holds, WriteEmployee
  <2>3. /\ hr'[r].pc = "save" => hr[r].to = "exited"
        /\ \A o \in Requests \ {r} : hr'[o] = hr[o]
    BY <1>6, HrGoesOn
  <2>4. CASE hr'[r].pc = "save"
    BY <2>2, <2>3, <2>4 DEF Told
  <2>5. CASE hr'[r].pc # "save"
    <3>1. Leaving
      BY <1>1, <2>2, <2>3, <2>5
    <3>2. Told /\ emp # "removed"
      BY <2>1, <2>2, <3>1 DEF SettledTold, Employed, EmployeeStatus
    <3>3. emp = "exited" => hr[r].to = "exited"
      BY <2>2 DEF MayMove, StatusTransitions
    <3>4. QED
      BY <2>2, <3>2, <3>3 DEF Told
  <2>6. QED
    BY <2>4, <2>5
<1>7. ASSUME NEW r \in Requests, DeleteEmployee(r) PROVE Told'
  BY <1>7 DEF DeleteEmployee, Told
<1>8. ASSUME NEW r \in Requests, Ask(r) PROVE Told'
  <2>1. UNCHANGED <<emp, exits, hrRaced>> /\ hr[r].pc = "ask"
    BY <1>8 DEF Ask
  <2>2. /\ hr'[r].pc = "save" => /\ hr[r].to = "exited" /\ ~(Employed /\ MayMove(emp, hr[r].to))
                                 /\ Employed => <<emp, "exited">> \in refused'
        /\ refused \subseteq refused'
        /\ \A o \in Requests \ {r} : hr'[o] = hr[o]
    BY <1>8, HrGoesOn
  <2>3. CASE hr'[r].pc = "save"
    <3>1. CASE Employed
      <4>1. <<emp, "exited">> \in refused' /\ ~MayMove(emp, "exited")
        BY <2>2, <2>3, <3>1
      <4>2. emp = "onboarding"
        BY <3>1, <4>1 DEF Employed, EmployeeStatus, MayMove, StatusTransitions
      <4>3. QED
        BY <4>1, <4>2 DEF Told
    <3>2. CASE ~Employed
      <4>1. emp = "removed"
        BY <1>0, <2>1, <3>2 DEF NotYet, HrDocuments, Employed
      <4>2. QED
        BY <2>1, <4>1 DEF Told
    <3>3. QED
      BY <3>1, <3>2
  <2>4. CASE hr'[r].pc # "save"
    <3>1. Leaving
      BY <1>1, <2>1, <2>2, <2>4
    <3>2. QED
      BY <1>2, <2>1, <2>2, <3>1
  <2>5. QED
    BY <2>3, <2>4
<1>9. ASSUME NEW r \in Requests, SaveChecklist(r) PROVE Told'
  <2>1. Wrote(r, "board") /\ UNCHANGED <<emp, exits, refused>>
    BY <1>9 DEF SaveChecklist
  <2>2. ~hrRaced
    BY <2>1, WroteFresh
  <2>3. hr'[r].pc # "save" /\ \A o \in Requests \ {r} : hr'[o] = hr[o]
    BY <1>9, HrGoesOn
  <2>4. QED
    BY <1>1, <1>2, <2>1, <2>2, <2>3
<1>10. ASSUME NEW r \in Requests, NEW x \in Exits, FileExit(r, x) PROVE Told'
  <2>1. Wrote(r, "exit") /\ UNCHANGED <<emp, refused>>
    BY <1>10 DEF FileExit
  <2>2. ~hrRaced
    BY <2>1, WroteFresh
  <2>3. hr'[r].pc # "save" /\ \A o \in Requests \ {r} : hr'[o] = hr[o]
    BY <1>10, HrGoesOn
  <2>4. exits'[x].status = "notice" /\ \A y \in Exits \ {x} : exits'[y] = exits[y]
    BY <1>0, <1>10 DEF FileExit, HrDocuments
  <2>5. Leaving
    BY <2>3, <2>4 DEF Leaving
  <2>6. QED
    BY <1>2, <2>1, <2>2, <2>5
<1>11. ASSUME NEW r \in Requests, SaveExit(r) PROVE Told'
  <2>1. UNCHANGED <<emp, refused>> /\ hr[r].pc = "save"
    BY <1>11 DEF SaveExit
  <2>2. ~hrRaced /\ Holds(r)
    BY <1>11, WroteFresh DEF SaveExit
  <2>3. /\ exits'[hr[r].exit].status = hr[r].newExit.status
        /\ \A x \in Exits : x # hr[r].exit => exits'[x] = exits[x]
    BY <1>11, <2>2, SaveExitFresh
  <2>4. hr'[r].pc # "save" /\ \A o \in Requests \ {r} : hr'[o] = hr[o]
    BY <1>11, HrGoesOn
  <2>5. Leaving
    BY <2>1, <2>3, <2>4 DEF Leaving
  <2>6. QED
    BY <1>2, <2>1, <2>2, <2>5
<1>12. ASSUME NEW r \in Requests, HrDies(r) PROVE Told'
  <2>1. UNCHANGED <<emp, exits, refused, hrRaced>>
    BY <1>12 DEF HrDies
  <2>2. hr'[r].pc # "save" /\ \A o \in Requests \ {r} : hr'[o] = hr[o]
    BY <1>12, HrGoesOn
  <2>3. QED
    BY <1>1, <1>2, <2>1, <2>2
<1>13. CASE UNCHANGED hrVars
  <2>1. UNCHANGED <<emp, exits, hr, refused, hrRaced>>
    BY <1>13, Zenon DEF hrVars, hrHistory
  <2>2. QED
    BY <1>1, <1>2, <2>1
<1>14. QED
  BY <1>3, <1>4, <1>5, <1>6, <1>7, <1>8, <1>9, <1>10, <1>11, <1>12, <1>13, HrSteps, Zenon

\* Whatever raced: what is closed stays closed once nobody that read it open is
\* still to write.
Closing == /\ ExitedAtRest => ExitedAtRest' \/ emp' = "removed"
           /\ \A x \in Exits : SettledAtRest(x) => SettledAtRest(x)' /\ exits'[x] = exits[x]

LEMMA ClosingNext == HrType /\ [EmploymentNext]_hrVars => Closing
<1> SUFFICES ASSUME HrType, [EmploymentNext]_hrVars PROVE Closing
  OBVIOUS
<1> USE EmploymentAssumption
<1>0. HrFlight /\ HrDocuments
  BY DEF HrType
<1>1. ASSUME NEW s \in EmployeeStatus, CreateEmployee(s) PROVE Closing
  <2>1. emp = "none" /\ UNCHANGED <<exits, hr>>
    BY <1>1 DEF CreateEmployee
  <2>2. QED
    BY <2>1 DEF Closing, ExitedAtRest, SettledAtRest
<1>2. ASSUME UNCHANGED <<emp, exits, hr>> PROVE Closing
  BY <1>2 DEF Closing, ExitedAtRest, SettledAtRest
<1>3. ASSUME NEW r \in Requests, NEW q \in HrRequest, BegunHr(r, q) PROVE Closing
  <2>1. /\ hr'[r] = q /\ \A o \in Requests \ {r} : hr'[o] = hr[o]
        /\ UNCHANGED <<emp, exits>> /\ Holds(r)' /\ Sound(q)
    BY <1>0, <1>3, BeginsSteps DEF BegunHr
  <2>2. emp = "exited" /\ q.pc = "write" => q.to = "exited"
    BY <2>1 DEF Holds, MayMove, StatusTransitions
  <2>3. \A x \in Exits : exits[x].status = "settled" => q.exit # x
    BY <2>1 DEF Holds, Sound, Open
  <2>4. QED
    BY <2>1, <2>2, <2>3 DEF Closing, ExitedAtRest, SettledAtRest
<1>4. ASSUME NEW r \in Requests, WriteEmployee(r) PROVE Closing
  <2>1. /\ hr[r].pc = "write" /\ emp' = (IF Employed THEN hr[r].to ELSE emp) /\ UNCHANGED exits
        /\ hr'[r].pc # "write" /\ hr'[r].exit \in {None, hr[r].exit} /\ \A o \in Requests \ {r} : hr'[o] = hr[o]
    BY <1>4, HrGoesOn DEF WriteEmployee
  <2>2. ExitedAtRest => emp' = "exited"
    BY <2>1 DEF ExitedAtRest, Employed, EmployeeStatus
  <2>3. QED
    BY <2>1, <2>2 DEF Closing, ExitedAtRest, SettledAtRest
<1>5. ASSUME NEW r \in Requests, DeleteEmployee(r) PROVE Closing
  <2>1. /\ emp' = "removed" /\ UNCHANGED exits
        /\ hr'[r].exit = None /\ \A o \in Requests \ {r} : hr'[o] = hr[o]
    BY <1>5, HrGoesOn DEF DeleteEmployee
  <2>2. QED
    BY <2>1 DEF Closing, SettledAtRest
<1>6. ASSUME NEW r \in Requests, Ask(r) PROVE Closing
  <2>1. /\ UNCHANGED <<emp, exits>> /\ hr'[r].exit \in {None, hr[r].exit}
        /\ hr'[r].pc = "write" => MayMove(emp, hr[r].to) /\ hr'[r].to = hr[r].to
        /\ \A o \in Requests \ {r} : hr'[o] = hr[o]
    BY <1>6, HrGoesOn DEF Ask
  <2>2. emp = "exited" /\ hr'[r].pc = "write" => hr'[r].to = "exited"
    BY <2>1 DEF MayMove, StatusTransitions
  <2>3. QED
    BY <2>1, <2>2 DEF Closing, ExitedAtRest, SettledAtRest
<1>7. ASSUME NEW r \in Requests, SaveChecklist(r) \/ HrDies(r) PROVE Closing
  <2>1. /\ UNCHANGED <<emp, exits>> /\ hr'[r].exit = None /\ hr'[r].pc # "write"
        /\ \A o \in Requests \ {r} : hr'[o] = hr[o]
    BY <1>7, HrGoesOn DEF SaveChecklist, HrDies
  <2>2. QED
    BY <2>1 DEF Closing, ExitedAtRest, SettledAtRest
<1>8. ASSUME NEW r \in Requests, NEW y \in Exits, FileExit(r, y) PROVE Closing
  <2>1. /\ UNCHANGED emp /\ exits[y].status = "none" /\ hr'[r].exit = None /\ hr'[r].pc # "write"
        /\ \A o \in Requests \ {r} : hr'[o] = hr[o]
    BY <1>8, HrGoesOn DEF FileExit
  <2>2. \A x \in Exits \ {y} : exits'[x] = exits[x]
    BY <1>0, <1>8 DEF FileExit, HrDocuments
  <2>3. QED
    BY <2>1, <2>2 DEF Closing, ExitedAtRest, SettledAtRest
<1>9. ASSUME NEW r \in Requests, SaveExit(r) PROVE Closing
  <2>1. /\ UNCHANGED emp /\ hr'[r].exit = None /\ hr'[r].pc # "write"
        /\ \A o \in Requests \ {r} : hr'[o] = hr[o]
    BY <1>9, HrGoesOn DEF SaveExit
  <2>2. \A x \in Exits \ {hr[r].exit} : exits'[x] = exits[x]
    BY <1>0, <1>9 DEF SaveExit, HrDocuments
  <2>3. QED
    BY <2>1, <2>2 DEF Closing, ExitedAtRest, SettledAtRest
<1>10. GetOnboarding \/ UNCHANGED hrVars => UNCHANGED <<emp, exits, hr>>
  BY Zenon DEF GetOnboarding, hrVars
<1>11. QED
  BY <1>1, <1>2, <1>3, <1>4, <1>5, <1>6, <1>7, <1>8, <1>9, <1>10, HrSteps, Zenon

\* lifecycle.service.ts and employees.service.ts: the inductive invariant of
\* Employment, for every checklist, set of exits and set of requests.
THEOREM EmploymentInvariance == EmploymentSpec => []HrIInv
<1>1. HrIInv /\ [EmploymentNext]_hrVars => HrIInv'
  BY EmploymentTypeNext, NotYetNext, ReadingHoldsNext, RecordsAgreeNext, ActiveFollowsNext, SettledToldNext
     DEF HrIInv
<1>2. QED
  BY HrInitInv, <1>1, PTL DEF EmploymentSpec

\* lifecycle.service.ts 82-84, 107-109, 164: a checklist is complete exactly when
\* its items are, one exit is open, a settled exit has an amount, as long as no
\* handler saved over what another had changed.
THEOREM RecordsAlwaysAgree == EmploymentSpec => []RecordsAgree
<1>1. HrIInv => RecordsAgree
  BY DEF HrIInv
<1>2. QED
  BY EmploymentInvariance, <1>1, PTL

\* lifecycle.service.ts 85-94, 167-177: the employee follows the checklist and
\* the exit once the handlers have returned.
THEOREM EmployeeAlwaysFollows == EmploymentSpec => []EmployeeFollows
<1>1. ASSUME HrIInv PROVE EmployeeFollows
  <2>1. \A r \in Requests : hr[r].pc = "idle" => ~OnTheWay(r)
    BY DEF OnTheWay
  <2>2. QED
    BY <1>1, <2>1 DEF HrIInv, ActiveFollows, SettledTold, Leaving, Told, EmployeeFollows
<1>2. QED
  BY EmploymentInvariance, <1>1, PTL

\* employees.service.ts 12-17 and lifecycle.service.ts 20-24: once nothing that
\* read it earlier is still to write, an exited employee stays exited or is
\* removed, and a settled exit never changes, whatever raced before.
THEOREM ClosedForGood == EmploymentSpec => ClosedStaysClosed
<1>1. HrIInv /\ [EmploymentNext]_hrVars => [Closing]_hrVars
  BY ClosingNext DEF HrIInv
<1>2. QED
  BY EmploymentInvariance, <1>1, PTL DEF EmploymentSpec, ClosedStaysClosed, Closing
=============================================================================
