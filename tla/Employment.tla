----------------------------- MODULE Employment -----------------------------
(***************************************************************************)
(* An employee, the onboarding checklist and the exits of that employee.   *)
(*                                                                         *)
(* LifecycleService drives the status of the employee through              *)
(* EmployeesService.update and swallows its errors, so the three documents *)
(* agree only as far as the order of the calls makes them.  Employees      *)
(* share nothing but the unique index on their codes, so one is modelled.  *)
(*                                                                         *)
(* A request is a record of what it still uses; pc is the write it waits   *)
(* for, and "ask" the call of EmployeesService.update that another handler *)
(* makes.  A request that is refused before it writes is no step.  The     *)
(* definitions nothing refers to are faults that show what the properties  *)
(* notice.                                                                 *)
(***************************************************************************)
EXTENDS Handlers

CONSTANTS
  Items,   \* the onboarding checklist
  Marks,   \* what clearance asks for: managerApproved, hrApproved, assets
  Exits,   \* exit documents that may be created
  MaxHrCalls \* bound: requests that are begun

ASSUME EmploymentAssumption == Items # {} /\ None \notin Exits /\ MaxHrCalls \in Nat

VARIABLES
  emp,      \* status of the employee, "none" or "removed" without a document
  board,    \* the onboarding document
  exits,    \* the exit documents
  hr,       \* requests in flight
  hrCalls,  \* requests begun so far
  refused,  \* history: transitions that were refused and swallowed
  hrStale,  \* history: requests whose reading another one has overwritten
  hrRaced,  \* history: one of them has written
  hrDied    \* history: a request died before it had told the employee

hrHistory == <<refused, hrStale, hrRaced, hrDied>>
hrVars == <<emp, board, exits, hr, hrCalls, hrHistory>>

EmployeeStatus == {"onboarding", "active", "on_notice", "exited"}

StatusTransitions == [onboarding |-> {"active"}, active |-> {"on_notice", "exited"},
                      on_notice |-> {"exited"}, exited |-> {}]

NoticeFirst(from, to) == from = to \/ to \in StatusTransitions[from] \ (IF from = "active" THEN {"exited"} ELSE {})
EveryTransition(from, to) == TRUE
MayMove(from, to) == from = to \/ to \in StatusTransitions[from]

Deletable == EmployeeStatus \ {"active", "on_notice"}

Checklist == [status : {"none", "in_progress", "complete"}, done : SUBSET Items]

ExitTransitions == [notice |-> {"cleared"}, cleared |-> {"settled"}, settled |-> {}]
Open == {"notice", "cleared"}

\* has: the approvals given, the assets back, and a settlement above zero.
Fields == Marks \cup {"amount"}
ExitRecord == [status : {"none", "settled"} \cup Open, has : SUBSET Fields]

NoExit  == [status |-> "none", has |-> {}]
NoBoard == [status |-> "none", done |-> {}]

HrRequest == [pc     : {"idle", "write", "delete", "tick", "file", "ask", "save"},
              to     : EmployeeStatus \cup {None}, \* what the employee is to become
              then   : {"idle", "save"},           \* where an "ask" returns to
              old    : Checklist,                  \* the checklist as read
              new    : Checklist,                  \* and as assigned
              exit   : Exits \cup {None},
              oldExit: ExitRecord,
              newExit: ExitRecord,
              writes : SUBSET Fields]              \* members of has it will set

Free == [pc |-> "idle", to |-> None, then |-> "idle", old |-> NoBoard, new |-> NoBoard,
         exit |-> None, oldExit |-> NoExit, newExit |-> NoExit, writes |-> {}]

EmploymentTypeOK ==
  /\ emp \in EmployeeStatus \cup {"none", "removed"}
  /\ board \in Checklist
  /\ exits \in [Exits -> ExitRecord]
  /\ hr \in [Requests -> HrRequest]
  /\ hrCalls \in 0..MaxHrCalls
  /\ refused \subseteq EmployeeStatus \X EmployeeStatus
  /\ hrStale \subseteq Requests /\ hrRaced \in BOOLEAN /\ hrDied \in BOOLEAN

EmploymentInit ==
  /\ emp = "none" /\ board = NoBoard /\ exits = [x \in Exits |-> NoExit]
  /\ hr = [r \in Requests |-> Free]
  /\ hrCalls = 0
  /\ refused = {} /\ hrStale = {} /\ hrRaced = FALSE /\ hrDied = FALSE

Employed == emp \in EmployeeStatus

Overtaken(doc) == {o \in Requests : CASE doc = "emp" -> hr[o].pc \in {"write", "delete"}
                                      [] doc = "board" -> hr[o].pc = "tick"
                                      [] doc = "exit" -> hr[o].pc = "file" \/ hr[o].exit # None}

Wrote(r, doc) ==
  /\ hrStale' = (hrStale \cup Overtaken(doc)) \ {r}
  /\ hrRaced' = (hrRaced \/ r \in hrStale)

Begins(r, q) ==
  /\ hr[r].pc = "idle"
  /\ hrCalls < MaxHrCalls
  /\ hrCalls' = hrCalls + 1
  /\ hr' = [hr EXCEPT ![r] = q]
  /\ UNCHANGED <<emp, board, exits, hrHistory>>

\* Where a request goes when the update it made has returned.
Returned(q) == IF q.then = "save" THEN [q EXCEPT !.pc = "save"] ELSE Free

(***************************************************************************)
(* EmployeesService.                                                       *)
(***************************************************************************)

\* The unique indexes make the checks for a clash and the insert one step.
CreateEmployee(s) ==
  /\ emp = "none"
  /\ emp' = s
  /\ UNCHANGED <<board, exits, hr, hrCalls, hrHistory>>

UpdateEmployee(r, s) ==
  /\ Employed /\ MayMove(emp, s)
  /\ Begins(r, [Free EXCEPT !.pc = "write", !.to = s])

\* findOneAndUpdate by id alone: the status it was allowed from is not asked again.
WriteEmployee(r) ==
  /\ hr[r].pc = "write"
  /\ emp' = IF Employed THEN hr[r].to ELSE emp
  /\ hr' = [hr EXCEPT ![r] = Returned(hr[r])]
  /\ Wrote(r, "emp")
  /\ UNCHANGED <<board, exits, refused, hrDied, hrCalls>>

RemoveEmployee(r) ==
  /\ emp \in Deletable
  /\ Begins(r, [Free EXCEPT !.pc = "delete"])

DeleteEmployee(r) ==
  /\ hr[r].pc = "delete"
  /\ emp' = "removed"
  /\ hr' = [hr EXCEPT ![r] = Free]
  /\ Wrote(r, "emp")
  /\ UNCHANGED <<board, exits, refused, hrDied, hrCalls>>

\* EmployeesService.update called from another handler, which swallows a refusal.
Ask(r) ==
  LET q == hr[r] IN
  /\ q.pc = "ask"
  /\ \/ /\ Employed /\ MayMove(emp, q.to)
        /\ hr' = [hr EXCEPT ![r] = [q EXCEPT !.pc = "write"]]
        /\ UNCHANGED <<refused, hrStale>>
     \/ /\ ~(Employed /\ MayMove(emp, q.to))
        /\ hr' = [hr EXCEPT ![r] = Returned(q)]
        /\ refused' = IF Employed THEN refused \cup {<<emp, q.to>>} ELSE refused
        /\ hrStale' = IF q.then = "save" THEN hrStale ELSE hrStale \ {r}
  /\ UNCHANGED <<emp, board, exits, hrRaced, hrDied, hrCalls>>

(***************************************************************************)
(* LifecycleService: onboarding.                                           *)
(***************************************************************************)

\* One onboarding per employee (unique index), created when first asked for.
GetOnboarding ==
  /\ Employed /\ board.status = "none"
  /\ board' = [status |-> "in_progress", done |-> {}]
  /\ UNCHANGED <<emp, exits, hr, hrCalls, hrHistory>>

NeverReopened(done) == IF done = Items \/ board.status = "complete" THEN "complete" ELSE "in_progress"
Recomputed(done)    == IF done = Items THEN "complete" ELSE "in_progress"

ToggleChecklist(r, i, ticked) ==
  LET done == IF ticked THEN board.done \cup {i} ELSE board.done \ {i} IN
  /\ board.status # "none"
  /\ Begins(r, [Free EXCEPT !.pc = "tick", !.old = board,
                            !.new = [status |-> Recomputed(done), done |-> done]])

SaveChecklist(r) ==
  LET q == hr[r] IN
  /\ q.pc = "tick"
  /\ board' = [status |-> Saved(board.status, q.old.status, q.new.status),
               done   |-> SavedSet(board.done, q.old.done, q.new.done)]
  /\ hr' = [hr EXCEPT ![r] =
              IF q.new.status = "complete" /\ q.old.status # "complete"
              THEN [Free EXCEPT !.pc = "ask", !.to = "active"] ELSE Free]
  /\ Wrote(r, "board")
  /\ UNCHANGED <<emp, exits, refused, hrDied, hrCalls>>

(***************************************************************************)
(* LifecycleService: exit.                                                 *)
(***************************************************************************)
OpenExitExists == \E x \in Exits : exits[x].status \in Open

CreateExit(r) ==
  /\ Employed /\ ~OpenExitExists
  /\ Begins(r, [Free EXCEPT !.pc = "file"])

FileExit(r, x) ==
  /\ hr[r].pc = "file" /\ exits[x].status = "none"
  /\ exits' = [exits EXCEPT ![x] = [status |-> "notice", has |-> {}]]
  /\ hr' = [hr EXCEPT ![r] = [Free EXCEPT !.pc = "ask", !.to = "on_notice"]]
  /\ Wrote(r, "exit")
  /\ UNCHANGED <<emp, board, refused, hrDied, hrCalls>>

\* Clearance needs the approvals and the assets, settlement an amount.
GatesPass(from, to, has) ==
  /\ from = to \/ to \in ExitTransitions[from]
  /\ to = "cleared" => Marks \subseteq has
  /\ to = "settled" => "amount" \in has

\* has is what the exit has once the fields of the request are assigned, asked
\* the status it names, None for none.  An approval is written if it changes,
\* the assets and the amount also when they are given again.
Replaced == {"assets", "amount"}

UpdateExit(r, x) ==
  LET e == exits[x] IN
  /\ e.status \in Open /\ hr[r].pc = "idle"
  /\ \E has \in SUBSET Fields, asked \in Open \cup {"settled", None} :
       LET changed == (e.has \ has) \cup (has \ e.has)
           status  == IF asked # None THEN asked
                      ELSE IF Marks \subseteq has /\ e.status = "notice" THEN "cleared" ELSE e.status
       IN
       /\ asked # None => GatesPass(e.status, asked, has)
       /\ \E again \in SUBSET ((Fields \cap Replaced) \ changed) :
            Begins(r, [Free EXCEPT !.pc = IF status = "settled" THEN "ask" ELSE "save",
                                   !.then = "save", !.to = IF status = "settled" THEN "exited" ELSE None,
                                   !.exit = x, !.oldExit = e, !.newExit = [status |-> status, has |-> has],
                                   !.writes = changed \cup again])

\* The employee has been told before the exit is saved.
SaveExit(r) ==
  LET q == hr[r] IN
  /\ q.pc = "save"
  /\ exits' = [exits EXCEPT ![q.exit] =
       [status |-> Saved(exits[q.exit].status, q.oldExit.status, q.newExit.status),
        has    |-> (exits[q.exit].has \ q.writes) \cup (q.newExit.has \cap q.writes)]]
  /\ hr' = [hr EXCEPT ![r] = Free]
  /\ Wrote(r, "exit")
  /\ UNCHANGED <<emp, board, refused, hrDied, hrCalls>>

HrDies(r) ==
  /\ hr[r].pc # "idle"
  /\ hrDied' = (hrDied \/ hr[r].pc \in {"ask", "write"})
  /\ hr' = [hr EXCEPT ![r] = Free]
  /\ hrStale' = hrStale \ {r}
  /\ UNCHANGED <<emp, board, exits, refused, hrRaced, hrCalls>>

EmploymentNext ==
  \/ \E s \in EmployeeStatus : CreateEmployee(s)
  \/ GetOnboarding
  \/ \E r \in Requests :
       \/ \E s \in EmployeeStatus : UpdateEmployee(r, s)
       \/ RemoveEmployee(r) \/ WriteEmployee(r) \/ DeleteEmployee(r) \/ Ask(r)
       \/ \E i \in Items, ticked \in BOOLEAN : ToggleChecklist(r, i, ticked)
       \/ SaveChecklist(r)
       \/ CreateExit(r)
       \/ \E x \in Exits : FileExit(r, x) \/ UpdateExit(r, x)
       \/ SaveExit(r)
       \/ HrDies(r)

EmploymentSpec == EmploymentInit /\ [][EmploymentNext]_hrVars
---------------------------------------------------------------------------
(***************************************************************************)
(* Properties.                                                             *)
(***************************************************************************)

\* lifecycle.service.ts 82-84, 107-109, 164: as long as no handler has saved
\* over a document another one changed, a checklist is complete exactly when all
\* its items are, an employee has one open exit, and a settled exit an amount.
RecordsAgree ==
  ~hrRaced =>
    /\ board.status = "complete" <=> board.status # "none" /\ board.done = Items
    /\ \A x, y \in Exits : exits[x].status \in Open /\ exits[y].status \in Open => x = y
    /\ \A x \in Exits : exits[x].status = "settled" => "amount" \in exits[x].has

\* With no such save and no death the employee follows, once the handlers have
\* returned: out of onboarding when the checklist is complete, exited when an
\* exit is settled, unless it was settled while the employee was onboarding,
\* whose exit employees.service.ts 12-17 refuses and lifecycle 174 swallows.
EmployeeFollows ==
  ~hrRaced /\ ~hrDied /\ (\A r \in Requests : hr[r].pc = "idle") =>
    /\ board.status = "complete" => emp # "onboarding"
    /\ (\E x \in Exits : exits[x].status = "settled") =>
         emp \in {"exited", "removed"} \/ <<"onboarding", "exited">> \in refused

\* Races or not: once nothing that read it earlier is still to write, an exited
\* employee stays exited or is removed, and a settled exit never changes.
ExitedAtRest == emp = "exited" /\ \A r \in Requests : hr[r].pc = "write" => hr[r].to = "exited"
SettledAtRest(x) == exits[x].status = "settled" /\ \A r \in Requests : hr[r].exit # x

ClosedStaysClosed ==
  [][/\ ExitedAtRest => ExitedAtRest' \/ emp' = "removed"
     /\ \A x \in Exits : SettledAtRest(x) => SettledAtRest(x)' /\ exits'[x] = exits[x]]_hrVars
===========================================================================
