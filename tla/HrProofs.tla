------------------------------ MODULE HrProofs ------------------------------
(***************************************************************************)
(* Proofs about HrLetters, for every set of requests, and about Payroll,   *)
(* for every set of employees and every bound: a letter goes through its   *)
(* statuses in order, a finalised slip or run is final, and finalising a   *)
(* run reaches every slip.                                                 *)
(***************************************************************************)
EXTENDS HrLetters, Payroll, TLAPS

(***************************************************************************)
(* Letters.                                                                *)
(***************************************************************************)
Shown == {"sent", "accepted", "rejected"}

\* Only a rendered letter is sent, and only a sent one is answered; a status
\* that waits to be saved was allowed by a letter that existed.
ShownInv ==
  /\ letter.status \in Shown => letter.rendered
  /\ \A r \in Requests : post[r].pc = "save" =>
       /\ letter.status # "none" /\ post[r].to # "none"
       /\ post[r].to \in Shown => letter.rendered

LetterIInv == LetterTypeOK /\ ShownInv

LEMMA LetterInitInv == LetterInit => LetterIInv
BY DEF LetterInit, LetterIInv, LetterTypeOK, ShownInv, Shown, Letter, LetterStatus,
       PostRequest, Sleeping

LEMMA LetterNextInv == LetterIInv /\ [LetterNext]_letterVars => LetterIInv'
<1> SUFFICES ASSUME LetterIInv, [LetterNext]_letterVars PROVE LetterIInv'
  OBVIOUS
<1> USE DEF LetterIInv, LetterTypeOK, ShownInv, Shown, Letter, LetterStatus, PostRequest,
            Sleeping, Posts, Exists, letterVars
<1>1. CASE RemoveLetter
  BY <1>1 DEF RemoveLetter
<1>2. ASSUME NEW r \in Requests, CreateLetter(r) PROVE LetterIInv'
  BY <1>2 DEF CreateLetter
<1>3. ASSUME NEW r \in Requests, GetLetter(r) PROVE LetterIInv'
  BY <1>3 DEF GetLetter
<1>4. ASSUME NEW r \in Requests, RenderLetter(r) PROVE LetterIInv'
  BY <1>4 DEF RenderLetter
<1>5. ASSUME NEW r \in Requests, AttachLetter(r) PROVE LetterIInv'
  BY <1>5 DEF AttachLetter
<1>6. ASSUME NEW r \in Requests, NEW to \in LetterStatus \ {"none"}, SetStatus(r, to)
      PROVE LetterIInv'
  BY <1>6 DEF SetStatus, MaySet, LetterTransitions
<1>7. ASSUME NEW r \in Requests, SaveStatus(r) PROVE LetterIInv'
  <2>1. post[r] \in PostRequest /\ post[r].pc = "save"
    BY <1>7 DEF SaveStatus
  <2>2. letter' = [status |-> post[r].to, rendered |-> letter.rendered]
    BY <1>7 DEF SaveStatus
  <2>3. LetterTypeOK'
    BY <1>7, <2>1, <2>2 DEF SaveStatus
  <2>4. ShownInv'
    BY <1>7, <2>1, <2>2 DEF SaveStatus
  <2>5. QED
    BY <2>3, <2>4
<1>8. ASSUME NEW r \in Requests, LetterRequestDies(r) PROVE LetterIInv'
  BY <1>8 DEF LetterRequestDies
<1>9. CASE UNCHANGED letterVars
  BY <1>9
<1>10. QED
  BY <1>1, <1>2, <1>3, <1>4, <1>5, <1>6, <1>7, <1>8, <1>9 DEF LetterNext

\* The inductive invariant of letters holds in every reachable state.
THEOREM LetterInvariance == LetterSpec => []LetterIInv
BY LetterInitInv, LetterNextInv, PTL DEF LetterSpec

\* letters.service.ts 12-18, 93-98: what was sent has been rendered, and a
\* closed letter is final once no earlier change is still to be saved.
THEOREM LettersKeepOrder == LetterSpec => LettersInOrder
<1> DEFINE Step == /\ letter'.status \in {"sent", "accepted", "rejected"} => letter'.rendered
                   /\ LetterAtRest =>
                        ~Exists' \/ (LetterAtRest' /\ letter'.status = letter.status)
<1>1. LetterIInv /\ LetterIInv' /\ [LetterNext]_letterVars => [Step]_letterVars
  <2> SUFFICES ASSUME LetterIInv, LetterIInv', [LetterNext]_letterVars PROVE [Step]_letterVars
    OBVIOUS
  <2>1. letter'.status \in {"sent", "accepted", "rejected"} => letter'.rendered
    BY DEF LetterIInv, ShownInv, Shown
  <2>2. ASSUME LetterAtRest, Exists', ~UNCHANGED letterVars
        PROVE LetterAtRest' /\ letter'.status = letter.status
    <3> USE <2>2 DEF LetterAtRest, Closed, LetterIInv, LetterTypeOK, Letter, LetterStatus,
                     PostRequest, Sleeping, Posts, Exists, letterVars
    <3>1. CASE RemoveLetter
      BY <3>1 DEF RemoveLetter
    <3>2. ASSUME NEW r \in Requests, CreateLetter(r) PROVE FALSE
      BY <3>2 DEF CreateLetter
    <3>3. ASSUME NEW r \in Requests,
                 GetLetter(r) \/ RenderLetter(r) \/ AttachLetter(r) \/ LetterRequestDies(r)
          PROVE LetterAtRest' /\ letter'.status = letter.status
      BY <3>3 DEF GetLetter, RenderLetter, AttachLetter, LetterRequestDies
    <3>4. ASSUME NEW r \in Requests, NEW to \in LetterStatus \ {"none"}, SetStatus(r, to)
          PROVE FALSE
      BY <3>4 DEF SetStatus, MaySet, LetterTransitions
    <3>5. ASSUME NEW r \in Requests, SaveStatus(r) PROVE FALSE
      BY <3>5 DEF SaveStatus
    <3>6. QED
      BY <3>1, <3>2, <3>3, <3>4, <3>5 DEF LetterNext
  <2>3. QED
    BY <2>1, <2>2
<1>2. QED
  BY <1>1, LetterInvariance, PTL DEF LetterSpec, LettersInOrder

(***************************************************************************)
(* Payroll.                                                                *)
(***************************************************************************)

\* A request that edits, prints or deletes a slip knows which one, and one that
\* finalises them all holds none.
HeldInv == \A r \in Requests :
  /\ pay[r].pc \in {"edit", "render", "attach", "delete"} => pay[r].of \in Employees
  /\ pay[r].pc = "slips" => pay[r].of = None

PayrollIInv == PayrollTypeOK /\ HeldInv /\ FinaliseCovers

LEMMA NoSlipType == NoSlip \in Slip
BY PayrollAssumption DEF NoSlip, Slip, SlipStatus, Amounts

LEMMA NoSlipsType == NoSlips \in Totals
BY DEF NoSlips, Totals

\* What compute makes of a slip is a slip.
LEMMA SlipOfType ==
  ASSUME NEW s \in Slip, NEW earned \in Amounts, NEW deducted \in Amounts, deducted <= earned
  PROVE  SlipOf(s, earned, deducted) \in Slip
<1>1. Net(earned, deducted) \in Amounts
  BY PayrollAssumption DEF Net, Amounts
<1>2. QED
  BY <1>1 DEF SlipOf, Slip

LEMMA ShowsType == ASSUME NEW s \in Slip PROVE Shows(s) \in Printed
BY DEF Shows, Slip, Printed

LEMMA SumType == slip \in [Employees -> Slip] => SumOfSlips \in Totals
<1> SUFFICES ASSUME slip \in [Employees -> Slip] PROVE SumOfSlips \in Totals
  OBVIOUS
<1>1. Slips \subseteq Employees
  BY DEF Slips
<1>2. SumOfSlips \in [Slips -> Printed]
  BY <1>1, ShowsType DEF SumOfSlips, Summed
<1>3. QED
  BY <1>1, <1>2, Zenon DEF Totals

LEMMA DoneType == Done \in PayRequest
BY NoSlipType, NoSlipsType DEF Done, PayRequest

LEMMA PayrollInitInv == PayrollInit => PayrollIInv
<1> SUFFICES ASSUME PayrollInit PROVE PayrollIInv
  OBVIOUS
<1>1. slip \in [Employees -> Slip] /\ pay \in [Requests -> PayRequest]
  BY NoSlipType, DoneType DEF PayrollInit
<1>2. file \in [Employees -> Printed]
  BY PayrollAssumption DEF PayrollInit, Printed, Amounts
<1>3. run \in Run
  BY NoSlipsType DEF PayrollInit, NoRun, Run, RunStatus
<1>4. payCalls \in 0..MaxPayCalls
  BY PayrollAssumption DEF PayrollInit
<1>5. /\ payStale \subseteq Requests /\ payRaced \subseteq Employees
      /\ late \subseteq Employees /\ payDied \in BOOLEAN /\ moved \subseteq Requests \cup {None}
  BY Zenon DEF PayrollInit
<1>6. PayrollTypeOK
  BY <1>1, <1>2, <1>3, <1>4, <1>5, Zenon DEF PayrollTypeOK
<1>7. HeldInv /\ FinaliseCovers
  BY DEF PayrollInit, HeldInv, FinaliseCovers, Done, NoRun
<1>8. QED
  BY <1>6, <1>7, Zenon DEF PayrollIInv

Documents == slip \in [Employees -> Slip] /\ file \in [Employees -> Printed] /\ run \in Run
Flight == pay \in [Requests -> PayRequest] /\ HeldInv
Counted ==
  /\ payCalls \in 0..MaxPayCalls
  /\ payStale \subseteq Requests /\ payRaced \subseteq Employees
  /\ late \subseteq Employees /\ payDied \in BOOLEAN /\ moved \subseteq Requests \cup {None}

LEMMA TypeParts == PayrollTypeOK /\ HeldInv <=> Documents /\ Flight /\ Counted
BY Zenon DEF PayrollTypeOK, Documents, Flight, Counted

\* The request r becomes q, and all others stay or are done.
LEMMA FlightNext ==
  ASSUME Flight, NEW r \in Requests, NEW q \in PayRequest,
         q.pc \in {"edit", "render", "attach", "delete"} => q.of \in Employees,
         q.pc = "slips" => q.of = None,
         pay' = [pay EXCEPT ![r] = q]
  PROVE  Flight'
<1>1. pay' \in [Requests -> PayRequest]
  BY DEF Flight
<1>2. HeldInv'
  BY DEF Flight, HeldInv
<1>3. QED
  BY <1>1, <1>2 DEF Flight

\* The request r goes on with what it holds.
LEMMA PcNext ==
  ASSUME Flight, NEW r \in Requests, NEW pc \in {"attach", "render"}, pay[r].of \in Employees,
         pay' = [pay EXCEPT ![r].pc = pc]
  PROVE  Flight'
<1>1. pay' \in [Requests -> PayRequest]
  BY DEF Flight, PayRequest
<1>2. HeldInv'
  BY DEF Flight, HeldInv, PayRequest
<1>3. QED
  BY <1>1, <1>2 DEF Flight

LEMMA PayrollTypeNext ==
  PayrollTypeOK /\ HeldInv /\ [PayrollNext]_payVars => PayrollTypeOK' /\ HeldInv'
<1> SUFFICES ASSUME Documents, Flight, Counted, [PayrollNext]_payVars
             PROVE  Documents' /\ Flight' /\ Counted'
  BY TypeParts DEF PayrollTypeOK, HeldInv, Documents, Flight, Counted
<1> USE NoSlipType, NoSlipsType, DoneType, PayrollAssumption
<1>1. ASSUME NEW r \in Requests, NEW e \in Employees, NEW earned \in Amounts, NEW deducted \in Amounts,
             CreateSlip(r, e, earned, deducted)
      PROVE  Documents' /\ Flight' /\ Counted'
  <2> DEFINE new == SlipOf([NoSlip EXCEPT !.status = "draft"], earned, deducted)
             q == [Done EXCEPT !.pc = "render", !.of = e, !.old = new, !.new = new]
  <2>1. new \in Slip
    <3>1. [NoSlip EXCEPT !.status = "draft"] \in Slip
      BY DEF Slip, SlipStatus
    <3>2. QED
      BY <1>1, <3>1, SlipOfType DEF CreateSlip
  <2>2. q \in PayRequest /\ q.of = e /\ q.pc # "slips"
    BY <2>1 DEF PayRequest
  <2>3. Flight'
    BY <1>1, <2>2, FlightNext DEF CreateSlip, Accepted
  <2>4. Documents'
    BY <1>1, <2>1 DEF CreateSlip, Documents
  <2>5. Counted'
    BY <1>1 DEF CreateSlip, Accepted, Moves, Counted
  <2>6. QED
    BY <2>3, <2>4, <2>5
<1>2. ASSUME NEW r \in Requests, NEW e \in Employees, NEW earned \in Amounts, NEW deducted \in Amounts,
             UpdateSlip(r, e, earned, deducted)
      PROVE  Documents' /\ Flight' /\ Counted'
  <2> DEFINE q == [Done EXCEPT !.pc = "edit", !.of = e, !.old = slip[e],
                               !.new = SlipOf(slip[e], earned, deducted)]
  <2>1. q \in PayRequest /\ q.of = e /\ q.pc # "slips"
    BY <1>2, SlipOfType DEF UpdateSlip, PayRequest, Documents
  <2>2. Flight'
    BY <1>2, <2>1, FlightNext DEF UpdateSlip, Accepted
  <2>3. Documents' /\ Counted'
    BY <1>2 DEF UpdateSlip, Accepted, Documents, Counted, payHistory
  <2>4. QED
    BY <2>2, <2>3
<1>3. ASSUME NEW r \in Requests, SaveSlip(r) PROVE Documents' /\ Flight' /\ Counted'
  <2>1. pay[r].of \in Employees /\ pay[r].old \in Slip /\ pay[r].new \in Slip
    BY <1>3 DEF SaveSlip, Flight, HeldInv, PayRequest
  <2>2. Flight'
    BY <1>3, <2>1, PcNext DEF SaveSlip
  <2>3. Documents'
    BY <1>3, <2>1 DEF SaveSlip, Saved, Documents, Slip
  <2>4. Counted'
    BY <1>3, <2>1 DEF SaveSlip, Overwrites, Moves, Counted
  <2>5. QED
    BY <2>2, <2>3, <2>4
<1>4. ASSUME NEW r \in Requests, NEW e \in Employees, GetSlip(r, e)
      PROVE  Documents' /\ Flight' /\ Counted'
  <2> DEFINE q == [Done EXCEPT !.pc = "render", !.of = e, !.old = slip[e], !.new = slip[e]]
  <2>1. q \in PayRequest /\ q.of = e /\ q.pc # "slips"
    BY DEF PayRequest, Documents
  <2>2. Flight'
    BY <1>4, <2>1, FlightNext DEF GetSlip, Accepted
  <2>3. Documents' /\ Counted'
    BY <1>4 DEF GetSlip, Accepted, Documents, Counted, payHistory
  <2>4. QED
    BY <2>2, <2>3
<1>5. ASSUME NEW r \in Requests, Render(r) PROVE Documents' /\ Flight' /\ Counted'
  <2>1. pay[r].of \in Employees /\ pay[r].new \in Slip
    BY <1>5 DEF Render, Flight, HeldInv, PayRequest
  <2>2. Flight'
    <3>1. CASE pay' = [pay EXCEPT ![r].pc = "attach"]
      BY <2>1, <3>1, PcNext
    <3>2. CASE pay' = [pay EXCEPT ![r] = Done]
      BY <3>2, FlightNext DEF Done
    <3>3. QED
      BY <1>5, <3>1, <3>2 DEF Render
  <2>3. Documents'
    BY <1>5, <2>1, ShowsType DEF Render, Documents
  <2>4. Counted'
    BY <1>5, <2>1 DEF Render, Counted
  <2>5. QED
    BY <2>2, <2>3, <2>4
<1>6. ASSUME NEW r \in Requests, Attach(r) PROVE Documents' /\ Flight' /\ Counted'
  <2>1. pay[r].of \in Employees
    BY <1>6 DEF Attach, Flight, HeldInv
  <2>2. Flight'
    BY <1>6, FlightNext DEF Attach, Done
  <2>3. Documents'
    BY <1>6, <2>1 DEF Attach, Documents, Slip
  <2>4. Counted'
    BY <1>6, <2>1 DEF Attach, Overwrites, Counted
  <2>5. QED
    BY <2>2, <2>3, <2>4
<1>7. ASSUME NEW r \in Requests, NEW e \in Employees, RemoveSlip(r, e)
      PROVE  Documents' /\ Flight' /\ Counted'
  <2> DEFINE q == [Done EXCEPT !.pc = "delete", !.of = e]
  <2>1. q \in PayRequest /\ q.of = e /\ q.pc # "slips"
    BY DEF PayRequest
  <2>2. Flight'
    BY <1>7, <2>1, FlightNext DEF RemoveSlip, Accepted
  <2>3. Documents' /\ Counted'
    BY <1>7 DEF RemoveSlip, Accepted, Documents, Counted, payHistory
  <2>4. QED
    BY <2>2, <2>3
<1>8. ASSUME NEW r \in Requests, DeleteSlip(r) PROVE Documents' /\ Flight' /\ Counted'
  <2>1. Flight'
    BY <1>8 DEF DeleteSlip, Flight, HeldInv, Done
  <2>2. Documents'
    BY <1>8 DEF DeleteSlip, Documents
  <2>3. Counted'
    BY <1>8 DEF DeleteSlip, Moves, Counted
  <2>4. QED
    BY <2>1, <2>2, <2>3
<1>9. ASSUME NEW r \in Requests, RunPayroll(r) \/ FinaliseRun(r)
      PROVE  Documents' /\ Flight' /\ Counted'
  <2>1. PICK pc \in {"sum", "lock"} : pay' = [pay EXCEPT ![r] = [Done EXCEPT !.pc = pc]]
    BY <1>9 DEF RunPayroll, FinaliseRun, Accepted
  <2>2. [Done EXCEPT !.pc = pc] \in PayRequest /\ [Done EXCEPT !.pc = pc].pc = pc
    BY DEF PayRequest
  <2>3. Flight'
    BY <2>1, <2>2, FlightNext
  <2>4. Documents' /\ Counted'
    BY <1>9 DEF RunPayroll, FinaliseRun, Accepted, Documents, Counted, payHistory
  <2>5. QED
    BY <2>3, <2>4
<1>10. ASSUME NEW r \in Requests, Aggregate(r) PROVE Documents' /\ Flight' /\ Counted'
  <2> DEFINE q == [Done EXCEPT !.pc = "put", !.totals = SumOfSlips]
  <2>1. q \in PayRequest /\ q.pc = "put"
    BY SumType DEF PayRequest, Documents
  <2>2. Flight'
    BY <1>10, <2>1, FlightNext DEF Aggregate
  <2>3. Documents' /\ Counted'
    BY <1>10 DEF Aggregate, Documents, Counted
  <2>4. QED
    BY <2>2, <2>3
<1>11. ASSUME NEW r \in Requests, PutRun(r) PROVE Documents' /\ Flight' /\ Counted'
  <2>1. Flight'
    BY <1>11, FlightNext DEF PutRun, Done
  <2>2. run' \in Run
    BY <1>11 DEF PutRun, Run, RunStatus, Flight, PayRequest
  <2>3. Documents' /\ Counted'
    BY <1>11, <2>2 DEF PutRun, Documents, Counted
  <2>4. QED
    BY <2>1, <2>3
<1>12. ASSUME NEW r \in Requests, LockRun(r) PROVE Documents' /\ Flight' /\ Counted'
  <2>1. [Done EXCEPT !.pc = "slips"] \in PayRequest /\ [Done EXCEPT !.pc = "slips"].pc = "slips"
         /\ [Done EXCEPT !.pc = "slips"].of = None
    BY DEF PayRequest, Done
  <2>2. Flight'
    BY <1>12, <2>1, FlightNext DEF LockRun
  <2>3. Documents' /\ Counted'
    BY <1>12 DEF LockRun, Documents, Counted, Run, RunStatus, payHistory
  <2>4. QED
    BY <2>2, <2>3
<1>13. ASSUME NEW r \in Requests, LockSlips(r) PROVE Documents' /\ Flight' /\ Counted'
  <2>1. Flight'
    BY <1>13, FlightNext DEF LockSlips, Done
  <2>2. slip' \in [Employees -> Slip]
    BY <1>13 DEF LockSlips, Documents, Slip, SlipStatus
  <2>3. Documents' /\ Counted'
    BY <1>13, <2>2 DEF LockSlips, Documents, Counted, payHistory
  <2>4. QED
    BY <2>1, <2>3
<1>14. ASSUME NEW r \in Requests, PayDies(r) PROVE Documents' /\ Flight' /\ Counted'
  <2>1. Flight'
    BY <1>14, FlightNext DEF PayDies, Done
  <2>2. Documents'
    BY <1>14 DEF PayDies, Documents
  <2>3. Counted'
    BY <1>14 DEF PayDies, Counted
  <2>4. QED
    BY <2>1, <2>2, <2>3
<1>15. CASE UNCHANGED payVars
  BY <1>15 DEF payVars, payHistory, Documents, Flight, HeldInv, Counted
<1>16. QED
  BY <1>1, <1>2, <1>3, <1>4, <1>5, <1>6, <1>7, <1>8, <1>9, <1>10, <1>11, <1>12, <1>13, <1>14, <1>15,
     Zenon DEF PayrollNext

LEMMA CoverNext ==
  PayrollTypeOK /\ HeldInv /\ FinaliseCovers /\ [PayrollNext]_payVars => FinaliseCovers'
<1> SUFFICES ASSUME PayrollTypeOK, HeldInv, FinaliseCovers, [PayrollNext]_payVars,
                    run'.status = "finalised", ~payDied', \A r \in Requests : pay'[r].pc # "slips",
                    NEW d \in Employees, slip'[d].status # "none", d \notin late'
             PROVE  slip'[d].status = "finalised"
  BY DEF FinaliseCovers, Slips
<1> USE DEF PayrollTypeOK, HeldInv, FinaliseCovers, Slips, Run, Slip, SlipStatus, Accepted
<1>1. ASSUME NEW r \in Requests, NEW e \in Employees, NEW earned \in Amounts, NEW deducted \in Amounts,
             CreateSlip(r, e, earned, deducted)
      PROVE  slip'[d].status = "finalised"
  <2>1. run.status = "finalised" /\ late' = late \cup {e} /\ ~payDied
    BY <1>1 DEF CreateSlip
  <2>2. d # e /\ slip'[d] = slip[d] /\ d \notin late
    BY <1>1, <2>1 DEF CreateSlip
  <2>3. \A o \in Requests : pay[o].pc # "slips"
    BY <1>1 DEF CreateSlip
  <2>4. QED
    BY <2>1, <2>2, <2>3
<1>2. ASSUME NEW r \in Requests, NEW e \in Employees, NEW earned \in Amounts, NEW deducted \in Amounts,
             UpdateSlip(r, e, earned, deducted)
      PROVE  slip'[d].status = "finalised"
  BY <1>2 DEF UpdateSlip, payHistory
<1>3. ASSUME NEW r \in Requests, SaveSlip(r) PROVE slip'[d].status = "finalised"
  <2>1. pay[r].pc = "edit" /\ pay[r].of \in Employees /\ run' = run /\ late' = late /\ payDied' = payDied
    BY <1>3 DEF SaveSlip
  <2>2. slip'[d].status = slip[d].status
    BY <1>3, <2>1 DEF SaveSlip
  <2>3. \A o \in Requests : pay[o].pc # "slips"
    BY <1>3 DEF SaveSlip
  <2>4. QED
    BY <2>1, <2>2, <2>3
<1>4. ASSUME NEW r \in Requests, NEW e \in Employees, GetSlip(r, e) \/ RemoveSlip(r, e)
      PROVE  slip'[d].status = "finalised"
  BY <1>4 DEF GetSlip, RemoveSlip, payHistory
<1>5. ASSUME NEW r \in Requests, Render(r) PROVE slip'[d].status = "finalised"
  BY <1>5 DEF Render
<1>6. ASSUME NEW r \in Requests, Attach(r) PROVE slip'[d].status = "finalised"
  <2>1. slip'[d].status = slip[d].status
    BY <1>6 DEF Attach
  <2>2. \A o \in Requests : pay[o].pc # "slips"
    BY <1>6 DEF Attach
  <2>3. QED
    BY <1>6, <2>1, <2>2 DEF Attach
<1>7. ASSUME NEW r \in Requests, DeleteSlip(r) PROVE slip'[d].status = "finalised"
  <2>1. d # pay[r].of /\ slip'[d] = slip[d]
    BY <1>7 DEF DeleteSlip, NoSlip
  <2>2. \A o \in Requests : pay[o].pc # "slips"
    <3> SUFFICES ASSUME NEW o \in Requests, pay[o].pc = "slips" PROVE FALSE
      OBVIOUS
    <3>1. pay[o].of = pay[r].of
      BY <1>7 DEF DeleteSlip
    <3>2. pay[o].of = None /\ pay[r].of \in Employees
      BY <1>7 DEF DeleteSlip
    <3>3. QED
      BY <3>1, <3>2, PayrollAssumption
  <2>3. run' = run /\ late' = late /\ payDied' = payDied
    BY <1>7 DEF DeleteSlip
  <2>4. QED
    BY <2>1, <2>2, <2>3
<1>8. ASSUME NEW r \in Requests, RunPayroll(r) \/ FinaliseRun(r)
      PROVE  slip'[d].status = "finalised"
  BY <1>8 DEF RunPayroll, RunOpen, FinaliseRun, payHistory
<1>9. ASSUME NEW r \in Requests, Aggregate(r) PROVE slip'[d].status = "finalised"
  BY <1>9 DEF Aggregate
<1>10. ASSUME NEW r \in Requests, PutRun(r) PROVE FALSE
  BY <1>10 DEF PutRun
<1>11. ASSUME NEW r \in Requests, LockRun(r) PROVE FALSE
  <2>1. pay'[r].pc = "slips"
    BY <1>11 DEF LockRun, Done
  <2>2. QED
    BY <2>1
<1>12. ASSUME NEW r \in Requests, LockSlips(r) PROVE slip'[d].status = "finalised"
  BY <1>12 DEF LockSlips, EverySlip
<1>13. ASSUME NEW r \in Requests, PayDies(r) PROVE slip'[d].status = "finalised"
  <2>1. \A o \in Requests : pay[o].pc # "slips"
    BY <1>13 DEF PayDies
  <2>2. QED
    BY <1>13, <2>1 DEF PayDies
<1>14. CASE UNCHANGED payVars
  BY <1>14 DEF payVars, payHistory
<1>15. QED
  BY <1>1, <1>2, <1>3, <1>4, <1>5, <1>6, <1>7, <1>8, <1>9, <1>10, <1>11, <1>12, <1>13, <1>14,
     Zenon DEF PayrollNext

\* The inductive invariant of payroll holds in every reachable state.
THEOREM PayrollInvariance == PayrollSpec => []PayrollIInv
<1>1. PayrollIInv /\ [PayrollNext]_payVars => PayrollIInv'
  BY PayrollTypeNext, CoverNext, Zenon DEF PayrollIInv
<1>2. QED
  BY PayrollInitInv, <1>1, PTL DEF PayrollSpec

\* payroll.service.ts 299-309: when a run is finalised, so is every slip, but
\* for those that came later and a death between the two writes.
THEOREM FinaliseReachesAll == PayrollSpec => []FinaliseCovers
<1>1. PayrollIInv => FinaliseCovers
  BY DEF PayrollIInv
<1>2. QED
  BY <1>1, PayrollInvariance, PTL

\* Lines 122, 218, 236: a slip or a run that is finalised, with no earlier
\* request still to write it, keeps its figures for ever.
THEOREM FinalisedIsFinal == PayrollSpec => FinalisedStays
<1> DEFINE Step == /\ RunAtRest => RunAtRest' /\ run' = run
                   /\ \A e \in Employees :
                        SlipAtRest(e) => SlipAtRest(e)' /\ Shows(slip'[e]) = Shows(slip[e])
<1>1. PayrollIInv /\ [PayrollNext]_payVars => [Step]_payVars
  <2> SUFFICES ASSUME PayrollTypeOK, HeldInv, PayrollNext PROVE Step
    BY Zenon DEF PayrollIInv
  <2>1. PICK r \in Requests :
          \/ \E e \in Employees, earned, deducted \in Amounts :
               CreateSlip(r, e, earned, deducted) \/ UpdateSlip(r, e, earned, deducted)
          \/ \E e \in Employees : GetSlip(r, e) \/ RemoveSlip(r, e)
          \/ SaveSlip(r) \/ Render(r) \/ Attach(r) \/ DeleteSlip(r)
          \/ RunPayroll(r) \/ Aggregate(r) \/ PutRun(r)
          \/ FinaliseRun(r) \/ LockRun(r) \/ LockSlips(r) \/ PayDies(r)
    BY Zenon DEF PayrollNext
  <2>0. slip \in [Employees -> Slip] /\ run \in Run /\ pay \in [Requests -> PayRequest]
    BY DEF PayrollTypeOK
  <2> USE <2>0 DEF Accepted
  <2>2. ASSUME RunAtRest PROVE RunAtRest' /\ run' = run
    <3>1. run.status = "finalised" /\ \A o \in Requests : pay[o].pc \notin {"sum", "put"}
      BY <2>2 DEF RunAtRest
    <3>2. run' = run
      <4>1. CASE run' = run
        BY <4>1
      <4>2. CASE PutRun(r)
        BY <3>1, <4>2 DEF PutRun
      <4>3. CASE LockRun(r)
        BY <3>1, <4>3 DEF LockRun, Run
      <4>4. QED
        BY <2>1, <4>1, <4>2, <4>3, Zenon
           DEF CreateSlip, UpdateSlip, GetSlip, RemoveSlip, SaveSlip, Render, Attach, DeleteSlip,
               RunPayroll, Aggregate, FinaliseRun, LockSlips, PayDies
    <3>3. \A o \in Requests : pay'[o].pc \notin {"sum", "put"}
      <4>1. \A o \in Requests : o # r => pay'[o] = pay[o] \/ pay'[o] = Done
        BY <2>1 DEF CreateSlip, UpdateSlip, GetSlip, RemoveSlip, SaveSlip, Render, Attach,
                    DeleteSlip, RunPayroll, Aggregate, PutRun, FinaliseRun, LockRun,
                    LockSlips, PayDies
      <4>2. pay'[r].pc \notin {"sum", "put"}
        <5>1. ASSUME NEW e \in Employees, NEW earned \in Amounts, NEW deducted \in Amounts,
                     CreateSlip(r, e, earned, deducted) \/ UpdateSlip(r, e, earned, deducted)
              PROVE  pay'[r].pc \notin {"sum", "put"}
          <6>1. CASE CreateSlip(r, e, earned, deducted)
            BY <6>1 DEF CreateSlip, Done
          <6>2. CASE UpdateSlip(r, e, earned, deducted)
            BY <6>2 DEF UpdateSlip, Done
          <6>3. QED
            BY <5>1, <6>1, <6>2
        <5>2. ASSUME NEW e \in Employees, GetSlip(r, e) \/ RemoveSlip(r, e)
              PROVE  pay'[r].pc \notin {"sum", "put"}
          <6>1. CASE GetSlip(r, e)
            BY <6>1 DEF GetSlip, Done
          <6>2. CASE RemoveSlip(r, e)
            BY <6>2 DEF RemoveSlip, Done
          <6>3. QED
            BY <5>2, <6>1, <6>2
        <5>3. CASE SaveSlip(r) \/ Render(r) \/ Attach(r) \/ DeleteSlip(r) \/ PayDies(r)
          <6>1. CASE SaveSlip(r)
            BY <6>1 DEF SaveSlip, PayRequest
          <6>2. CASE Render(r)
            BY <6>2 DEF Render, PayRequest, Done
          <6>3. CASE Attach(r) \/ PayDies(r)
            BY <6>3 DEF Attach, PayDies, Done
          <6>4. CASE DeleteSlip(r)
            BY <6>4 DEF DeleteSlip, Done
          <6>5. QED
            BY <5>3, <6>1, <6>2, <6>3, <6>4
        <5>4. CASE RunPayroll(r) \/ Aggregate(r) \/ PutRun(r)
          BY <3>1, <5>4 DEF RunPayroll, RunOpen, Aggregate, PutRun
        <5>5. CASE FinaliseRun(r) \/ LockRun(r) \/ LockSlips(r)
          BY <3>1, <5>5 DEF FinaliseRun, LockRun, LockSlips, Done
        <5>6. QED
          BY <2>1, <5>1, <5>2, <5>3, <5>4, <5>5, Zenon
      <4>3. QED
        BY <3>1, <4>1, <4>2 DEF Done
    <3>4. QED
      BY <3>1, <3>2, <3>3 DEF RunAtRest
  <2>3. ASSUME NEW e \in Employees, SlipAtRest(e)
        PROVE  SlipAtRest(e)' /\ Shows(slip'[e]) = Shows(slip[e])
    <3>1. /\ slip[e].status = "finalised"
          /\ \A o \in Requests : pay[o].of = e => pay[o].pc \notin {"edit", "delete"}
      BY <2>3 DEF SlipAtRest
    <3>2. slip'[e].status = "finalised" /\ Shows(slip'[e]) = Shows(slip[e])
      <4>1. CASE \E d \in Employees, earned, deducted \in Amounts :
                   CreateSlip(r, d, earned, deducted) \/ UpdateSlip(r, d, earned, deducted)
        BY <3>1, <4>1 DEF CreateSlip, UpdateSlip
      <4>2. CASE SaveSlip(r) \/ DeleteSlip(r)
        <5>1. pay[r].of # e
          BY <3>1, <4>2 DEF SaveSlip, DeleteSlip
        <5>2. slip'[e] = slip[e]
          BY <4>2, <5>1 DEF SaveSlip, DeleteSlip
        <5>3. QED
          BY <3>1, <5>2
      <4>3. CASE Attach(r)
        BY <3>1, <4>3 DEF Attach, Shows, Slip
      <4>4. CASE LockSlips(r)
        BY <3>1, <4>4 DEF LockSlips, EverySlip, Shows, Slip
      <4>5. CASE slip' = slip
        BY <3>1, <4>5
      <4>6. QED
        BY <2>1, <4>1, <4>2, <4>3, <4>4, <4>5
           DEF GetSlip, RemoveSlip, Render, RunPayroll, Aggregate, PutRun, FinaliseRun, LockRun, PayDies
    <3>3. \A o \in Requests : pay'[o].of = e => pay'[o].pc \notin {"edit", "delete"}
      <4>1. \A o \in Requests : o # r => pay'[o] = pay[o] \/ pay'[o] = Done
        BY <2>1 DEF CreateSlip, UpdateSlip, GetSlip, RemoveSlip, SaveSlip, Render, Attach,
                    DeleteSlip, RunPayroll, Aggregate, PutRun, FinaliseRun, LockRun,
                    LockSlips, PayDies
      <4>2. pay'[r].of = e => pay'[r].pc \notin {"edit", "delete"}
        <5>1. ASSUME NEW d \in Employees, NEW earned \in Amounts, NEW deducted \in Amounts,
                     CreateSlip(r, d, earned, deducted) \/ UpdateSlip(r, d, earned, deducted)
              PROVE  pay'[r].of = e => pay'[r].pc \notin {"edit", "delete"}
          <6>1. CASE CreateSlip(r, d, earned, deducted)
            BY <6>1 DEF CreateSlip
          <6>2. CASE UpdateSlip(r, d, earned, deducted)
            <7>1. d # e
              BY <3>1, <6>2 DEF UpdateSlip, Locked
            <7>2. pay'[r].of = d
              BY <6>2 DEF UpdateSlip, Done
            <7>3. QED
              BY <7>1, <7>2
          <6>3. QED
            BY <5>1, <6>1, <6>2
        <5>2. ASSUME NEW d \in Employees, GetSlip(r, d) \/ RemoveSlip(r, d)
              PROVE  pay'[r].of = e => pay'[r].pc \notin {"edit", "delete"}
          <6>1. CASE GetSlip(r, d)
            BY <6>1 DEF GetSlip, Done
          <6>2. CASE RemoveSlip(r, d)
            <7>1. d # e
              BY <3>1, <6>2 DEF RemoveSlip, Locked
            <7>2. pay'[r].of = d
              BY <6>2 DEF RemoveSlip, Done
            <7>3. QED
              BY <7>1, <7>2
          <6>3. QED
            BY <5>2, <6>1, <6>2
        <5>3. CASE SaveSlip(r) \/ Render(r) \/ Attach(r) \/ DeleteSlip(r) \/ PayDies(r)
          <6>1. CASE SaveSlip(r)
            BY <6>1 DEF SaveSlip, PayRequest
          <6>2. CASE Render(r)
            BY <6>2 DEF Render, PayRequest, Done
          <6>3. CASE Attach(r) \/ PayDies(r)
            BY <6>3 DEF Attach, PayDies, Done
          <6>4. CASE DeleteSlip(r)
            BY <6>4 DEF DeleteSlip, Done
          <6>5. QED
            BY <5>3, <6>1, <6>2, <6>3, <6>4
        <5>4. CASE RunPayroll(r) \/ Aggregate(r) \/ PutRun(r)
          <6>1. CASE RunPayroll(r)
            BY <6>1 DEF RunPayroll, Done
          <6>2. CASE Aggregate(r)
            BY <6>2 DEF Aggregate, Done
          <6>3. CASE PutRun(r)
            BY <6>3 DEF PutRun, Done
          <6>4. QED
            BY <5>4, <6>1, <6>2, <6>3
        <5>5. CASE FinaliseRun(r) \/ LockRun(r) \/ LockSlips(r)
          BY <5>5 DEF FinaliseRun, LockRun, LockSlips, Done
        <5>6. QED
          BY <2>1, <5>1, <5>2, <5>3, <5>4, <5>5, Zenon
      <4>3. QED
        BY <3>1, <4>1, <4>2 DEF Done
    <3>4. QED
      BY <3>2, <3>3 DEF SlipAtRest
  <2>4. QED
    BY <2>2, <2>3, Zenon
<1>2. QED
  BY <1>1, PayrollInvariance, PTL DEF PayrollSpec, FinalisedStays

\* A request that works on a slip works on one that exists.
SlipThere == \A r \in Requests : pay[r].pc # "idle" /\ pay[r].of # None => slip[pay[r].of].status # "none"

\* What a request read of a slip, or printed of it, still holds when nobody has
\* saved the slip since, and nobody had saved it over another one's changes.
FiguresHold(r) ==
  LET q == pay[r]
      s == slip[q.of]
  IN
  /\ q.pc = "edit" => /\ q.old.earned = s.earned /\ q.old.deducted = s.deducted
                      /\ q.old.net = s.net /\ q.old.pdf = s.pdf
  /\ q.pc = "render" => Shows(q.new) = Shows(s)
  /\ q.pc = "attach" => file[q.of] = Shows(s)
FiguresRead == \A r \in Requests \ payStale : pay[r].of \notin payRaced => FiguresHold(r)

\* An edit has computed its net, and unlinks the PDF.
EditSound == \A r \in Requests :
  pay[r].pc = "edit" => pay[r].new.net = pay[r].new.earned - pay[r].new.deducted /\ ~pay[r].new.pdf

SlipsAgree == \A e \in Slips \ payRaced :
  /\ slip[e].net = slip[e].earned - slip[e].deducted
  /\ slip[e].pdf => file[e] = Shows(slip[e])

\* The sums are those of the slips, before they are put and after, unless a slip
\* has changed since they were made.  (Before there is a run nothing is summed.)
SumsAgree ==
  /\ \A r \in Requests \ moved : pay[r].pc = "put" => pay[r].totals = SumOfSlips
  /\ None \notin moved => run.totals = SumOfSlips

FiguresIInv == SlipThere /\ FiguresRead /\ EditSound /\ SlipsAgree /\ SumsAgree

LEMMA FiguresInit == PayrollInit => FiguresIInv
<1> SUFFICES ASSUME PayrollInit PROVE FiguresIInv
  OBVIOUS
<1>1. \A r \in Requests : pay[r].pc = "idle"
  BY DEF PayrollInit, Done
<1>2. \A e \in Employees : slip[e].status = "none"
  BY DEF PayrollInit, NoSlip
<1>3. run.totals = SumOfSlips
  <2>1. Slips = {}
    BY <1>2 DEF Slips
  <2>2. QED
    BY <2>1 DEF PayrollInit, NoRun, NoSlips, SumOfSlips, Summed
<1>4. QED
  BY <1>1, <1>2, <1>3 DEF FiguresIInv, SlipThere, FiguresRead, FiguresHold, EditSound, SlipsAgree, Slips, SumsAgree

\* What an action makes of the request it is about, and of the others.
LEMMA AcceptedPay ==
  ASSUME Flight, NEW r \in Requests, NEW q, Accepted(r, q)
  PROVE  pay[r].pc = "idle" /\ pay'[r] = q /\ \A o \in Requests \ {r} : pay'[o] = pay[o]
BY DEF Accepted, Flight

LEMMA SlipThereNext == PayrollTypeOK /\ HeldInv /\ SlipThere /\ [PayrollNext]_payVars => SlipThere'
<1> SUFFICES ASSUME PayrollTypeOK, HeldInv, Documents, Flight, SlipThere, [PayrollNext]_payVars,
                    NEW o \in Requests, pay'[o].pc # "idle", pay'[o].of # None
             PROVE  slip'[pay'[o].of].status # "none"
  BY TypeParts DEF SlipThere
<1> DEFINE there == slip'[pay'[o].of].status # "none"
<1> USE PayrollAssumption
<1>0. pay[o].of \in Employees \cup {None}
  BY DEF Flight, PayRequest
<1>1. ASSUME pay'[o].of = pay[o].of, pay[o].pc # "idle",
             \A e \in Employees : slip[e].status # "none" => slip'[e].status # "none"
      PROVE  there
  BY <1>0, <1>1 DEF SlipThere
<1>2. ASSUME NEW r \in Requests, NEW e \in Employees, NEW earned \in Amounts, NEW deducted \in Amounts,
             CreateSlip(r, e, earned, deducted)
      PROVE  there
  <2>1. \A d \in Employees : slip'[d].status = IF d = e THEN "draft" ELSE slip[d].status
    BY <1>2 DEF CreateSlip, SlipOf, NoSlip, Documents
  <2> DEFINE new == SlipOf([NoSlip EXCEPT !.status = "draft"], earned, deducted)
             q == [Done EXCEPT !.pc = "render", !.of = e, !.old = new, !.new = new]
  <2>2. Accepted(r, q) /\ q.of = e
    BY <1>2, Zenon DEF CreateSlip, Done
  <2> HIDE DEF q
  <2>3. pay'[r].of = e /\ \A p \in Requests \ {r} : pay'[p] = pay[p]
    BY <2>2, AcceptedPay
  <2>4. QED
    BY <1>1, <2>1, <2>3
<1>3. ASSUME NEW r \in Requests, NEW e \in Employees, NEW q, Accepted(r, q),
             q.of = e, slip[e].status # "none", UNCHANGED slip
      PROVE  there
  <2>1. pay'[r] = q /\ \A p \in Requests \ {r} : pay'[p] = pay[p]
    BY <1>3, AcceptedPay
  <2>2. QED
    BY <1>1, <1>3, <2>1
<1>4. ASSUME NEW r \in Requests, NEW e \in Employees, NEW earned \in Amounts, NEW deducted \in Amounts,
             UpdateSlip(r, e, earned, deducted)
      PROVE  there
  <2>1. [Done EXCEPT !.pc = "edit", !.of = e, !.old = slip[e], !.new = SlipOf(slip[e], earned, deducted)].of = e
    BY DEF Done
  <2>2. QED
    BY <1>3, <1>4, <2>1 DEF UpdateSlip
<1>5. ASSUME NEW r \in Requests, NEW e \in Employees, GetSlip(r, e) \/ RemoveSlip(r, e) PROVE there
  <2>1. /\ [Done EXCEPT !.pc = "render", !.of = e, !.old = slip[e], !.new = slip[e]].of = e
        /\ [Done EXCEPT !.pc = "delete", !.of = e].of = e
    BY DEF Done
  <2>2. QED
    BY <1>3, <1>5, <2>1 DEF GetSlip, RemoveSlip
<1>6. ASSUME NEW r \in Requests, SaveSlip(r) \/ Attach(r) \/ LockSlips(r) PROVE there
  <2>1. \A e \in Employees : slip[e].status # "none" => slip'[e].status # "none"
    <3>1. CASE SaveSlip(r)
      BY <3>1 DEF SaveSlip, Documents
    <3>2. CASE Attach(r)
      BY <3>2 DEF Attach, Documents, Slip
    <3>3. CASE LockSlips(r)
      BY <3>3 DEF LockSlips, Documents, Slip
    <3>4. QED
      BY <1>6, <3>1, <3>2, <3>3
  <2>2. pay'[o].of = pay[o].of /\ pay[o].pc # "idle"
    <3>1. CASE SaveSlip(r)
      BY <3>1 DEF SaveSlip, Flight, PayRequest
    <3>2. CASE Attach(r) \/ LockSlips(r)
      BY <3>2 DEF Attach, LockSlips, Flight, Done
    <3>3. QED
      BY <1>6, <3>1, <3>2
  <2>3. QED
    BY <1>1, <2>1, <2>2
<1>7. ASSUME NEW r \in Requests, Render(r) PROVE there
  <2>1. pay'[o].of = pay[o].of /\ pay[o].pc # "idle"
    BY <1>7 DEF Render, Flight, PayRequest, Done
  <2>2. UNCHANGED slip
    BY <1>7 DEF Render
  <2>3. QED
    BY <1>1, <2>1, <2>2
<1>8. ASSUME NEW r \in Requests, DeleteSlip(r) PROVE there
  <2>1. pay'[o] = pay[o] /\ pay[o].of # pay[r].of
    BY <1>8 DEF DeleteSlip, Done
  <2>2. slip'[pay[o].of] = slip[pay[o].of]
    BY <1>0, <1>8, <2>1 DEF DeleteSlip, Documents
  <2>3. QED
    BY <1>0, <2>1, <2>2 DEF SlipThere
<1>9. ASSUME NEW r \in Requests,
             \/ RunPayroll(r) \/ Aggregate(r) \/ PutRun(r) \/ FinaliseRun(r) \/ LockRun(r) \/ PayDies(r)
      PROVE  there
  <2>1. UNCHANGED slip
    BY <1>9, Zenon DEF RunPayroll, Aggregate, PutRun, FinaliseRun, LockRun, PayDies
  <2>2. \A p \in Requests \ {r} : pay'[p] = pay[p]
    BY <1>9 DEF RunPayroll, Aggregate, PutRun, FinaliseRun, LockRun, PayDies, Accepted, Flight
  <2>3. pay'[r].of = None
    <3>1. CASE RunPayroll(r) \/ FinaliseRun(r) \/ LockRun(r)
      BY <3>1 DEF RunPayroll, FinaliseRun, LockRun, Accepted, Flight, Done
    <3>2. CASE Aggregate(r)
      BY <3>2 DEF Aggregate, Flight, Done
    <3>3. CASE PutRun(r) \/ PayDies(r)
      BY <3>3 DEF PutRun, PayDies, Flight, Done
    <3>4. QED
      BY <1>9, <3>1, <3>2, <3>3
  <2>4. QED
    BY <1>1, <2>1, <2>2, <2>3
<1>10. CASE UNCHANGED payVars
  BY <1>1, <1>10 DEF payVars
<1>11. QED
  BY <1>2, <1>4, <1>5, <1>6, <1>7, <1>8, <1>9, <1>10, Zenon DEF PayrollNext

LEMMA EditSoundNext == PayrollTypeOK /\ HeldInv /\ EditSound /\ [PayrollNext]_payVars => EditSound'
<1> SUFFICES ASSUME Documents, Flight, EditSound, [PayrollNext]_payVars,
                    NEW o \in Requests, pay'[o].pc = "edit"
             PROVE  pay'[o].new.net = pay'[o].new.earned - pay'[o].new.deducted /\ ~pay'[o].new.pdf
  BY TypeParts DEF EditSound
<1> DEFINE sound == pay'[o].new.net = pay'[o].new.earned - pay'[o].new.deducted /\ ~pay'[o].new.pdf
<1>1. ASSUME pay'[o] = pay[o] PROVE sound
  BY <1>1 DEF EditSound
<1>2. ASSUME NEW r \in Requests, NEW q, pay' = [pay EXCEPT ![r] = q], q.pc # "edit" PROVE sound
  <2>1. o # r /\ pay'[o] = pay[o]
    BY <1>2 DEF Flight
  <2>2. QED
    BY <1>1, <2>1
<1>3. ASSUME NEW r \in Requests, NEW pc, pc # "edit", pay' = [pay EXCEPT ![r].pc = pc] PROVE sound
  <2>1. o # r /\ pay'[o] = pay[o]
    BY <1>3 DEF Flight, PayRequest
  <2>2. QED
    BY <1>1, <2>1
<1>4. ASSUME NEW r \in Requests, NEW e \in Employees, NEW earned \in Amounts, NEW deducted \in Amounts,
             CreateSlip(r, e, earned, deducted)
      PROVE  sound
  <2> DEFINE new == SlipOf([NoSlip EXCEPT !.status = "draft"], earned, deducted)
             q == [Done EXCEPT !.pc = "render", !.of = e, !.old = new, !.new = new]
  <2>1. pay' = [pay EXCEPT ![r] = q] /\ q.pc = "render"
    BY <1>4, Zenon DEF CreateSlip, Accepted, Done
  <2> HIDE DEF q
  <2>2. QED
    BY <1>2, <2>1
<1>5. ASSUME NEW r \in Requests, NEW e \in Employees, NEW earned \in Amounts, NEW deducted \in Amounts,
             UpdateSlip(r, e, earned, deducted)
      PROVE  sound
  <2> DEFINE new == SlipOf(slip[e], earned, deducted)
             q == [Done EXCEPT !.pc = "edit", !.of = e, !.old = slip[e], !.new = new]
  <2>1. new.net = new.earned - new.deducted /\ ~new.pdf
    BY DEF SlipOf, Net, Documents, Slip
  <2> HIDE DEF new
  <2>2. q.new = new
    BY DEF Done
  <2>3. Accepted(r, q)
    BY <1>5 DEF UpdateSlip, new
  <2> HIDE DEF q
  <2>4. pay'[r] = q /\ \A p \in Requests \ {r} : pay'[p] = pay[p]
    BY <2>3, AcceptedPay
  <2>5. QED
    BY <1>1, <2>1, <2>2, <2>4
<1>6. ASSUME NEW r \in Requests, NEW e \in Employees, GetSlip(r, e) \/ RemoveSlip(r, e) PROVE sound
  <2>1. /\ [Done EXCEPT !.pc = "render", !.of = e, !.old = slip[e], !.new = slip[e]].pc = "render"
        /\ [Done EXCEPT !.pc = "delete", !.of = e].pc = "delete"
    BY DEF Done
  <2>2. QED
    BY <1>2, <1>6, <2>1 DEF GetSlip, RemoveSlip, Accepted
<1>7. ASSUME NEW r \in Requests, SaveSlip(r) PROVE sound
  BY <1>3, <1>7 DEF SaveSlip
<1>8. ASSUME NEW r \in Requests, Render(r) PROVE sound
  BY <1>2, <1>3, <1>8 DEF Render, Done
<1>9. ASSUME NEW r \in Requests, DeleteSlip(r) PROVE sound
  BY <1>1, <1>9 DEF DeleteSlip, Done
<1>10. ASSUME NEW r \in Requests, RunPayroll(r) \/ FinaliseRun(r) \/ LockRun(r) \/ Aggregate(r) PROVE sound
  <2>1. /\ [Done EXCEPT !.pc = "sum"].pc = "sum" /\ [Done EXCEPT !.pc = "lock"].pc = "lock"
        /\ [Done EXCEPT !.pc = "slips"].pc = "slips"
        /\ [Done EXCEPT !.pc = "put", !.totals = SumOfSlips].pc = "put"
    BY DEF Done
  <2>2. QED
    BY <1>2, <1>10, <2>1 DEF RunPayroll, FinaliseRun, LockRun, Aggregate, Accepted
<1>11. ASSUME NEW r \in Requests, Attach(r) \/ PutRun(r) \/ LockSlips(r) \/ PayDies(r) PROVE sound
  BY <1>2, <1>11 DEF Attach, PutRun, LockSlips, PayDies, Done
<1>12. CASE UNCHANGED payVars
  BY <1>1, <1>12 DEF payVars
<1>13. QED
  BY <1>4, <1>5, <1>6, <1>7, <1>8, <1>9, <1>10, <1>11, <1>12, Zenon DEF PayrollNext

LEMMA ShowsSame ==
  ASSUME NEW s, NEW t
  PROVE  Shows(s) = Shows(t) <=> s.earned = t.earned /\ s.deducted = t.deducted /\ s.net = t.net
BY DEF Shows

\* A request that a step leaves alone keeps its reading when the slip and the
\* file are as they were.
LEMMA FiguresKept ==
  ASSUME NEW o, FiguresHold(o), pay'[o] = pay[o],
         pay[o].pc \in {"edit", "render", "attach"} =>
           /\ slip'[pay[o].of].earned = slip[pay[o].of].earned
           /\ slip'[pay[o].of].deducted = slip[pay[o].of].deducted
           /\ slip'[pay[o].of].net = slip[pay[o].of].net
           /\ slip'[pay[o].of].pdf = slip[pay[o].of].pdf
           /\ file'[pay[o].of] = file[pay[o].of]
  PROVE  FiguresHold(o)'
<1>1. CASE pay[o].pc \in {"edit", "render", "attach"}
  <2>1. Shows(slip'[pay[o].of]) = Shows(slip[pay[o].of])
    BY <1>1, ShowsSame
  <2>2. QED
    BY <1>1, <2>1 DEF FiguresHold
<1>2. CASE pay[o].pc \notin {"edit", "render", "attach"}
  BY <1>2 DEF FiguresHold
<1>3. QED
  BY <1>1, <1>2

\* The slip is created, read, or left alone.
LEMMA FiguresBegin ==
  ASSUME PayrollTypeOK, HeldInv, SlipThere, FiguresRead, SlipsAgree, NEW r \in Requests,
         \/ \E e \in Employees, earned, deducted \in Amounts :
              CreateSlip(r, e, earned, deducted) \/ UpdateSlip(r, e, earned, deducted)
         \/ \E e \in Employees : GetSlip(r, e) \/ RemoveSlip(r, e)
         \/ RunPayroll(r) \/ Aggregate(r) \/ PutRun(r) \/ FinaliseRun(r) \/ LockRun(r) \/ PayDies(r)
  PROVE  FiguresRead' /\ SlipsAgree'
<1> USE PayrollAssumption
<1>0. Documents /\ Flight
  BY TypeParts
<1>1. ASSUME UNCHANGED <<slip, file, payRaced>>, payStale \subseteq payStale' \cup {r},
             \A o \in Requests \ {r} : pay'[o] = pay[o], FiguresHold(r)'
      PROVE  FiguresRead' /\ SlipsAgree'
  <2>1. \A o \in Requests \ {r} : FiguresHold(o) => FiguresHold(o)'
    BY <1>1, FiguresKept
  <2>2. FiguresRead'
    BY <1>1, <2>1 DEF FiguresRead
  <2>3. SlipsAgree'
    BY <1>1 DEF SlipsAgree, Slips
  <2>4. QED
    BY <2>2, <2>3
<1>2. ASSUME NEW e \in Employees, NEW earned \in Amounts, NEW deducted \in Amounts,
             CreateSlip(r, e, earned, deducted)
      PROVE  FiguresRead' /\ SlipsAgree'
  <2> DEFINE new == SlipOf([NoSlip EXCEPT !.status = "draft"], earned, deducted)
             q == [Done EXCEPT !.pc = "render", !.of = e, !.old = new, !.new = new]
  <2>1. new.net = new.earned - new.deducted /\ ~new.pdf
    BY DEF SlipOf, Net, NoSlip
  <2> HIDE DEF new
  <2>2. q.pc = "render" /\ q.of = e /\ q.new = new
    BY DEF Done
  <2>3. /\ Accepted(r, q) /\ slip' = [slip EXCEPT ![e] = new] /\ slip[e].status = "none"
        /\ UNCHANGED <<file, payStale>> /\ payRaced' = payRaced \ {e}
    BY <1>2, Zenon DEF CreateSlip, new
  <2> HIDE DEF q
  <2>4. pay'[r] = q /\ \A p \in Requests \ {r} : pay'[p] = pay[p]
    BY <1>0, <2>3, AcceptedPay
  <2>5. slip'[e] = new /\ \A d \in Employees \ {e} : slip'[d] = slip[d]
    BY <1>0, <2>3 DEF Documents
  <2>6. FiguresHold(r)'
    BY <2>2, <2>4, <2>5 DEF FiguresHold
  <2>7. ASSUME NEW o \in Requests \ {r}, o \notin payStale', pay'[o].of \notin payRaced' PROVE FiguresHold(o)'
    <3>1. CASE pay[o].pc \in {"edit", "render", "attach"}
      <4>1. pay[o].of \in Employees \ {e}
        BY <1>0, <2>3, <3>1 DEF SlipThere, Flight, HeldInv
      <4>2. FiguresHold(o)
        BY <2>3, <2>4, <2>7, <4>1 DEF FiguresRead
      <4>3. QED
        BY <2>3, <2>4, <2>5, <4>1, <4>2, FiguresKept
    <3>2. CASE pay[o].pc \notin {"edit", "render", "attach"}
      BY <2>4, <3>2 DEF FiguresHold
    <3>3. QED
      BY <3>1, <3>2
  <2>8. FiguresRead'
    BY <2>6, <2>7 DEF FiguresRead
  <2>9. SlipsAgree'
    BY <2>1, <2>3, <2>5 DEF SlipsAgree, Slips
  <2>10. QED
    BY <2>8, <2>9
<1>3. ASSUME NEW q, Accepted(r, q), UNCHANGED <<slip, file, payRaced, payStale>>,
             q.pc \in {"edit", "render"} => q.old = slip[q.of] /\ (q.pc = "render" => q.new = q.old),
             q.pc # "attach"
      PROVE  FiguresRead' /\ SlipsAgree'
  <2>1. pay'[r] = q /\ \A p \in Requests \ {r} : pay'[p] = pay[p]
    BY <1>0, <1>3, AcceptedPay
  <2>2. FiguresHold(r)'
    BY <1>3, <2>1 DEF FiguresHold
  <2>3. QED
    BY <1>1, <1>3, <2>1, <2>2
<1>4. ASSUME NEW e \in Employees, NEW earned \in Amounts, NEW deducted \in Amounts,
             UpdateSlip(r, e, earned, deducted)
      PROVE  FiguresRead' /\ SlipsAgree'
  <2> DEFINE q == [Done EXCEPT !.pc = "edit", !.of = e, !.old = slip[e],
                               !.new = SlipOf(slip[e], earned, deducted)]
  <2>1. q.pc = "edit" /\ q.of = e /\ q.old = slip[e]
    BY DEF Done
  <2>2. Accepted(r, q) /\ UNCHANGED <<slip, file, payRaced, payStale>>
    BY <1>4, Zenon DEF UpdateSlip, payHistory
  <2> HIDE DEF q
  <2>3. QED
    BY <1>3, <2>1, <2>2
<1>5. ASSUME NEW e \in Employees, GetSlip(r, e) PROVE FiguresRead' /\ SlipsAgree'
  <2> DEFINE q == [Done EXCEPT !.pc = "render", !.of = e, !.old = slip[e], !.new = slip[e]]
  <2>1. q.pc = "render" /\ q.of = e /\ q.old = slip[e] /\ q.new = slip[e]
    BY DEF Done
  <2>2. Accepted(r, q) /\ UNCHANGED <<slip, file, payRaced, payStale>>
    BY <1>5, Zenon DEF GetSlip, payHistory
  <2> HIDE DEF q
  <2>3. QED
    BY <1>3, <2>1, <2>2
<1>6. ASSUME NEW e \in Employees, RemoveSlip(r, e) PROVE FiguresRead' /\ SlipsAgree'
  <2>1. [Done EXCEPT !.pc = "delete", !.of = e].pc = "delete"
    BY DEF Done
  <2>2. Accepted(r, [Done EXCEPT !.pc = "delete", !.of = e]) /\ UNCHANGED <<slip, file, payRaced, payStale>>
    BY <1>6, Zenon DEF RemoveSlip, payHistory
  <2>3. QED
    BY <1>3, <2>1, <2>2
<1>7. ASSUME RunPayroll(r) \/ FinaliseRun(r) PROVE FiguresRead' /\ SlipsAgree'
  <2>1. [Done EXCEPT !.pc = "sum"].pc = "sum" /\ [Done EXCEPT !.pc = "lock"].pc = "lock"
    BY DEF Done
  <2>2. /\ Accepted(r, [Done EXCEPT !.pc = "sum"]) \/ Accepted(r, [Done EXCEPT !.pc = "lock"])
        /\ UNCHANGED <<slip, file, payRaced, payStale>>
    BY <1>7, Zenon DEF RunPayroll, FinaliseRun, payHistory
  <2>3. QED
    BY <1>3, <2>1, <2>2
<1>8. ASSUME Aggregate(r) \/ PutRun(r) \/ LockRun(r) \/ PayDies(r) PROVE FiguresRead' /\ SlipsAgree'
  <2>1. UNCHANGED <<slip, file, payRaced>> /\ payStale \subseteq payStale' \cup {r}
    <3>1. CASE Aggregate(r) \/ PutRun(r)
      BY <3>1, Zenon DEF Aggregate, PutRun
    <3>2. CASE LockRun(r)
      BY <3>2, Zenon DEF LockRun, payHistory
    <3>3. CASE PayDies(r)
      BY <3>3 DEF PayDies
    <3>4. QED
      BY <1>8, <3>1, <3>2, <3>3
  <2>2. \A p \in Requests \ {r} : pay'[p] = pay[p]
    BY <1>0, <1>8 DEF Aggregate, PutRun, LockRun, PayDies, Flight
  <2>3. pay'[r].pc \notin {"edit", "render", "attach"}
    <3>1. CASE Aggregate(r)
      BY <1>0, <3>1 DEF Aggregate, Flight, Done
    <3>2. CASE PutRun(r) \/ LockRun(r) \/ PayDies(r)
      BY <1>0, <3>2 DEF PutRun, LockRun, PayDies, Flight, Done
    <3>3. QED
      BY <1>8, <3>1, <3>2
  <2>4. FiguresHold(r)'
    BY <2>3 DEF FiguresHold
  <2>5. QED
    BY <1>1, <2>1, <2>2, <2>4
<1>9. QED
  BY <1>2, <1>4, <1>5, <1>6, <1>7, <1>8, Zenon

LEMMA FiguresSave ==
  ASSUME PayrollTypeOK, HeldInv, FiguresRead, EditSound, SlipsAgree, NEW r \in Requests, SaveSlip(r)
  PROVE  FiguresRead' /\ SlipsAgree'
<1> DEFINE e == pay[r].of
           q == pay[r]
<1>0. Documents /\ Flight
  BY TypeParts
<1>1. /\ e \in Employees /\ q.pc = "edit" /\ q.new.net = q.new.earned - q.new.deducted /\ ~q.new.pdf
      /\ q.new \in Slip /\ q.old \in Slip /\ slip[e] \in Slip
  BY <1>0 DEF SaveSlip, Flight, HeldInv, EditSound, PayRequest, Documents
<1>2. /\ slip'[e].earned = Saved(slip[e].earned, q.old.earned, q.new.earned)
      /\ slip'[e].deducted = Saved(slip[e].deducted, q.old.deducted, q.new.deducted)
      /\ slip'[e].net = Saved(slip[e].net, q.old.net, q.new.net)
      /\ slip'[e].pdf = Saved(slip[e].pdf, q.old.pdf, q.new.pdf)
      /\ slip'[e].status = slip[e].status
      /\ \A d \in Employees \ {e} : slip'[d] = slip[d]
  BY <1>0, <1>1 DEF SaveSlip, Documents
<1>3. /\ pay'[r].pc = "render" /\ pay'[r].of = e /\ pay'[r].new = q.new
      /\ \A o \in Requests \ {r} : pay'[o] = pay[o]
  BY <1>0 DEF SaveSlip, Flight, PayRequest
<1>4. /\ payStale' = (payStale \cup {o \in Requests : pay[o].of = e /\ pay[o].pc # "idle"}) \ {r}
      /\ payRaced' = IF r \in payStale THEN payRaced \cup {e} ELSE payRaced
      /\ UNCHANGED file
  BY DEF SaveSlip, Overwrites
<1>5. ASSUME e \notin payRaced'
      PROVE  /\ slip'[e].earned = q.new.earned /\ slip'[e].deducted = q.new.deducted
             /\ slip'[e].net = q.new.net /\ slip'[e].pdf = q.new.pdf
  <2>1. r \notin payStale /\ e \notin payRaced
    BY <1>4, <1>5
  <2>2. FiguresHold(r)
    BY <2>1 DEF FiguresRead
  <2>3. /\ q.old.earned = slip[e].earned /\ q.old.deducted = slip[e].deducted
        /\ q.old.net = slip[e].net /\ q.old.pdf = slip[e].pdf
    BY <1>1, <2>2, Zenon DEF FiguresHold
  <2>4. \A cur, old, new : old = cur => Saved(cur, old, new) = new
    BY Zenon DEF Saved
  <2>5. /\ Saved(slip[e].earned, q.old.earned, q.new.earned) = q.new.earned
        /\ Saved(slip[e].deducted, q.old.deducted, q.new.deducted) = q.new.deducted
        /\ Saved(slip[e].net, q.old.net, q.new.net) = q.new.net
        /\ Saved(slip[e].pdf, q.old.pdf, q.new.pdf) = q.new.pdf
    BY <2>3, <2>4
  <2>6. QED
    BY <1>2, <2>5, Zenon
<1>6. e \notin payRaced' => FiguresHold(r)'
  BY <1>3, <1>5, ShowsSame DEF FiguresHold
<1>7. ASSUME NEW o \in Requests \ {r}, o \notin payStale', pay'[o].of \notin payRaced' PROVE FiguresHold(o)'
  <2>1. o \notin payStale /\ pay[o].of \notin payRaced /\ (pay[o].of = e => pay[o].pc = "idle")
    BY <1>3, <1>4, <1>7
  <2>2. pay[o].pc \in {"edit", "render", "attach"} => pay[o].of \in Employees \ {e}
    BY <1>0, <2>1 DEF Flight, HeldInv
  <2>3. FiguresHold(o)
    BY <2>1 DEF FiguresRead
  <2>4. QED
    BY <1>2, <1>3, <1>4, <2>2, <2>3, FiguresKept
<1>8. FiguresRead'
  BY <1>3, <1>6, <1>7 DEF FiguresRead
<1>9. ASSUME NEW d \in Employees, slip'[d].status # "none", d \notin payRaced'
      PROVE  /\ slip'[d].net = slip'[d].earned - slip'[d].deducted
             /\ slip'[d].pdf => file'[d] = Shows(slip'[d])
  <2>1. CASE d = e
    BY <1>1, <1>5, <1>9, <2>1
  <2>2. CASE d # e
    BY <1>2, <1>4, <1>9, <2>2 DEF SlipsAgree, Slips
  <2>3. QED
    BY <2>1, <2>2
<1>10. SlipsAgree'
  BY <1>9 DEF SlipsAgree, Slips
<1>11. QED
  BY <1>8, <1>10

LEMMA FiguresRender ==
  ASSUME PayrollTypeOK, HeldInv, FiguresRead, SlipsAgree, NEW r \in Requests, Render(r)
  PROVE  FiguresRead' /\ SlipsAgree'
<1> DEFINE e == pay[r].of
<1>0. Documents /\ Flight
  BY TypeParts
<1>1. e \in Employees /\ pay[r].pc = "render" /\ UNCHANGED slip
  BY <1>0 DEF Render, Flight, HeldInv
<1>2. /\ \A o \in Requests \ {r} : pay'[o] = pay[o]
      /\ pay'[r].pc \in {"idle", "attach"} /\ (pay'[r].pc = "attach" => pay'[r].of = e)
      /\ payStale \subseteq payStale' \cup {r} /\ payRaced \subseteq payRaced'
      /\ pay'[r].pc = "attach" => payStale' = payStale
  BY <1>0 DEF Render, Flight, PayRequest, Done
<1>3. CASE file' = [file EXCEPT ![e] = Shows(pay[r].new)] /\ payRaced' = IF r \in payStale THEN payRaced \cup {e} ELSE payRaced
  <2>1. file'[e] = Shows(pay[r].new) /\ \A d \in Employees \ {e} : file'[d] = file[d]
    BY <1>0, <1>1, <1>3 DEF Documents
  <2>2. e \notin payRaced' => file'[e] = Shows(slip[e])
    <3>1. SUFFICES ASSUME e \notin payRaced' PROVE Shows(pay[r].new) = Shows(slip[e])
      BY <2>1
    <3>2. r \notin payStale /\ e \notin payRaced
      BY <1>3, <3>1
    <3>3. FiguresHold(r)
      BY <3>2 DEF FiguresRead
    <3>4. QED
      BY <1>1, <3>3 DEF FiguresHold
  <2>3. ASSUME NEW o \in Requests, o \notin payStale', pay'[o].of \notin payRaced' PROVE FiguresHold(o)'
    <3>1. CASE o = r
      BY <1>1, <1>2, <2>2, <2>3, <3>1 DEF FiguresHold
    <3>2. CASE o # r
      <4>1. FiguresHold(o)
        BY <1>2, <2>3, <3>2 DEF FiguresRead
      <4>2. CASE pay[o].pc = "attach" /\ pay[o].of = e
        BY <1>1, <1>2, <2>2, <2>3, <3>2, <4>2 DEF FiguresHold
      <4>3. CASE pay[o].pc = "attach" /\ pay[o].of # e
        <5>1. pay[o].of \in Employees \ {e}
          BY <1>0, <4>3 DEF Flight, HeldInv
        <5>2. QED
          BY <1>1, <1>2, <2>1, <3>2, <4>1, <5>1, FiguresKept
      <4>4. CASE pay[o].pc # "attach"
        BY <1>1, <1>2, <3>2, <4>1, <4>4 DEF FiguresHold
      <4>5. QED
        BY <4>2, <4>3, <4>4
    <3>3. QED
      BY <3>1, <3>2
  <2>4. SlipsAgree'
    <3>1. ASSUME NEW d \in Employees, slip[d].status # "none", d \notin payRaced'
          PROVE  slip[d].net = slip[d].earned - slip[d].deducted /\ (slip[d].pdf => file'[d] = Shows(slip[d]))
      BY <1>2, <2>1, <2>2, <3>1 DEF SlipsAgree, Slips
    <3>2. QED
      BY <1>1, <3>1 DEF SlipsAgree, Slips
  <2>5. QED
    BY <2>3, <2>4 DEF FiguresRead
<1>4. CASE UNCHANGED <<file, payRaced>> /\ pay' = [pay EXCEPT ![r] = Done]
  <2>1. FiguresHold(r)'
    BY <1>0, <1>4 DEF FiguresHold, Flight, Done
  <2>2. \A o \in Requests \ {r} : FiguresHold(o) => FiguresHold(o)'
    BY <1>1, <1>2, <1>4, FiguresKept
  <2>3. FiguresRead'
    BY <1>2, <1>4, <2>1, <2>2 DEF FiguresRead
  <2>4. SlipsAgree'
    BY <1>1, <1>4 DEF SlipsAgree, Slips
  <2>5. QED
    BY <2>3, <2>4
<1>5. QED
  BY <1>3, <1>4, Zenon DEF Render

LEMMA FiguresAttach ==
  ASSUME PayrollTypeOK, HeldInv, FiguresRead, SlipsAgree, NEW r \in Requests, Attach(r)
  PROVE  FiguresRead' /\ SlipsAgree'
<1> DEFINE e == pay[r].of
<1>0. Documents /\ Flight
  BY TypeParts
<1>1. e \in Employees /\ pay[r].pc = "attach" /\ UNCHANGED file
  BY <1>0 DEF Attach, Flight, HeldInv
<1>2. /\ pay'[r].pc = "idle" /\ \A o \in Requests \ {r} : pay'[o] = pay[o]
      /\ slip'[e].earned = slip[e].earned /\ slip'[e].deducted = slip[e].deducted
      /\ slip'[e].net = slip[e].net /\ slip'[e].status = slip[e].status
      /\ \A d \in Employees \ {e} : slip'[d] = slip[d]
  BY <1>0, <1>1 DEF Attach, Flight, Documents, Slip, Done
<1>3. /\ payStale' = (payStale \cup {o \in Requests : pay[o].of = e /\ pay[o].pc # "idle"}) \ {r}
      /\ payRaced' = IF r \in payStale THEN payRaced \cup {e} ELSE payRaced
  BY DEF Attach, Overwrites
<1>4. e \notin payRaced' => file[e] = Shows(slip[e])
  <2>1. SUFFICES ASSUME r \notin payStale, e \notin payRaced PROVE file[e] = Shows(slip[e])
    BY <1>3
  <2>2. FiguresHold(r)
    BY <2>1 DEF FiguresRead
  <2>3. QED
    BY <1>1, <2>2 DEF FiguresHold
<1>5. ASSUME NEW o \in Requests, o \notin payStale', pay'[o].of \notin payRaced' PROVE FiguresHold(o)'
  <2>1. CASE o = r
    BY <1>2, <2>1 DEF FiguresHold
  <2>2. CASE o # r
    <3>1. o \notin payStale /\ pay[o].of \notin payRaced /\ (pay[o].of = e => pay[o].pc = "idle")
      BY <1>2, <1>3, <1>5, <2>2
    <3>2. pay[o].pc \in {"edit", "render", "attach"} => pay[o].of \in Employees \ {e}
      BY <1>0, <3>1 DEF Flight, HeldInv
    <3>3. FiguresHold(o)
      BY <3>1 DEF FiguresRead
    <3>4. QED
      BY <1>1, <1>2, <2>2, <3>2, <3>3, FiguresKept
  <2>3. QED
    BY <2>1, <2>2
<1>6. Shows(slip'[e]) = Shows(slip[e])
  BY <1>2, ShowsSame
<1>7. ASSUME NEW d \in Employees, slip'[d].status # "none", d \notin payRaced'
      PROVE  /\ slip'[d].net = slip'[d].earned - slip'[d].deducted
             /\ slip'[d].pdf => file'[d] = Shows(slip'[d])
  <2>1. CASE d = e
    <3>1. slip[e].net = slip[e].earned - slip[e].deducted
      BY <1>2, <1>3, <1>7, <2>1 DEF SlipsAgree, Slips
    <3>2. QED
      BY <1>1, <1>2, <1>4, <1>6, <1>7, <2>1, <3>1
  <2>2. CASE d # e
    BY <1>1, <1>2, <1>3, <1>7, <2>2 DEF SlipsAgree, Slips
  <2>3. QED
    BY <2>1, <2>2
<1>8. QED
  BY <1>5, <1>7 DEF FiguresRead, SlipsAgree, Slips

LEMMA FiguresOthers ==
  ASSUME PayrollTypeOK, HeldInv, FiguresRead, SlipsAgree, NEW r \in Requests, DeleteSlip(r) \/ LockSlips(r)
  PROVE  FiguresRead' /\ SlipsAgree'
<1>0. Documents /\ Flight
  BY TypeParts
<1>1. CASE DeleteSlip(r)
  <2> DEFINE e == pay[r].of
  <2>1. /\ e \in Employees /\ UNCHANGED <<file, payRaced>>
        /\ slip'[e] = NoSlip /\ \A d \in Employees \ {e} : slip'[d] = slip[d]
    BY <1>0, <1>1 DEF DeleteSlip, Flight, HeldInv, Documents
  <2>2. \A o \in Requests : /\ pay[o].of = e => pay'[o].pc = "idle"
                            /\ pay[o].of # e => pay'[o] = pay[o] /\ (o \in payStale => o \in payStale')
    BY <1>0, <1>1 DEF DeleteSlip, Done
  <2>3. ASSUME NEW o \in Requests, o \notin payStale', pay'[o].of \notin payRaced' PROVE FiguresHold(o)'
    <3>1. CASE pay[o].of = e
      BY <2>2, <3>1 DEF FiguresHold
    <3>2. CASE pay[o].of # e
      <4>1. FiguresHold(o)
        BY <2>1, <2>2, <2>3, <3>2 DEF FiguresRead
      <4>2. pay[o].pc \in {"edit", "render", "attach"} => pay[o].of \in Employees \ {e}
        BY <1>0, <3>2 DEF Flight, HeldInv
      <4>3. QED
        BY <2>1, <2>2, <3>2, <4>1, <4>2, FiguresKept
    <3>3. QED
      BY <3>1, <3>2
  <2>4. SlipsAgree'
    BY <2>1 DEF SlipsAgree, Slips, NoSlip
  <2>5. QED
    BY <2>3, <2>4 DEF FiguresRead
<1>2. CASE LockSlips(r)
  <2>1. /\ UNCHANGED <<file, payRaced, payStale>>
        /\ pay'[r].pc = "idle" /\ \A o \in Requests \ {r} : pay'[o] = pay[o]
    BY <1>0, <1>2 DEF LockSlips, payHistory, Flight, Done
  <2>2. \A d \in Employees : /\ slip'[d].earned = slip[d].earned /\ slip'[d].deducted = slip[d].deducted
                             /\ slip'[d].net = slip[d].net /\ slip'[d].pdf = slip[d].pdf
                             /\ slip'[d].status # "none" => slip[d].status # "none"
    BY <1>0, <1>2 DEF LockSlips, Documents, Slip, Slips
  <2>3. \A o \in Requests \ {r} : FiguresHold(o) => FiguresHold(o)'
    BY <1>0, <2>1, <2>2, FiguresKept DEF Flight, HeldInv
  <2>4. FiguresHold(r)'
    BY <2>1 DEF FiguresHold
  <2>5. FiguresRead'
    BY <2>1, <2>3, <2>4 DEF FiguresRead
  <2>6. \A d \in Employees : Shows(slip'[d]) = Shows(slip[d])
    BY <2>2, ShowsSame
  <2>7. SlipsAgree'
    BY <2>1, <2>2, <2>6 DEF SlipsAgree, Slips
  <2>8. QED
    BY <2>5, <2>7
<1>3. QED
  BY <1>1, <1>2

LEMMA FiguresNext ==
  PayrollTypeOK /\ HeldInv /\ SlipThere /\ EditSound /\ FiguresRead /\ SlipsAgree /\ [PayrollNext]_payVars
    => FiguresRead' /\ SlipsAgree'
<1>1. ASSUME FiguresRead, SlipsAgree, UNCHANGED payVars PROVE FiguresRead' /\ SlipsAgree'
  <2>1. UNCHANGED <<slip, file, pay, payStale, payRaced>>
    BY <1>1, Zenon DEF payVars, payHistory
  <2>2. \A o \in Requests : FiguresHold(o) => FiguresHold(o)'
    BY <2>1, FiguresKept
  <2>3. QED
    BY <1>1, <2>1, <2>2 DEF FiguresRead, SlipsAgree, Slips
<1>2. ASSUME PayrollTypeOK, HeldInv, SlipThere, EditSound, FiguresRead, SlipsAgree, PayrollNext
      PROVE  FiguresRead' /\ SlipsAgree'
  <2>1. PICK r \in Requests :
          \/ \/ \E e \in Employees, earned, deducted \in Amounts :
                  CreateSlip(r, e, earned, deducted) \/ UpdateSlip(r, e, earned, deducted)
             \/ \E e \in Employees : GetSlip(r, e) \/ RemoveSlip(r, e)
             \/ RunPayroll(r) \/ Aggregate(r) \/ PutRun(r) \/ FinaliseRun(r) \/ LockRun(r) \/ PayDies(r)
          \/ SaveSlip(r) \/ Render(r) \/ Attach(r) \/ DeleteSlip(r) \/ LockSlips(r)
    BY <1>2, Zenon DEF PayrollNext
  <2>2. QED
    BY <1>2, <2>1, FiguresBegin, FiguresSave, FiguresRender, FiguresAttach, FiguresOthers
<1>3. QED
  BY <1>1, <1>2, Zenon

LEMMA SumSame ==
  ASSUME \A e \in Employees : /\ slip'[e].status # "none" <=> slip[e].status # "none"
                              /\ Shows(slip'[e]) = Shows(slip[e])
  PROVE  SumOfSlips' = SumOfSlips
<1>1. Slips' = Slips /\ Slips \subseteq Employees
  BY DEF Slips
<1>2. QED
  BY <1>1 DEF SumOfSlips, Summed

LEMMA SumsAgreeNext == PayrollTypeOK /\ HeldInv /\ SumsAgree /\ [PayrollNext]_payVars => SumsAgree'
<1> SUFFICES ASSUME Documents, Flight, Counted, SumsAgree, [PayrollNext]_payVars PROVE SumsAgree'
  BY TypeParts
<1> USE HandlersAssumption
\* A step that changes neither slips nor sums.
<1>1. ASSUME NEW r \in Requests, SumOfSlips' = SumOfSlips, run'.totals = run.totals,
             moved \subseteq moved' \cup {r}, pay'[r].pc # "put",
             \A o \in Requests \ {r} : pay'[o] = pay[o]
      PROVE  SumsAgree'
  BY <1>1 DEF SumsAgree
\* A step that changes a slip.
<1>2. ASSUME Moves, \A o \in Requests : pay'[o].pc = "put" => pay[o].pc = "put" PROVE SumsAgree'
  BY <1>2 DEF SumsAgree, Moves
<1>3. ASSUME NEW r \in Requests, NEW q, Accepted(r, q), q.pc # "put", UNCHANGED <<slip, run, moved>>
      PROVE  SumsAgree'
  <2>1. pay'[r] = q /\ \A o \in Requests \ {r} : pay'[o] = pay[o]
    BY <1>3, AcceptedPay
  <2>2. SumOfSlips' = SumOfSlips
    BY <1>3, SumSame
  <2>3. QED
    BY <1>1, <1>3, <2>1, <2>2
<1>4. ASSUME NEW r \in Requests, NEW e \in Employees, NEW earned \in Amounts, NEW deducted \in Amounts,
             CreateSlip(r, e, earned, deducted)
      PROVE  SumsAgree'
  <2> DEFINE new == SlipOf([NoSlip EXCEPT !.status = "draft"], earned, deducted)
             q == [Done EXCEPT !.pc = "render", !.of = e, !.old = new, !.new = new]
  <2>1. Accepted(r, q) /\ q.pc = "render" /\ Moves
    BY <1>4, Zenon DEF CreateSlip, Done
  <2> HIDE DEF q
  <2>2. pay'[r] = q /\ \A o \in Requests \ {r} : pay'[o] = pay[o]
    BY <2>1, AcceptedPay
  <2>3. QED
    BY <1>2, <2>1, <2>2
<1>5. ASSUME NEW r \in Requests, SaveSlip(r) PROVE SumsAgree'
  <2>1. \A o \in Requests : pay'[o].pc = "put" => pay[o].pc = "put"
    BY <1>5 DEF SaveSlip, Flight, PayRequest
  <2>2. QED
    BY <1>2, <1>5, <2>1 DEF SaveSlip
<1>6. ASSUME NEW r \in Requests, DeleteSlip(r) PROVE SumsAgree'
  <2>1. \A o \in Requests : pay'[o].pc = "put" => pay[o].pc = "put"
    BY <1>6 DEF DeleteSlip, Done
  <2>2. QED
    BY <1>2, <1>6, <2>1 DEF DeleteSlip
<1>7. ASSUME NEW r \in Requests, NEW e \in Employees, NEW earned \in Amounts, NEW deducted \in Amounts,
             UpdateSlip(r, e, earned, deducted)
      PROVE  SumsAgree'
  <2> DEFINE q == [Done EXCEPT !.pc = "edit", !.of = e, !.old = slip[e],
                               !.new = SlipOf(slip[e], earned, deducted)]
  <2>1. Accepted(r, q) /\ q.pc = "edit" /\ UNCHANGED <<slip, run, moved>>
    BY <1>7, Zenon DEF UpdateSlip, Done, payHistory
  <2> HIDE DEF q
  <2>2. QED
    BY <1>3, <2>1
<1>8. ASSUME NEW r \in Requests, NEW e \in Employees, GetSlip(r, e) \/ RemoveSlip(r, e) PROVE SumsAgree'
  <2>1. /\ [Done EXCEPT !.pc = "render", !.of = e, !.old = slip[e], !.new = slip[e]].pc = "render"
        /\ [Done EXCEPT !.pc = "delete", !.of = e].pc = "delete"
    BY DEF Done
  <2>2. /\ \/ Accepted(r, [Done EXCEPT !.pc = "render", !.of = e, !.old = slip[e], !.new = slip[e]])
           \/ Accepted(r, [Done EXCEPT !.pc = "delete", !.of = e])
        /\ UNCHANGED <<slip, run, moved>>
    BY <1>8, Zenon DEF GetSlip, RemoveSlip, payHistory
  <2>3. QED
    BY <1>3, <2>1, <2>2
<1>9. ASSUME NEW r \in Requests, RunPayroll(r) \/ FinaliseRun(r) PROVE SumsAgree'
  <2>1. [Done EXCEPT !.pc = "sum"].pc = "sum" /\ [Done EXCEPT !.pc = "lock"].pc = "lock"
    BY DEF Done
  <2>2. /\ Accepted(r, [Done EXCEPT !.pc = "sum"]) \/ Accepted(r, [Done EXCEPT !.pc = "lock"])
        /\ UNCHANGED <<slip, run, moved>>
    BY <1>9, Zenon DEF RunPayroll, FinaliseRun, payHistory
  <2>3. QED
    BY <1>3, <2>1, <2>2
<1>10. ASSUME NEW r \in Requests, Render(r) PROVE SumsAgree'
  <2>1. UNCHANGED <<slip, run, moved>>
    BY <1>10 DEF Render
  <2>2. pay'[r].pc # "put" /\ \A o \in Requests \ {r} : pay'[o] = pay[o]
    BY <1>10 DEF Render, Flight, PayRequest, Done
  <2>3. QED
    BY <1>1, <2>1, <2>2, SumSame
<1>11. ASSUME NEW r \in Requests, Attach(r) PROVE SumsAgree'
  <2>1. UNCHANGED <<run, moved>>
    BY <1>11 DEF Attach
  <2>2. pay'[r].pc # "put" /\ \A o \in Requests \ {r} : pay'[o] = pay[o]
    BY <1>11 DEF Attach, Flight, Done
  <2>3. \A e \in Employees : /\ slip'[e].status = slip[e].status /\ slip'[e].earned = slip[e].earned
                             /\ slip'[e].deducted = slip[e].deducted /\ slip'[e].net = slip[e].net
    BY <1>11 DEF Attach, Documents, Slip
  <2>4. SumOfSlips' = SumOfSlips
    BY <2>3, ShowsSame, SumSame
  <2>5. QED
    BY <1>1, <2>1, <2>2, <2>4
<1>12. ASSUME NEW r \in Requests, LockSlips(r) PROVE SumsAgree'
  <2>1. UNCHANGED <<run, moved>>
    BY <1>12, Zenon DEF LockSlips, payHistory
  <2>2. pay'[r].pc # "put" /\ \A o \in Requests \ {r} : pay'[o] = pay[o]
    BY <1>12 DEF LockSlips, Flight, Done
  <2>3. \A e \in Employees : /\ slip'[e].status # "none" <=> slip[e].status # "none"
                             /\ slip'[e].earned = slip[e].earned
                             /\ slip'[e].deducted = slip[e].deducted /\ slip'[e].net = slip[e].net
    BY <1>12 DEF LockSlips, Documents, Slip, Slips
  <2>4. SumOfSlips' = SumOfSlips
    BY <2>3, ShowsSame, SumSame
  <2>5. QED
    BY <1>1, <2>1, <2>2, <2>4
<1>13. ASSUME NEW r \in Requests, Aggregate(r) PROVE SumsAgree'
  <2>1. UNCHANGED <<slip, run>> /\ moved' = moved \ {r}
    BY <1>13 DEF Aggregate
  <2>2. SumOfSlips' = SumOfSlips
    BY <2>1, SumSame
  <2>3. pay'[r].totals = SumOfSlips /\ \A o \in Requests \ {r} : pay'[o] = pay[o]
    BY <1>13 DEF Aggregate, Flight, Done
  <2>4. QED
    BY <2>1, <2>2, <2>3 DEF SumsAgree
<1>14. ASSUME NEW r \in Requests, PutRun(r) PROVE SumsAgree'
  <2>1. /\ UNCHANGED slip /\ run'.totals = pay[r].totals /\ pay[r].pc = "put"
        /\ moved' = (IF r \in moved THEN moved \cup {None} ELSE moved \ {None}) \ {r}
    BY <1>14 DEF PutRun
  <2>2. SumOfSlips' = SumOfSlips
    BY <2>1, SumSame
  <2>3. pay'[r].pc = "idle" /\ \A o \in Requests \ {r} : pay'[o] = pay[o]
    BY <1>14 DEF PutRun, Flight, Done
  <2>4. QED
    BY <2>1, <2>2, <2>3 DEF SumsAgree
<1>15. ASSUME NEW r \in Requests, LockRun(r) PROVE SumsAgree'
  <2>1. UNCHANGED <<slip, moved>> /\ run'.totals = run.totals
    BY <1>15 DEF LockRun, payHistory, Documents, Run
  <2>2. pay'[r].pc # "put" /\ \A o \in Requests \ {r} : pay'[o] = pay[o]
    BY <1>15 DEF LockRun, Flight, Done
  <2>3. QED
    BY <1>1, <2>1, <2>2, SumSame
<1>16. ASSUME NEW r \in Requests, PayDies(r) PROVE SumsAgree'
  <2>1. UNCHANGED <<slip, run>> /\ moved' = moved \ {r}
    BY <1>16 DEF PayDies
  <2>2. pay'[r].pc # "put" /\ \A o \in Requests \ {r} : pay'[o] = pay[o]
    BY <1>16 DEF PayDies, Flight, Done
  <2>3. QED
    BY <1>1, <2>1, <2>2, SumSame
<1>17. CASE UNCHANGED payVars
  <2>1. UNCHANGED <<slip, run, pay, moved>>
    BY <1>17, Zenon DEF payVars, payHistory
  <2>2. QED
    BY <2>1, SumSame DEF SumsAgree
<1>18. QED
  BY <1>4, <1>5, <1>6, <1>7, <1>8, <1>9, <1>10, <1>11, <1>12, <1>13, <1>14, <1>15, <1>16, <1>17,
     Zenon DEF PayrollNext

\* payroll.service.ts 43-61, 137-155: the net and the PDF of a slip, and the totals
\* of a run, are what the slips make them, unless a request wrote over what another
\* one had changed, or a slip was changed after it was summed.
THEOREM FiguresAlwaysAgree == PayrollSpec => []FiguresAgree
<1>1. PayrollIInv /\ FiguresIInv /\ [PayrollNext]_payVars => FiguresIInv'
  BY SlipThereNext, EditSoundNext, FiguresNext, SumsAgreeNext, Zenon DEF PayrollIInv, FiguresIInv
<1>2. FiguresIInv => FiguresAgree
  BY Zenon DEF FiguresIInv, SlipsAgree, SumsAgree, FiguresAgree, SumOfSlips, Summed
<1>3. QED
  BY FiguresInit, PayrollInvariance, <1>1, <1>2, PTL DEF PayrollSpec
=============================================================================
