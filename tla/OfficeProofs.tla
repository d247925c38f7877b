---------------------------- MODULE OfficeProofs ----------------------------
(***************************************************************************)
(* Proofs about Contracts, which reminders have been mailed and which are  *)
(* remembered; about Pricing, the parts of an amount add up, whatever lines *)
(* are billed; and about Office, whose behaviours are behaviours of each   *)
(* of its ten parts, so that what is proved of a part, here and in         *)
(* HrProofs, StaffProofs and BackOfficeProofs, holds of the whole.         *)
(***************************************************************************)
EXTENDS Office, HrProofs, StaffProofs, BackOfficeProofs, FiniteSetTheorems, TLAPS

(***************************************************************************)
(* The reminders of an agreement.                                          *)
(***************************************************************************)

\* Mailed and not yet saved.
Unsaved == UNION {work[r].new : r \in Requests}

ContractsOrderly == ~workRaced /\ ~mailLost

SweepShapeInv ==
  /\ \A r \in Requests : work[r].pc # "mail" => work[r].new = {}
  /\ workStale \subseteq Involved

\* Whoever has mailed has made everybody else at work out of date, and is not so.
MailerInv ==
  \A r \in Requests : work[r].new # {} => r \notin workStale /\ Involved \ {r} \subseteq workStale

OnceInv == \A m \in Keys : mailed[m] = IF m \in sent \cup Unsaved THEN 1 ELSE 0

\* What a sweep that is up to date has yet to mail, and what a change of the
\* dates that is up to date forgets.
FreshInv ==
  \A r \in Involved \ workStale :
    /\ work[r].pc = "mail" => /\ work[r].todo \cap (sent \cup work[r].new) = {}
                              /\ work[r].due \subseteq work[r].todo \cup work[r].new \cup sent
    /\ work[r].pc = "dates" => sent = {} \/ work[r].resets

SweptInv == swept \subseteq sent \cup Unsaved

ContractsIInv ==
  /\ ContractsTypeOK
  /\ SweepShapeInv
  /\ ContractsOrderly => MailerInv /\ OnceInv /\ FreshInv /\ SweptInv

LEMMA AtRestTyped == AtRest \in WorkRequest
  BY DEF AtRest, WorkRequest, Keys, Kinds, DaysLeft, Past

LEMMA ContractsInitInv == ContractsInit => ContractsIInv
<1> SUFFICES ASSUME ContractsInit PROVE ContractsIInv
  OBVIOUS
<1> USE ContractsAssumption DEF ContractsInit
<1>1. work \in [Requests -> WorkRequest]
  BY AtRestTyped
<1>2. left \in [Kinds -> DaysLeft] /\ mailed \in [Keys -> 0..2]
  BY DEF DaysLeft
<1>3. duties \in Seq([of : Obligations \cup {None}, done : BOOLEAN]) /\ workCalls \in 0..MaxContractCalls
  OBVIOUS
<1>4. ContractsTypeOK
  BY <1>1, <1>2, <1>3, Zenon DEF ContractsTypeOK
<1>5. SweepShapeInv /\ MailerInv /\ FreshInv /\ SweptInv
  BY DEF AtRest, SweepShapeInv, MailerInv, FreshInv, SweptInv, Involved, Busy
<1>6. OnceInv
  BY DEF AtRest, OnceInv, Unsaved
<1>7. QED
  BY <1>4, <1>5, <1>6, Zenon DEF ContractsIInv

\* A handler that begins knows what there is, unless somebody has mailed and not saved.
LEMMA BeginsFresh ==
  ASSUME ContractsIInv, NEW r \in Requests, NEW q \in WorkRequest, Works(r, q),
         q.new = {},
         q.pc = "mail" => q.todo \cap sent = {} /\ q.due \subseteq q.todo \cup sent,
         q.pc = "dates" => sent = {} \/ q.resets,
         q.pc # "idle"
  PROVE  ContractsIInv'
<1> USE ContractsAssumption DEF ContractsIInv, Works
<1>1. work' \in [Requests -> WorkRequest] /\ workCalls' \in 0..MaxContractCalls /\ workStale' \subseteq Requests
  BY DEF ContractsTypeOK
<1>2. ContractsTypeOK'
  BY <1>1, Zenon DEF ContractsTypeOK
<1>3. work[r].new = {}
  BY DEF SweepShapeInv
<1>4. \A o \in Requests : work'[o] = IF o = r THEN q ELSE work[o]
  BY DEF ContractsTypeOK
<1>5. Unsaved' = Unsaved
  BY <1>3, <1>4 DEF Unsaved
<1>6. SweepShapeInv'
  BY <1>4 DEF SweepShapeInv, Involved, Busy
<1>7. ContractsOrderly' => ContractsOrderly
  BY DEF ContractsOrderly
<1>8. ContractsOrderly => MailerInv'
  BY <1>3, <1>4 DEF MailerInv, SweepShapeInv, Involved, Busy
<1>9. ContractsOrderly => FreshInv'
  BY <1>3, <1>4 DEF FreshInv, MailerInv, SweepShapeInv, Involved, Busy
<1>10. ContractsOrderly => OnceInv' /\ SweptInv'
  BY <1>5 DEF OnceInv, SweptInv
<1>11. QED
  BY <1>2, <1>6, <1>7, <1>8, <1>9, <1>10

\* An action that leaves the reminders, and who is at work on them, alone.
LEMMA RemindersAlone ==
  ASSUME ContractsIInv, ContractsTypeOK', UNCHANGED <<sent, workHistory>>,
         \A o \in Requests : \/ work'[o] = work[o]
                             \/ o \notin Involved /\ o \notin Involved' /\ work'[o].new = {}
  PROVE  ContractsIInv'
<1> USE DEF ContractsIInv, workHistory
<1>1. \A o \in Requests : work'[o].new = work[o].new
  BY DEF SweepShapeInv, Involved, Busy
<1>2. Unsaved' = Unsaved
  BY <1>1 DEF Unsaved
<1>3. Involved' = Involved
  BY DEF Involved, Busy
<1>4. SweepShapeInv'
  BY <1>1, <1>3 DEF SweepShapeInv, Involved, Busy
<1>5. ContractsOrderly' = ContractsOrderly
  BY DEF ContractsOrderly
<1>6. ContractsOrderly => MailerInv'
  BY <1>1, <1>3 DEF MailerInv
<1>7. ContractsOrderly => FreshInv'
  <2>1. \A o \in Involved' \ workStale' : o \in Involved \ workStale /\ work'[o] = work[o] /\ sent' = sent
    BY <1>3 DEF Involved, Busy
  <2>2. QED
    BY <2>1, Zenon DEF FreshInv
<1>8. ContractsOrderly => OnceInv' /\ SweptInv'
  BY <1>2 DEF OnceInv, SweptInv
<1>9. QED
  BY <1>4, <1>5, <1>6, <1>7, <1>8

LEMMA DutiesKept ==
  ASSUME ContractsTypeOK, NEW o \in Obligations,
         AddObligation(o) \/ RemoveObligation(o)
  PROVE  ContractsTypeOK'
<1> DEFINE Duty == [of : Obligations \cup {None}, done : BOOLEAN]
<1>1. duties \in Seq(Duty)
  BY DEF ContractsTypeOK
<1>2. ASSUME AddObligation(o) PROVE duties' \in Seq(Duty)
  <2>1. [of |-> o, done |-> FALSE] \in Duty
    OBVIOUS
  <2>2. QED
    BY <1>1, <1>2, <2>1 DEF AddObligation
<1>3. ASSUME RemoveObligation(o) PROVE duties' \in Seq(Duty)
  <2>1. PICK i \in Held(o) : duties' = SubSeq(duties, 1, i - 1) \o SubSeq(duties, i + 1, Len(duties))
    BY <1>3 DEF RemoveObligation
  <2>2. i \in 1..Len(duties)
    BY <1>1 DEF Held
  <2> HIDE DEF Duty
  <2>3. SubSeq(duties, 1, i - 1) \in Seq(Duty) /\ SubSeq(duties, i + 1, Len(duties)) \in Seq(Duty)
    BY <1>1, <2>2
  <2>4. QED
    BY <2>1, <2>3
<1>4. UNCHANGED <<left, sent, work, workCalls, workHistory>>
  BY DEF AddObligation, RemoveObligation
<1>5. QED
  BY <1>2, <1>3, <1>4, Zenon DEF ContractsTypeOK, workHistory

LEMMA ToggleKept ==
  ASSUME ContractsTypeOK, NEW r \in Requests, SaveObligation(r)
  PROVE  duties' \in Seq([of : Obligations \cup {None}, done : BOOLEAN])
<1> DEFINE Duty == [of : Obligations \cup {None}, done : BOOLEAN]
<1>1. duties \in Seq(Duty) /\ work[r].at \in Nat /\ work[r].done \in BOOLEAN
  BY DEF ContractsTypeOK, WorkRequest
<1>2. duties' = SetDone(work[r].at, work[r].done)
  BY DEF SaveObligation
<1>3. \A j \in 1..Len(duties) : duties[j].of \in Obligations \cup {None} /\ duties[j].done \in BOOLEAN
  <2> SUFFICES ASSUME NEW j \in 1..Len(duties) PROVE duties[j] \in Duty
    BY Zenon
  <2> HIDE DEF Duty
  <2>1. QED
    BY <1>1
<1>4. PICK n \in Nat : n = IF work[r].at > Len(duties) THEN work[r].at ELSE Len(duties)
  BY <1>1
<1>5. duties' = [j \in 1..n |-> [of |-> IF j <= Len(duties) THEN duties[j].of ELSE None,
                                 done |-> IF j = work[r].at THEN work[r].done
                                          ELSE j <= Len(duties) /\ duties[j].done]]
  BY <1>2, <1>4 DEF SetDone
<1>6. ASSUME NEW j \in 1..n
      PROVE  [of |-> IF j <= Len(duties) THEN duties[j].of ELSE None,
              done |-> IF j = work[r].at THEN work[r].done ELSE j <= Len(duties) /\ duties[j].done] \in Duty
  <2>1. (IF j <= Len(duties) THEN duties[j].of ELSE None) \in Obligations \cup {None}
    BY <1>1, <1>3
  <2>2. (j <= Len(duties) /\ duties[j].done) \in BOOLEAN
    OBVIOUS
  <2>3. QED
    BY <1>1, <2>1, <2>2
<1> HIDE DEF Duty
<1>7. duties' \in [1..n -> Duty]
  BY <1>5, <1>6, Zenon
<1>8. duties' \in Seq(Duty)
  BY <1>4, <1>7
<1>9. QED
  BY <1>8 DEF Duty

LEMMA ContractsNextInv == ContractsIInv /\ [ContractsNext]_contractVars => ContractsIInv'
<1> SUFFICES ASSUME ContractsIInv, [ContractsNext]_contractVars PROVE ContractsIInv'
  OBVIOUS
<1> USE ContractsAssumption
<1>0. ContractsTypeOK /\ SweepShapeInv
  BY DEF ContractsIInv
<1>1. ASSUME NEW k \in Kinds, DayPasses(k) PROVE ContractsIInv'
  <2>1. left' \in [Kinds -> DaysLeft]
    BY <1>0, <1>1 DEF DayPasses, ContractsTypeOK, DaysLeft, Thresholds, Past
  <2>2. ContractsTypeOK'
    BY <1>0, <1>1, <2>1, Zenon DEF DayPasses, ContractsTypeOK, workHistory
  <2>3. QED
    BY <1>1, <2>2, RemindersAlone, Zenon DEF DayPasses
<1>2. ASSUME NEW o \in Obligations, AddObligation(o) \/ RemoveObligation(o) PROVE ContractsIInv'
  <2>1. ContractsTypeOK'
    BY <1>0, <1>2, DutiesKept
  <2>2. QED
    BY <1>2, <2>1, RemindersAlone, Zenon DEF AddObligation, RemoveObligation
<1>3. ASSUME NEW r \in Requests, NEW k \in Kinds, NEW days \in DaysLeft \cup {None}, SetLifecycle(r, k, days)
      PROVE  ContractsIInv'
  <2> DEFINE q == [AtRest EXCEPT !.pc = "dates", !.kind = k, !.to = days, !.resets = sent # {}]
  <2>1. q \in WorkRequest
    BY AtRestTyped DEF WorkRequest
  <2>2. q.pc = "dates" /\ q.new = {} /\ (sent = {} \/ q.resets)
    BY DEF AtRest
  <2>3. Works(r, q)
    BY <1>3 DEF SetLifecycle
  <2> HIDE DEF q
  <2>4. QED
    BY <2>1, <2>2, <2>3, BeginsFresh
<1>4. ASSUME NEW r \in Requests, RunLifecycleReminders(r) PROVE ContractsIInv'
  <2> DEFINE todo == {m \in Keys : m[2] \in Threshold(left[m[1]])} \ sent
             due  == {m \in Keys : m[2] = left[m[1]]}
             q    == [AtRest EXCEPT !.pc = "mail", !.todo = todo, !.due = due]
  <2>0. todo \in SUBSET Keys /\ due \in SUBSET Keys
    OBVIOUS
  <2>1. q \in WorkRequest
    <3> HIDE DEF todo, due
    <3>1. QED
      BY <2>0, AtRestTyped DEF WorkRequest
  <2>2. due \subseteq todo \cup sent
    BY DEF Threshold, Crossed, Keys, Kinds, Thresholds
  <2>3. q.pc = "mail" /\ q.new = {} /\ q.todo = todo /\ q.due = due /\ todo \cap sent = {}
    BY DEF AtRest
  <2>4. Works(r, q)
    BY <1>4, Zenon DEF RunLifecycleReminders
  <2> HIDE DEF q, todo, due
  <2>5. QED
    BY <2>1, <2>2, <2>3, <2>4, BeginsFresh
<1>5. ASSUME NEW r \in Requests, NEW o \in Obligations, ToggleObligation(r, o) PROVE ContractsIInv'
  <2>1. PICK i \in Held(o) : Works(r, [AtRest EXCEPT !.pc = "toggle", !.at = i, !.done = ~duties[i].done])
    BY <1>5, Zenon DEF ToggleObligation
  <2> DEFINE q == [AtRest EXCEPT !.pc = "toggle", !.at = i, !.done = ~duties[i].done]
  <2>2. i \in Nat
    BY <1>0 DEF ContractsTypeOK, Held
  <2>3. q \in WorkRequest
    BY <2>2, AtRestTyped DEF WorkRequest
  <2>4. q.pc = "toggle" /\ q.new = {}
    BY DEF AtRest
  <2> HIDE DEF q
  <2>5. QED
    BY <2>1, <2>3, <2>4, BeginsFresh DEF q
<1>6. ASSUME NEW r \in Requests, SaveObligation(r) PROVE ContractsIInv'
  <2>1. work' \in [Requests -> WorkRequest]
    BY <1>0, <1>6, AtRestTyped, Zenon DEF SaveObligation, Ends, ContractsTypeOK
  <2>2. duties' \in Seq([of : Obligations \cup {None}, done : BOOLEAN])
    BY <1>0, <1>6, ToggleKept
  <2>3. ContractsTypeOK'
    BY <1>0, <1>6, <2>1, <2>2, Zenon DEF SaveObligation, ContractsTypeOK, workHistory
  <2>4. \A o \in Requests : \/ work'[o] = work[o]
                            \/ o \notin Involved /\ o \notin Involved' /\ work'[o].new = {}
    BY <1>0, <1>6 DEF SaveObligation, Ends, ContractsTypeOK, AtRest, Involved, Busy
  <2>5. QED
    BY <1>6, <2>3, <2>4, RemindersAlone, Zenon DEF SaveObligation
<1>7. ASSUME NEW r \in Requests, SaveLifecycle(r) PROVE ContractsIInv'
  <2>1. /\ work[r].pc = "dates" /\ work' = [work EXCEPT ![r] = AtRest]
        /\ left' = DatesAfter(work[r]) /\ sent' = RemindersAfter(work[r])
        /\ mailed' = [m \in Keys |-> 0] /\ swept' = {}
        /\ workStale' = (workStale \cup Involved) \ {r} /\ workRaced' = (workRaced \/ r \in workStale)
        /\ UNCHANGED <<duties, workCalls, mailLost>>
    BY <1>7 DEF SaveLifecycle, Ends, ReachesOthers
  <2>2. ContractsTypeOK'
    <3>1. work[r].kind \in Kinds /\ work[r].to \in DaysLeft \cup {None}
      BY <1>0 DEF ContractsTypeOK, WorkRequest
    <3>2. left' \in [Kinds -> DaysLeft]
      BY <1>0, <2>1, <3>1 DEF ContractsTypeOK, DatesAfter
    <3>3. sent' \subseteq Keys /\ swept' \subseteq Keys /\ mailed' \in [Keys -> 0..2]
      BY <1>0, <2>1 DEF ContractsTypeOK, RemindersAfter
    <3>4. work' \in [Requests -> WorkRequest]
      BY <1>0, <2>1, AtRestTyped, Zenon DEF ContractsTypeOK
    <3>5. workStale' \subseteq Requests /\ workRaced' \in BOOLEAN
      BY <1>0, <2>1 DEF ContractsTypeOK, Involved, Busy
    <3>6. QED
      BY <1>0, <2>1, <3>2, <3>3, <3>4, <3>5, Zenon DEF ContractsTypeOK
  <2>3. \A o \in Requests : work'[o] = IF o = r THEN AtRest ELSE work[o]
    BY <1>0, <2>1 DEF ContractsTypeOK
  <2>4. SweepShapeInv'
    BY <1>0, <2>1, <2>3 DEF SweepShapeInv, Involved, Busy, AtRest
  <2>5. ASSUME ContractsOrderly' PROVE MailerInv' /\ OnceInv' /\ FreshInv' /\ SweptInv'
    <3>1. ContractsOrderly /\ MailerInv /\ FreshInv /\ r \in Involved \ workStale
      BY <2>1, <2>5 DEF ContractsOrderly, ContractsIInv, Involved, Busy
    <3>2. \A o \in Requests : work[o].new = {} /\ work'[o].new = {}
      BY <1>0, <2>1, <2>3, <3>1 DEF MailerInv, SweepShapeInv, AtRest
    <3>3. sent' = {}
      BY <2>1, <3>1 DEF FreshInv, RemindersAfter
    <3>4. \A o \in Requests : o \notin Involved' \ workStale'
      BY <2>1, <2>3 DEF Involved, Busy, AtRest
    <3>5. MailerInv' /\ FreshInv' /\ SweptInv'
      BY <2>1, <3>2, <3>4 DEF MailerInv, FreshInv, SweptInv, Involved, Busy
    <3>6. OnceInv'
      BY <2>1, <3>2, <3>3 DEF OnceInv, Unsaved
    <3>7. QED
      BY <3>5, <3>6
  <2>6. QED
    BY <2>2, <2>4, <2>5 DEF ContractsIInv
<1>8. ASSUME NEW r \in Requests, NEW m \in Keys, MailReminder(r, m) PROVE ContractsIInv'
  <2> DEFINE q == [work[r] EXCEPT !.todo = work[r].todo \ {m}, !.new = work[r].new \cup {m}]
  <2>1. /\ work[r].pc = "mail" /\ m \in work[r].todo
        /\ work' = [work EXCEPT ![r] = q]
        /\ mailed' = [mailed EXCEPT ![m] = IF @ = 2 THEN 2 ELSE @ + 1]
        /\ workStale' = (workStale \cup Involved) \ {r} /\ workRaced' = (workRaced \/ r \in workStale)
        /\ UNCHANGED <<left, sent, duties, workCalls, swept, mailLost>>
    BY <1>8, Zenon DEF MailReminder, ReachesOthers
  <2>2. /\ q \in WorkRequest /\ q.pc = "mail" /\ q.due = work[r].due
        /\ q.todo = work[r].todo \ {m} /\ q.new = work[r].new \cup {m}
    BY <1>0, <2>1 DEF ContractsTypeOK, WorkRequest
  <2> HIDE DEF q
  <2>3. ContractsTypeOK'
    <3>1. work' \in [Requests -> WorkRequest] /\ mailed' \in [Keys -> 0..2]
      BY <1>0, <2>1, <2>2 DEF ContractsTypeOK
    <3>2. workStale' \subseteq Requests /\ workRaced' \in BOOLEAN
      BY <1>0, <2>1 DEF ContractsTypeOK, Involved, Busy
    <3>3. QED
      BY <1>0, <2>1, <3>1, <3>2, Zenon DEF ContractsTypeOK
  <2>4. \A o \in Requests : work'[o] = IF o = r THEN q ELSE work[o]
    BY <1>0, <2>1 DEF ContractsTypeOK
  <2>5. SweepShapeInv'
    BY <1>0, <2>1, <2>2, <2>4 DEF SweepShapeInv, Involved, Busy
  <2>6. ASSUME ContractsOrderly' PROVE MailerInv' /\ OnceInv' /\ FreshInv' /\ SweptInv'
    <3>1. ContractsOrderly /\ MailerInv /\ FreshInv /\ OnceInv /\ SweptInv /\ r \in Involved \ workStale
      BY <2>1, <2>6 DEF ContractsOrderly, ContractsIInv, Involved, Busy
    <3>2. \A o \in Requests \ {r} : work[o].new = {} /\ work'[o].new = {}
      BY <1>0, <2>4, <3>1 DEF MailerInv, SweepShapeInv
    <3>3. Unsaved = work[r].new /\ Unsaved' = work[r].new \cup {m}
      BY <2>2, <2>4, <3>2 DEF Unsaved
    <3>4. m \notin sent \cup Unsaved
      BY <2>1, <3>1, <3>3 DEF FreshInv
    <3>5. OnceInv'
      BY <1>0, <2>1, <3>1, <3>3, <3>4 DEF OnceInv, ContractsTypeOK
    <3>6. \A o \in Requests : o \in Involved' \ workStale' => o = r
      BY <2>1, <2>4 DEF Involved, Busy
    <3>7. MailerInv' /\ SweptInv'
      BY <2>1, <3>1, <3>2, <3>3, <3>6 DEF MailerInv, SweptInv, Involved, Busy
    <3>8. FreshInv'
      BY <2>1, <2>2, <2>4, <3>1, <3>4, <3>3, <3>6 DEF FreshInv, Involved, Busy
    <3>9. QED
      BY <3>5, <3>7, <3>8
  <2>7. QED
    BY <2>3, <2>5, <2>6 DEF ContractsIInv
<1>9. ASSUME NEW r \in Requests, SaveReminders(r) PROVE ContractsIInv'
  <2>1. /\ work[r].pc = "mail" /\ work[r].todo = {}
        /\ work' = [work EXCEPT ![r] = AtRest]
        /\ sent' = sent \cup work[r].new
        /\ swept' = IF r \in workStale THEN swept ELSE swept \cup work[r].due
        /\ IF work[r].new = {} THEN workStale' = workStale \ {r} /\ workRaced' = workRaced
           ELSE /\ workStale' = (workStale \cup Involved) \ {r}
                /\ workRaced' = (workRaced \/ r \in workStale)
        /\ UNCHANGED <<left, duties, workCalls, mailed, mailLost>>
    BY <1>9 DEF SaveReminders, Ends, ReachesOthers
  <2>2. ContractsTypeOK'
    <3>1. work[r].new \subseteq Keys /\ work[r].due \subseteq Keys
      BY <1>0 DEF ContractsTypeOK, WorkRequest
    <3>2. sent' \subseteq Keys /\ swept' \subseteq Keys
      BY <1>0, <2>1, <3>1 DEF ContractsTypeOK
    <3>3. work' \in [Requests -> WorkRequest]
      BY <1>0, <2>1, AtRestTyped, Zenon DEF ContractsTypeOK
    <3>4. workStale' \subseteq Requests
      BY <1>0, <2>1 DEF ContractsTypeOK, Involved, Busy
    <3>5. workRaced' \in BOOLEAN
      BY <1>0, <2>1 DEF ContractsTypeOK
    <3>6. QED
      BY <1>0, <2>1, <3>2, <3>3, <3>4, <3>5, Zenon DEF ContractsTypeOK
  <2>3. \A o \in Requests : work'[o] = IF o = r THEN AtRest ELSE work[o]
    BY <1>0, <2>1 DEF ContractsTypeOK
  <2>4. SweepShapeInv'
    BY <1>0, <2>1, <2>3 DEF SweepShapeInv, Involved, Busy, AtRest
  <2>5. ASSUME ContractsOrderly' PROVE MailerInv' /\ OnceInv' /\ FreshInv' /\ SweptInv'
    <3>1. ContractsOrderly /\ MailerInv /\ FreshInv /\ OnceInv /\ SweptInv /\ r \in Involved
      BY <2>1, <2>5 DEF ContractsOrderly, ContractsIInv, Involved, Busy
    <3>2. work'[r].new = {} /\ \A o \in Requests \ {r} : work'[o] = work[o]
      BY <2>3 DEF AtRest
    <3>3. Unsaved = work[r].new \cup UNION {work[o].new : o \in Requests \ {r}}
      BY DEF Unsaved
    <3>4. Unsaved' = UNION {work[o].new : o \in Requests \ {r}}
      BY <3>2 DEF Unsaved
    <3>5. sent' \cup Unsaved' = sent \cup Unsaved
      BY <2>1, <3>3, <3>4
    <3>6. OnceInv'
      BY <2>1, <3>1, <3>5 DEF OnceInv
    <3>7. SweptInv'
      BY <2>1, <3>1, <3>3, <3>5 DEF SweptInv, FreshInv
    <3>8. Involved' = Involved \ {r}
      BY <2>1, <2>3 DEF Involved, Busy, AtRest
    <3>9. CASE work[r].new = {}
      <4>1. sent' = sent /\ workStale' = workStale \ {r}
        BY <2>1, <3>9
      <4>2. MailerInv'
        BY <3>1, <3>2, <3>8, <4>1 DEF MailerInv
      <4>3. \A o \in Involved' \ workStale' : o \in Involved \ workStale /\ work'[o] = work[o] /\ sent' = sent
        BY <3>2, <3>8, <4>1 DEF Involved, Busy
      <4>4. FreshInv'
        BY <3>1, <4>3, Zenon DEF FreshInv
      <4>5. QED
        BY <3>6, <3>7, <4>2, <4>4
    <3>10. CASE work[r].new # {}
      <4>1. workStale' = (workStale \cup Involved) \ {r} /\ r \notin workStale
        BY <2>1, <2>5, <3>10 DEF ContractsOrderly
      <4>2. \A o \in Requests : work'[o].new = {}
        BY <1>0, <3>1, <3>2, <3>10, <4>1 DEF MailerInv, SweepShapeInv
      <4>3. Involved' \ workStale' = {}
        BY <3>8, <4>1
      <4>4. MailerInv'
        BY <4>2 DEF MailerInv
      <4>5. FreshInv'
        BY <4>3, Zenon DEF FreshInv
      <4>6. QED
        BY <3>6, <3>7, <4>4, <4>5
    <3>11. QED
      BY <3>6, <3>7, <3>9, <3>10, Zenon
  <2>6. QED
    BY <2>2, <2>4, <2>5 DEF ContractsIInv
<1>10. ASSUME NEW r \in Requests, WorkDies(r) PROVE ContractsIInv'
  <2>1. /\ r \in Busy /\ work' = [work EXCEPT ![r] = AtRest]
        /\ mailLost' = (mailLost \/ work[r].new # {})
        /\ workStale' = workStale \ {r}
        /\ UNCHANGED <<left, sent, duties, workCalls, mailed, swept, workRaced>>
    BY <1>10, Zenon DEF WorkDies, Ends
  <2>2. ContractsTypeOK'
    <3>1. work' \in [Requests -> WorkRequest]
      BY <1>0, <2>1, AtRestTyped, Zenon DEF ContractsTypeOK
    <3>2. workStale' \subseteq Requests /\ mailLost' \in BOOLEAN
      BY <1>0, <2>1 DEF ContractsTypeOK
    <3>3. QED
      BY <1>0, <2>1, <3>1, <3>2, Zenon DEF ContractsTypeOK
  <2>3. \A o \in Requests : work'[o] = IF o = r THEN AtRest ELSE work[o]
    BY <1>0, <2>1 DEF ContractsTypeOK
  <2>4. SweepShapeInv'
    BY <1>0, <2>1, <2>3 DEF SweepShapeInv, Involved, Busy, AtRest
  <2>5. ASSUME ContractsOrderly' PROVE MailerInv' /\ OnceInv' /\ FreshInv' /\ SweptInv'
    <3>1. ContractsOrderly /\ MailerInv /\ FreshInv /\ OnceInv /\ SweptInv /\ work[r].new = {}
      BY <2>1, <2>5 DEF ContractsOrderly, ContractsIInv
    <3>2. work'[r].new = {} /\ \A o \in Requests \ {r} : work'[o] = work[o]
      BY <2>3 DEF AtRest
    <3>3. Unsaved' = Unsaved
      BY <3>1, <3>2 DEF Unsaved
    <3>4. OnceInv' /\ SweptInv'
      BY <2>1, <3>1, <3>3 DEF OnceInv, SweptInv
    <3>5. Involved' = Involved \ {r}
      BY <2>1, <2>3 DEF Involved, Busy, AtRest
    <3>6. MailerInv' /\ FreshInv'
      BY <2>1, <3>1, <3>2, <3>5 DEF MailerInv, FreshInv, Involved, Busy
    <3>7. QED
      BY <3>4, <3>6
  <2>6. QED
    BY <2>2, <2>4, <2>5 DEF ContractsIInv
<1>11. ASSUME UNCHANGED contractVars PROVE ContractsIInv'
  BY <1>0, <1>11, RemindersAlone DEF contractVars, ContractsTypeOK, workHistory
<1>12. QED
  BY <1>1, <1>2, <1>3, <1>4, <1>5, <1>6, <1>7, <1>8, <1>9, <1>10, <1>11 DEF ContractsNext

\* The invariant holds in every reachable state.
THEOREM ContractsInvariance == ContractsSpec => []ContractsIInv
  BY ContractsInitInv, ContractsNextInv, PTL DEF ContractsSpec

\* agreements.service.ts 386-413: each threshold that a finished sweep met has
\* been mailed once and is remembered, while no sweep overlapped another or a
\* change of the dates, and none died between a mail and its save.
THEOREM AlwaysRemindedOnce == ContractsSpec => []RemindedOnce
<1>1. ASSUME ContractsIInv PROVE RemindedOnce
  <2>1. SUFFICES ASSUME ~workRaced, ~mailLost
                 PROVE  /\ \A m \in Keys : mailed[m] <= 1
                        /\ \A m \in swept : mailed[m] = 1
                        /\ (\A r \in Requests : work[r].pc # "mail") => sent = {m \in Keys : mailed[m] = 1}
    BY DEF RemindedOnce
  <2>2. OnceInv /\ SweptInv /\ SweepShapeInv /\ sent \subseteq Keys /\ swept \subseteq Keys
    BY <1>1, <2>1 DEF ContractsIInv, ContractsOrderly, ContractsTypeOK
  <2>3. (\A m \in Keys : mailed[m] <= 1) /\ \A m \in swept : mailed[m] = 1
    BY <2>2 DEF OnceInv, SweptInv
  <2>4. ASSUME \A r \in Requests : work[r].pc # "mail" PROVE sent = {m \in Keys : mailed[m] = 1}
    <3>1. Unsaved = {}
      BY <2>2, <2>4 DEF SweepShapeInv, Unsaved
    <3>2. QED
      BY <2>2, <3>1 DEF OnceInv
  <2>5. QED
    BY <2>3, <2>4
<1>2. QED
  BY ContractsInvariance, <1>1, PTL

(***************************************************************************)
(* Sums.  The library states induction for operators, here it is needed    *)
(* for sets.                                                               *)
(***************************************************************************)

\* A set that has 0, and n + 1 whenever it has n, has every natural number.
LEMMA NatSetInduction ==
  ASSUME NEW T, 0 \in T, \A n \in Nat : n \in T => n + 1 \in T
  PROVE  Nat \subseteq T
<1> DEFINE Out == Nat \ T
           Segments == {0..k : k \in Out}
<1>1. SUFFICES ASSUME Out # {} PROVE FALSE
  OBVIOUS
<1>2. Segments \subseteq FiniteSubsetsOf(Nat) /\ Segments # {}
  <2>1. \A k \in Nat : 0..k \in FiniteSubsetsOf(Nat)
    BY FS_Interval DEF FiniteSubsetsOf
  <2>2. QED
    BY <1>1, <2>1
<1>3. PICK x \in Segments : \A y \in Segments : <<y, x>> \notin StrictSubsetOrdering(Nat)
  <2> HIDE DEF Segments
  <2>1. QED
    BY <1>2, FS_StrictSubsetOrderingWellFounded, WFMin
<1>4. PICK m \in Out : x = 0..m
  BY <1>3
<1>5. m - 1 \in Out
  OBVIOUS
<1>6. 0..(m - 1) \in Segments
  BY <1>5
<1>7. <<0..(m - 1), x>> \in StrictSubsetOrdering(Nat)
  <2>1. m \in 0..m /\ m \notin 0..(m - 1) /\ 0..(m - 1) \subseteq 0..m /\ 0..m \subseteq Nat
    BY <1>5
  <2>2. QED
    BY <1>4, <2>1 DEF StrictSubsetOrdering
<1>8. QED
  BY <1>3, <1>6, <1>7

\* The partial sums that SumUpTo adds up.
LEMMA PartialSums ==
  ASSUME NEW s, NEW n \in Nat
  PROVE  \E F : /\ SumUpTo(s, n) = F[n]
                /\ F[0] = 0
                /\ \A i \in 1..n : F[i] = F[i - 1] + s[i]
<1> DEFINE Adds(F, k) == F = [i \in 0..k |-> IF i = 0 THEN 0 ELSE F[i - 1] + s[i]]
           T == {k \in Nat : \E F : Adds(F, k)}
<1>1. 0 \in T
  <2>1. Adds([i \in 0..0 |-> 0], 0)
    OBVIOUS
  <2>2. QED
    BY <2>1
<1>2. ASSUME NEW k \in Nat, k \in T PROVE k + 1 \in T
  <2>1. PICK F : Adds(F, k)
    BY <1>2
  <2> DEFINE G == [i \in 0..(k + 1) |-> IF i = k + 1 THEN F[k] + s[k + 1] ELSE F[i]]
  <2>2. ASSUME NEW i \in 0..(k + 1) PROVE G[i] = IF i = 0 THEN 0 ELSE G[i - 1] + s[i]
    BY <2>1
  <2>3. Adds(G, k + 1)
    BY <2>2, Zenon
  <2> HIDE DEF G, Adds
  <2>4. QED
    BY <2>3
<1>3. PICK F : Adds(F, n)
  <2> HIDE DEF T
  <2>1. n \in T
    BY <1>1, <1>2, NatSetInduction
  <2>2. QED
    BY <2>1 DEF T
<1> DEFINE sum[i \in 0..n] == IF i = 0 THEN 0 ELSE sum[i - 1] + s[i]
<1>4. sum = [i \in 0..n |-> IF i = 0 THEN 0 ELSE sum[i - 1] + s[i]]
  BY <1>3
<1>5. SumUpTo(s, n) = sum[n]
  BY DEF SumUpTo
<1> HIDE DEF sum
<1>6. sum[0] = 0 /\ \A i \in 1..n : sum[i] = sum[i - 1] + s[i]
  BY <1>4
<1>7. QED
  BY <1>5, <1>6

LEMMA SumOfType ==
  ASSUME NEW s \in Seq(Nat)
  PROVE  SumOf(s) \in Nat
<1>1. PICK F : /\ SumUpTo(s, Len(s)) = F[Len(s)]
               /\ F[0] = 0
               /\ \A i \in 1..Len(s) : F[i] = F[i - 1] + s[i]
  BY PartialSums
<1> DEFINE T == {k \in Nat : k <= Len(s) => F[k] \in Nat}
<1>2. 0 \in T
  BY <1>1
<1>3. ASSUME NEW k \in Nat, k \in T PROVE k + 1 \in T
  <2>1. SUFFICES ASSUME k + 1 <= Len(s) PROVE F[k + 1] \in Nat
    OBVIOUS
  <2>2. k + 1 \in 1..Len(s) /\ F[k] \in Nat
    BY <1>3, <2>1
  <2>3. F[k + 1] = F[k] + s[k + 1] /\ s[k + 1] \in Nat
    BY <1>1, <2>2
  <2>4. QED
    BY <2>2, <2>3
<1> HIDE DEF T
<1>4. Len(s) \in T
  BY <1>2, <1>3, NatSetInduction
<1>5. QED
  BY <1>1, <1>4 DEF T, SumOf

\* Two sums are no farther apart than their members together.
LEMMA SumGap ==
  ASSUME NEW n \in Nat, NEW s \in [1..n -> Nat], NEW t \in [1..n -> Nat],
         \A i \in 1..n : 100 * s[i] - t[i] <= 50 /\ t[i] - 100 * s[i] <= 50
  PROVE  100 * SumUpTo(s, n) - SumUpTo(t, n) <= 50 * n /\ SumUpTo(t, n) - 100 * SumUpTo(s, n) <= 50 * n
<1>1. PICK F : /\ SumUpTo(s, n) = F[n]
               /\ F[0] = 0
               /\ \A i \in 1..n : F[i] = F[i - 1] + s[i]
  BY PartialSums
<1>2. PICK G : /\ SumUpTo(t, n) = G[n]
               /\ G[0] = 0
               /\ \A i \in 1..n : G[i] = G[i - 1] + t[i]
  BY PartialSums
<1> DEFINE T == {k \in Nat : k <= n => /\ F[k] \in Nat /\ G[k] \in Nat
                                            /\ 100 * F[k] - G[k] <= 50 * k
                                            /\ G[k] - 100 * F[k] <= 50 * k}
<1>3. 0 \in T
  BY <1>1, <1>2
<1>4. ASSUME NEW k \in Nat, k \in T PROVE k + 1 \in T
  <2>1. SUFFICES ASSUME k + 1 <= n
                 PROVE  /\ F[k + 1] \in Nat /\ G[k + 1] \in Nat
                        /\ 100 * F[k + 1] - G[k + 1] <= 50 * (k + 1)
                        /\ G[k + 1] - 100 * F[k + 1] <= 50 * (k + 1)
    OBVIOUS
  <2>2. /\ k + 1 \in 1..n /\ F[k] \in Nat /\ G[k] \in Nat
        /\ 100 * F[k] - G[k] <= 50 * k /\ G[k] - 100 * F[k] <= 50 * k
    BY <1>4, <2>1
  <2>3. /\ F[k + 1] = F[k] + s[k + 1] /\ s[k + 1] \in Nat
        /\ G[k + 1] = G[k] + t[k + 1] /\ t[k + 1] \in Nat
    BY <1>1, <1>2, <2>2
  <2>4. 100 * s[k + 1] - t[k + 1] <= 50 /\ t[k + 1] - 100 * s[k + 1] <= 50
    BY <2>2
  <2>5. \A a, b, c, d \in Nat :
          /\ 100 * a - b <= 50 * k /\ b - 100 * a <= 50 * k
          /\ 100 * c - d <= 50 /\ d - 100 * c <= 50
          => /\ 100 * (a + c) - (b + d) <= 50 * (k + 1)
             /\ (b + d) - 100 * (a + c) <= 50 * (k + 1)
    OBVIOUS
  <2>6. /\ 100 * (F[k] + s[k + 1]) - (G[k] + t[k + 1]) <= 50 * (k + 1)
        /\ (G[k] + t[k + 1]) - 100 * (F[k] + s[k + 1]) <= 50 * (k + 1)
    BY <2>2, <2>3, <2>4, <2>5
  <2>7. F[k + 1] \in Nat /\ G[k + 1] \in Nat
    <3>1. \A a, b \in Nat : a + b \in Nat
      OBVIOUS
    <3>2. QED
      BY <2>2, <2>3, <3>1, Zenon
  <2>8. /\ 100 * F[k + 1] - G[k + 1] <= 50 * (k + 1)
        /\ G[k + 1] - 100 * F[k + 1] <= 50 * (k + 1)
    BY <2>3, <2>6
  <2>9. QED
    BY <2>7, <2>8
<1> HIDE DEF T
<1>5. n \in T
  BY <1>3, <1>4, NatSetInduction
<1>6. QED
  BY <1>1, <1>2, <1>5 DEF T

LEMMA RoundBounds ==
  ASSUME NEW n \in Nat
  PROVE  /\ Round(n, 100) \in Nat /\ Gap(100 * Round(n, 100), n) <= 50
         /\ Round(n, 2) \in Nat /\ n - Round(n, 2) \in Nat
         /\ Gap(Round(n, 2), n - Round(n, 2)) <= 1
<1>1. /\ Round(n, 100) \in Nat
      /\ 200 * Round(n, 100) <= 2 * n + 100 /\ 2 * n + 100 < 200 * Round(n, 100) + 200
  BY DEF Round
<1>2. /\ Round(n, 2) \in Nat
      /\ 4 * Round(n, 2) <= 2 * n + 2 /\ 2 * n + 2 < 4 * Round(n, 2) + 4
  BY DEF Round
<1>3. QED
  BY <1>1, <1>2 DEF Gap

LEMMA ItemSums ==
  ASSUME NEW items \in Seq(Line)
  PROVE  /\ Subtotal(items) \in Nat /\ TaxOf(items) \in Nat
         /\ Gap(100 * TaxOf(items), ExactTax(items)) <= 50 * Len(items)
<1> DEFINE exact == [i \in DOMAIN items |-> items[i].cents * RateOf(items[i])]
           rounded == [i \in DOMAIN items |-> Round(items[i].cents * RateOf(items[i]), 100)]
           cents == [i \in DOMAIN items |-> items[i].cents]
<1>1. ASSUME NEW i \in DOMAIN items
      PROVE  items[i].cents \in Nat /\ items[i].cents * RateOf(items[i]) \in Nat
  <2>1. items[i] \in Line
    BY <1>1
  <2>2. items[i].cents \in Nat /\ RateOf(items[i]) \in {0, 5, 12, 18, 28}
    BY <2>1 DEF Line, GstRates, RateOf
  <2>3. QED
    BY <2>2
<1>2. \A i \in DOMAIN items : /\ Round(items[i].cents * RateOf(items[i]), 100) \in Nat
                              /\ Gap(100 * Round(items[i].cents * RateOf(items[i]), 100), items[i].cents * RateOf(items[i])) <= 50
  BY <1>1, RoundBounds
<1>3. DOMAIN items = 1..Len(items) /\ Len(items) \in Nat
  OBVIOUS
<1>4. cents \in Seq(Nat) /\ exact \in Seq(Nat) /\ rounded \in Seq(Nat)
  BY <1>1, <1>2, <1>3
<1>5. Len(exact) = Len(items) /\ Len(rounded) = Len(items)
  BY <1>3
<1>6. \A i \in 1..Len(rounded) : 100 * rounded[i] - exact[i] <= 50 /\ exact[i] - 100 * rounded[i] <= 50
  BY <1>1, <1>2, <1>3, <1>5 DEF Gap
<1>7. Subtotal(items) = SumOf(cents) /\ TaxOf(items) = SumOf(rounded) /\ ExactTax(items) = SumOf(exact)
  BY DEF Subtotal, TaxOf, ExactTax
<1> HIDE DEF cents, exact, rounded
<1>8. SumOf(cents) \in Nat /\ SumOf(rounded) \in Nat /\ SumOf(exact) \in Nat
  BY <1>4, SumOfType
<1>9. /\ rounded \in [1..Len(items) -> Nat] /\ exact \in [1..Len(items) -> Nat]
      /\ SumOf(rounded) = SumUpTo(rounded, Len(items)) /\ SumOf(exact) = SumUpTo(exact, Len(items))
  BY <1>4, <1>5 DEF SumOf
<1>10. /\ 100 * SumUpTo(rounded, Len(items)) - SumUpTo(exact, Len(items)) <= 50 * Len(items)
       /\ SumUpTo(exact, Len(items)) - 100 * SumUpTo(rounded, Len(items)) <= 50 * Len(items)
  BY <1>3, <1>5, <1>6, <1>9, SumGap
<1>11. QED
  BY <1>3, <1>7, <1>8, <1>9, <1>10 DEF Gap

LEMMA BilledItems == LineItems \cup {<<>>} \subseteq Seq(Line)
<1>1. <<>> \in Seq(Line)
  OBVIOUS
<1>2. LineItems \subseteq Seq(Line)
  BY PricingAssumption
<1>3. QED
  BY <1>1, <1>2, Zenon

LEMMA GstCharge ==
  ASSUME NEW items \in LineItems \cup {<<>>}, NEW from, NEW to, NEW c, c = ComputeGst(items, from, to)
  PROVE  /\ c \in Charge /\ Consistent(c)
         /\ c.items = items /\ c.taxType \in {"IGST", "CGST_SGST"} /\ c.rate = 0
<1> DEFINE sub == Subtotal(items)
           tax == TaxOf(items)
           cgst == IF from = to THEN Round(tax, 2) ELSE 0
           sgst == IF from = to THEN OtherHalf(tax) ELSE 0
           igst == IF from = to THEN 0 ELSE tax
           type == IF from = to THEN "CGST_SGST" ELSE "IGST"
<1>1. items \in Seq(Line)
  BY BilledItems, Zenon
<1>2. sub \in Nat /\ tax \in Nat /\ Gap(100 * tax, ExactTax(items)) <= 50 * Len(items)
  BY <1>1, ItemSums
<1>3. /\ cgst \in Nat /\ sgst \in Nat /\ igst \in Nat
      /\ tax = cgst + sgst + igst /\ Gap(cgst, sgst) <= 1
  <2> HIDE DEF tax
  <2>1. /\ Round(tax, 2) \in Nat /\ tax - Round(tax, 2) \in Nat
        /\ Gap(Round(tax, 2), tax - Round(tax, 2)) <= 1
    BY <1>2, RoundBounds, Zenon
  <2>2. Gap(0, 0) = 0
    BY DEF Gap
  <2>3. CASE from = to
    BY <1>2, <2>1, <2>3 DEF OtherHalf
  <2>4. CASE from # to
    BY <1>2, <2>2, <2>4
  <2>5. QED
    BY <2>3, <2>4
<1>4. c = [items |-> items, taxType |-> type, rate |-> 0, subtotal |-> sub, cgst |-> cgst, sgst |-> sgst,
           igst |-> igst, tax |-> tax, grand |-> sub + tax, inr |-> sub + tax]
  BY DEF ComputeGst, NoCharge
<1>5. type \in {"IGST", "CGST_SGST"}
  OBVIOUS
<1> HIDE DEF sub, tax, cgst, sgst, igst, type
<1>6. c \in Charge
  BY <1>2, <1>3, <1>4, <1>5 DEF Charge
<1>7. /\ c.subtotal = sub /\ c.tax = tax /\ c.cgst = cgst /\ c.sgst = sgst /\ c.igst = igst
      /\ c.grand = sub + tax /\ c.items = items /\ c.taxType = type /\ c.rate = 0
  BY <1>4
<1>8. Consistent(c)
  BY <1>2, <1>3, <1>5, <1>7 DEF Consistent, sub
<1>9. QED
  BY <1>5, <1>6, <1>7, <1>8

LEMMA ExportCharge ==
  ASSUME NEW items \in LineItems \cup {<<>>}, NEW rate \in LiveRates \cup {Fallback, 0}, NEW c, c = BuildExport(items, rate)
  PROVE  /\ c \in Charge /\ Consistent(c)
         /\ c.items = items /\ c.taxType = "LUT_ZERO" /\ c.rate = rate
<1> DEFINE sub == Subtotal(items)
<1>1. items \in Seq(Line)
  BY BilledItems, Zenon
<1>2. sub \in Nat
  BY <1>1, ItemSums
<1>3. rate \in Nat
  BY PricingAssumption
<1>4. c = [items |-> items, taxType |-> "LUT_ZERO", rate |-> rate, subtotal |-> sub, cgst |-> 0, sgst |-> 0,
           igst |-> 0, tax |-> 0, grand |-> sub, inr |-> sub * rate]
  BY DEF BuildExport, NoCharge
<1> HIDE DEF sub
<1>5. sub * rate \in Nat
  BY <1>2, <1>3
<1>6. c \in Charge
  BY <1>2, <1>4, <1>5 DEF Charge
<1>7. /\ c.subtotal = sub /\ c.tax = 0 /\ c.cgst = 0 /\ c.sgst = 0 /\ c.igst = 0
      /\ c.grand = sub /\ c.items = items /\ c.taxType = "LUT_ZERO" /\ c.rate = rate
  BY <1>4
<1>8. Consistent(c)
  BY <1>2, <1>7 DEF Consistent, Gap, sub
<1>9. QED
  BY <1>6, <1>7, <1>8

\* A note's charge is priced like an invoice's, but has no rupee total.
LEMMA WithoutRupees ==
  ASSUME NEW c \in Charge, Consistent(c), NEW d, d = [c EXCEPT !.inr = 0]
  PROVE  d \in Charge /\ Consistent(d) /\ d.items = c.items /\ d.taxType = c.taxType
<1>1. /\ d \in Charge
      /\ d.items = c.items /\ d.taxType = c.taxType /\ d.subtotal = c.subtotal /\ d.tax = c.tax
      /\ d.cgst = c.cgst /\ d.sgst = c.sgst /\ d.igst = c.igst /\ d.grand = c.grand
  BY DEF Charge
<1>2. QED
  BY <1>1 DEF Consistent

Invoicing(r) == pricing[r].pc \notin {"idle", "note"}

PriceShapeInv ==
  \A r \in Requests :
    /\ pricing[r].pc = "idle" => pricing[r].of = None
    /\ pricing[r].pc # "idle" => pricing[r].of \in Bills
    /\ pricing[r].pc \in {"insert", "note"} => pricing[r].charge.taxType # "none" /\ Consistent(pricing[r].charge)
    /\ pricing[r].pc = "note" => Raised(pricing[r].of)

\* An invoice is raised by one request, once.
OneInvoiceInv ==
  \A r \in Requests : Invoicing(r) =>
    ~Raised(pricing[r].of) /\ \A o \in Requests : pricing[o].of = pricing[r].of => o = r

\* The charge c of bill b is what its lines and today's parties make it.
Computed(c, b) ==
  IF c.taxType = "LUT_ZERO" THEN c = BuildExport(c.items, c.rate)
  ELSE b \notin relocated => seller # None /\ c = ComputeGst(c.items, seller, client.state)

BillInv ==
  /\ \A b \in Bills : Raised(b) => Consistent(bills[b]) /\ Computed(bills[b], b)
  /\ \A r \in Requests : pricing[r].pc = "insert" => Computed(pricing[r].charge, pricing[r].of)

Cancels(c, b) == c.items = bills[b].items /\ b \notin relocated => c = [bills[b] EXCEPT !.inr = 0]

NoteInv ==
  /\ \A b \in Bills : notes[b] # NoCharge => Raised(b) /\ Consistent(notes[b]) /\ Cancels(notes[b], b)
  /\ \A r \in Requests : pricing[r].pc = "note" => Cancels(pricing[r].charge, pricing[r].of)

\* Unless it was lost or fetched twice, a rate that is in use is the cached one.
RateInv ==
  ~fxBlind =>
    /\ \A b \in Bills : bills[b].rate \in {0, cache}
    /\ \A r \in Requests : /\ pricing[r].pc = "cached" => pricing[r].rate \in {0, cache}
                           /\ pricing[r].pc = "insert" => pricing[r].charge.rate \in {0, cache}

PricingIInv == PricingTypeOK /\ PriceShapeInv /\ OneInvoiceInv /\ BillInv /\ NoteInv /\ RateInv

LEMMA NoPriceTyped == NoCharge \in Charge /\ NoPrice \in PriceRequest
<1>1. NoCharge \in Charge
  BY DEF NoCharge, Charge
<1>2. QED
  BY <1>1 DEF NoPrice, PriceRequest

LEMMA PricingInitInv == PricingInit => PricingIInv
<1> SUFFICES ASSUME PricingInit PROVE PricingIInv
  OBVIOUS
<1> USE DEF PricingInit
<1>1. PricingTypeOK
  <2>1. /\ bills \in [Bills -> Charge] /\ notes \in [Bills -> Charge]
        /\ pricing \in [Requests -> PriceRequest]
    BY NoPriceTyped, Zenon
  <2>2. moves \in 0..MaxMoves /\ cache \in LiveRates \cup {Fallback, 0}
    BY PricingAssumption
  <2>3. QED
    BY <2>1, <2>2, Zenon DEF PricingTypeOK
<1>2. /\ \A r \in Requests : pricing[r].pc = "idle" /\ pricing[r].of = None
      /\ \A b \in Bills : bills[b].taxType = "none" /\ bills[b].rate = 0 /\ notes[b] = NoCharge
  BY DEF NoPrice, NoCharge
<1>3. QED
  BY <1>1, <1>2 DEF PricingIInv, PriceShapeInv, OneInvoiceInv, BillInv, NoteInv, RateInv, Invoicing, Raised

\* Nobody who raised an invoice, or is about to, counts when a party moves.
LEMMA PartyMovesKept ==
  ASSUME PricingIInv, seller' \in States \cup {None}, client' \in Client, PartyMoves,
         UNCHANGED <<cache, bills, notes, pricing, fxBlind>>
  PROVE  PricingIInv'
<1> USE DEF PricingIInv
<1>1. moves' \in 0..MaxMoves /\ relocated' \subseteq Bills
  BY PricingAssumption DEF PartyMoves, PricingTypeOK
<1>2. PricingTypeOK'
  BY <1>1, Zenon DEF PricingTypeOK
<1>3. /\ \A b \in Bills : Raised(b) => b \in relocated'
      /\ \A r \in Requests : pricing[r].pc # "idle" => pricing[r].of \in relocated'
  BY DEF PartyMoves, PriceShapeInv
<1>4. PriceShapeInv' /\ OneInvoiceInv'
  BY DEF PriceShapeInv, OneInvoiceInv, Invoicing, Raised
<1>5. BillInv'
  BY <1>3 DEF BillInv, Computed, Raised
<1>6. NoteInv'
  BY <1>3 DEF NoteInv, Cancels, Raised
<1>7. RateInv'
  BY DEF RateInv
<1>8. QED
  BY <1>2, <1>4, <1>5, <1>6, <1>7

\* A request takes one more step towards an invoice or a note.
LEMMA PriceStep ==
  ASSUME PricingIInv, NEW r \in Requests, NEW q \in PriceRequest, pricing' = [pricing EXCEPT ![r] = q],
         q.of \in Bills, q.pc # "idle",
         Invoicing(r) => q.of = pricing[r].of /\ q.pc # "note",
         ~Invoicing(r) /\ q.pc # "note" => Unused(q.of),
         q.pc = "note" => Raised(q.of) /\ Cancels(q.charge, q.of),
         q.pc = "insert" => Computed(q.charge, q.of),
         q.pc \in {"insert", "note"} => q.charge.taxType # "none" /\ Consistent(q.charge),
         UNCHANGED <<seller, client, bills, notes, moves, relocated>>
  PROVE  PriceShapeInv' /\ OneInvoiceInv' /\ BillInv' /\ NoteInv' /\ pricing' \in [Requests -> PriceRequest]
<1> USE DEF PricingIInv
<1>1. \A o \in Requests : pricing'[o] = IF o = r THEN q ELSE pricing[o]
  BY DEF PricingTypeOK
<1>2. pricing' \in [Requests -> PriceRequest]
  BY DEF PricingTypeOK
<1>3. \A b : Raised(b)' = Raised(b)
  BY DEF Raised
<1>4. PriceShapeInv'
  BY <1>1, <1>3 DEF PriceShapeInv
<1>5. OneInvoiceInv'
  BY <1>1, <1>3, PricingAssumption DEF OneInvoiceInv, PriceShapeInv, Invoicing, Unused
<1>6. \A c, b : Computed(c, b)' = Computed(c, b) /\ Cancels(c, b)' = Cancels(c, b)
  BY DEF Computed, Cancels
<1>7. BillInv'
  BY <1>1, <1>3, <1>6 DEF BillInv
<1>8. NoteInv'
  BY <1>1, <1>3, <1>6 DEF NoteInv
<1>9. QED
  BY <1>2, <1>4, <1>5, <1>7, <1>8

\* What Mirror charges cancels the invoice when its lines are the invoice's.
LEMMA MirrorCharge ==
  ASSUME PricingIInv, NEW b \in Bills, Raised(b), NEW items \in LineItems, NEW c, c = Mirror(b, items)
  PROVE  c \in Charge /\ c.taxType # "none" /\ Consistent(c) /\ Cancels(c, b)
<1>1. bills[b] \in Charge /\ Computed(bills[b], b)
  BY DEF PricingIInv, PricingTypeOK, BillInv
<1>2. CASE bills[b].taxType = "LUT_ZERO"
  <2> DEFINE e == BuildExport(items, bills[b].rate)
  <2>1. bills[b].rate \in LiveRates \cup {Fallback, 0}
    BY <1>1 DEF Charge
  <2>2. e \in Charge /\ Consistent(e) /\ e.items = items /\ e.taxType = "LUT_ZERO"
    BY <2>1, ExportCharge
  <2>3. c = [e EXCEPT !.inr = 0]
    BY <1>2 DEF Mirror
  <2>4. items = bills[b].items => e = bills[b]
    BY <1>1, <1>2 DEF Computed
  <2> HIDE DEF e
  <2>5. c \in Charge /\ Consistent(c) /\ c.items = items /\ c.taxType = "LUT_ZERO"
    BY <2>2, <2>3, WithoutRupees
  <2>6. Cancels(c, b)
    BY <2>3, <2>4, <2>5, Zenon DEF Cancels
  <2>7. QED
    BY <2>5, <2>6
<1>3. CASE bills[b].taxType # "LUT_ZERO"
  <2> DEFINE from == IF seller = None THEN client.state ELSE seller
             g == ComputeGst(items, from, client.state)
  <2>1. g \in Charge /\ Consistent(g) /\ g.items = items /\ g.taxType \in {"IGST", "CGST_SGST"}
    BY GstCharge
  <2>2. c = [g EXCEPT !.inr = 0]
    BY <1>3 DEF Mirror
  <2>3. items = bills[b].items /\ b \notin relocated => g = bills[b]
    BY <1>1, <1>3 DEF Computed
  <2> HIDE DEF g, from
  <2>4. c \in Charge /\ Consistent(c) /\ c.items = items /\ c.taxType \in {"IGST", "CGST_SGST"}
    BY <2>1, <2>2, WithoutRupees
  <2>5. Cancels(c, b)
    BY <2>2, <2>3, <2>4, Zenon DEF Cancels
  <2>6. QED
    BY <2>4, <2>5
<1>4. QED
  BY <1>2, <1>3

LEMMA PricingNextInv == PricingIInv /\ [PricingNext]_pricingVars => PricingIInv'
<1> SUFFICES ASSUME PricingIInv, [PricingNext]_pricingVars PROVE PricingIInv'
  OBVIOUS
<1>0. /\ PricingTypeOK /\ PriceShapeInv /\ OneInvoiceInv /\ BillInv /\ NoteInv /\ RateInv
      /\ pricing \in [Requests -> PriceRequest] /\ NoPrice \in PriceRequest
      /\ NoCharge \in Charge
  BY NoPriceTyped DEF PricingIInv, PricingTypeOK
<1>1. ASSUME NEW s \in States \cup {None}, UpdateProfile(s) PROVE PricingIInv'
  BY <1>0, <1>1, PartyMovesKept DEF UpdateProfile, PricingTypeOK
<1>2. ASSUME NEW c \in Client, UpdateClient(c) PROVE PricingIInv'
  BY <1>0, <1>2, PartyMovesKept DEF UpdateClient, PricingTypeOK
<1>3. ASSUME RateExpires PROVE PricingIInv'
  <2>1. PricingTypeOK'
    BY <1>0, <1>3, Zenon DEF RateExpires, PricingTypeOK
  <2>2. PriceShapeInv' /\ OneInvoiceInv'
    BY <1>0, <1>3 DEF RateExpires, PriceShapeInv, OneInvoiceInv, Invoicing, Raised
  <2>3. BillInv' /\ NoteInv'
    BY <1>0, <1>3 DEF RateExpires, BillInv, NoteInv, Computed, Cancels, Raised
  <2>4. RateInv'
    BY <1>3 DEF RateExpires, RateInv
  <2>5. QED
    BY <2>1, <2>2, <2>3, <2>4 DEF PricingIInv
<1>4. ASSUME NEW r \in Requests, NEW b \in Bills, NEW items \in LineItems, BuildDomestic(r, b, items)
      PROVE  PricingIInv'
  <2> DEFINE c == ComputeGst(items, seller, client.state)
             q == [NoPrice EXCEPT !.pc = "insert", !.of = b, !.charge = c]
  <2>1. c \in Charge /\ Consistent(c) /\ c.items = items /\ c.taxType \in {"IGST", "CGST_SGST"} /\ c.rate = 0
    BY GstCharge
  <2>2. Computed(c, b)
    BY <1>4, <2>1 DEF BuildDomestic, Computed
  <2>3. /\ Unused(b) /\ pricing[r].pc = "idle" /\ pricing' = [pricing EXCEPT ![r] = q]
        /\ UNCHANGED <<seller, client, cache, bills, notes, moves, relocated, fxBlind>>
    BY <1>4, Zenon DEF BuildDomestic, Prices
  <2> HIDE DEF c
  <2>4. q \in PriceRequest /\ q.pc = "insert" /\ q.of = b /\ q.charge = c
    BY <2>1 DEF PriceRequest, NoPrice
  <2> HIDE DEF q
  <2>5. PriceShapeInv' /\ OneInvoiceInv' /\ BillInv' /\ NoteInv' /\ pricing' \in [Requests -> PriceRequest]
    BY <2>1, <2>2, <2>3, <2>4, PriceStep DEF Invoicing
  <2>6. PricingTypeOK'
    BY <1>0, <2>3, <2>5, Zenon DEF PricingTypeOK
  <2>7. RateInv'
    BY <1>0, <2>1, <2>3, <2>4 DEF RateInv
  <2>8. QED
    BY <2>5, <2>6, <2>7 DEF PricingIInv
<1>5. ASSUME NEW r \in Requests, NEW b \in Bills, NEW items \in LineItems, CaptureRate(r, b, items)
      PROVE  PricingIInv'
  <2> DEFINE c == [NoCharge EXCEPT !.items = items]
             step == IF cache = 0 THEN "fetch" ELSE "cached"
             q == [NoPrice EXCEPT !.pc = step, !.of = b, !.rate = cache, !.charge = c]
  <2>1. c \in Charge
    BY <1>0 DEF Charge
  <2>2. step \in {"fetch", "cached"} /\ cache \in LiveRates \cup {Fallback, 0}
    BY <1>0 DEF PricingTypeOK
  <2>3. /\ Unused(b) /\ pricing[r].pc = "idle" /\ pricing' = [pricing EXCEPT ![r] = q]
        /\ UNCHANGED <<seller, client, cache, bills, notes, moves, relocated, fxBlind>>
    BY <1>5, Zenon DEF CaptureRate, Prices
  <2> HIDE DEF c, step
  <2>4. q \in PriceRequest /\ q.pc \in {"fetch", "cached"} /\ q.of = b /\ q.rate = cache
    BY <2>1, <2>2 DEF PriceRequest, NoPrice
  <2> HIDE DEF q
  <2>5. PriceShapeInv' /\ OneInvoiceInv' /\ BillInv' /\ NoteInv' /\ pricing' \in [Requests -> PriceRequest]
    BY <2>3, <2>4, PriceStep DEF Invoicing
  <2>6. PricingTypeOK'
    BY <1>0, <2>3, <2>5, Zenon DEF PricingTypeOK
  <2>7. RateInv'
    BY <1>0, <2>3, <2>4 DEF RateInv
  <2>8. QED
    BY <2>5, <2>6, <2>7 DEF PricingIInv
<1>6. ASSUME NEW r \in Requests, NEW b \in Bills, NEW items \in LineItems, CreateNote(r, b, items)
      PROVE  PricingIInv'
  <2> DEFINE c == Mirror(b, items)
             q == [NoPrice EXCEPT !.pc = "note", !.of = b, !.charge = c]
  <2>1. /\ Raised(b) /\ pricing[r].pc = "idle" /\ pricing' = [pricing EXCEPT ![r] = q]
        /\ UNCHANGED <<seller, client, cache, bills, notes, moves, relocated, fxBlind>>
    BY <1>6, Zenon DEF CreateNote, Prices
  <2>2. c \in Charge /\ c.taxType # "none" /\ Consistent(c) /\ Cancels(c, b)
    BY <2>1, MirrorCharge
  <2> HIDE DEF c
  <2>3. q \in PriceRequest /\ q.pc = "note" /\ q.of = b /\ q.charge = c
    BY <2>2 DEF PriceRequest, NoPrice
  <2> HIDE DEF q
  <2>4. PriceShapeInv' /\ OneInvoiceInv' /\ BillInv' /\ NoteInv' /\ pricing' \in [Requests -> PriceRequest]
    BY <2>1, <2>2, <2>3, PriceStep DEF Invoicing
  <2>5. PricingTypeOK'
    BY <1>0, <2>1, <2>4, Zenon DEF PricingTypeOK
  <2>6. RateInv'
    BY <1>0, <2>1, <2>3 DEF RateInv
  <2>7. QED
    BY <2>4, <2>5, <2>6 DEF PricingIInv
<1>7. ASSUME NEW r \in Requests, NEW rate \in LiveRates \cup {Fallback}, FetchLive(r, rate) PROVE PricingIInv'
  <2> DEFINE q == [pricing[r] EXCEPT !.pc = "store", !.rate = rate]
  <2>1. /\ pricing[r].pc = "fetch" /\ pricing' = [pricing EXCEPT ![r] = q]
        /\ UNCHANGED <<seller, client, cache, bills, notes, moves, relocated, fxBlind>>
    BY <1>0, <1>7 DEF FetchLive, PriceRequest
  <2>2. q \in PriceRequest /\ q.pc = "store" /\ q.of = pricing[r].of /\ q.of \in Bills
    BY <1>0, <2>1 DEF PriceRequest, PriceShapeInv
  <2> HIDE DEF q
  <2>3. PriceShapeInv' /\ OneInvoiceInv' /\ BillInv' /\ NoteInv' /\ pricing' \in [Requests -> PriceRequest]
    BY <2>1, <2>2, PriceStep DEF Invoicing
  <2>4. PricingTypeOK'
    BY <1>0, <2>1, <2>3, Zenon DEF PricingTypeOK
  <2>5. RateInv'
    BY <1>0, <2>1, <2>2 DEF RateInv
  <2>6. QED
    BY <2>3, <2>4, <2>5 DEF PricingIInv
<1>8. ASSUME NEW r \in Requests, StoreRate(r) PROVE PricingIInv'
  <2> DEFINE q == [pricing[r] EXCEPT !.pc = "cached"]
  <2>1. /\ pricing[r].pc = "store" /\ pricing' = [pricing EXCEPT ![r] = q]
        /\ cache' = pricing[r].rate /\ fxBlind' = (fxBlind \/ cache # 0)
        /\ UNCHANGED <<seller, client, bills, notes, moves, relocated>>
    BY <1>0, <1>8 DEF StoreRate, Cached, PriceRequest
  <2>2. /\ q \in PriceRequest /\ q.pc = "cached" /\ q.of = pricing[r].of /\ q.of \in Bills
        /\ q.rate = pricing[r].rate /\ pricing[r].rate \in LiveRates \cup {Fallback, 0}
    BY <1>0, <2>1 DEF PriceRequest, PriceShapeInv
  <2> HIDE DEF q
  <2>3. PriceShapeInv' /\ OneInvoiceInv' /\ BillInv' /\ NoteInv' /\ pricing' \in [Requests -> PriceRequest]
    BY <2>1, <2>2, PriceStep DEF Invoicing
  <2>4. fxBlind' \in BOOLEAN /\ cache' \in LiveRates \cup {Fallback, 0}
    BY <1>0, <2>1, <2>2 DEF PricingTypeOK
  <2>5. PricingTypeOK'
    BY <1>0, <2>1, <2>3, <2>4, Zenon DEF PricingTypeOK
  <2>6. RateInv'
    BY <1>0, <2>1, <2>2 DEF RateInv
  <2>7. QED
    BY <2>3, <2>5, <2>6 DEF PricingIInv
<1>9. ASSUME NEW r \in Requests, Quote(r) PROVE PricingIInv'
  <2> DEFINE c == BuildExport(pricing[r].charge.items, pricing[r].rate)
             q == [pricing[r] EXCEPT !.pc = "insert", !.charge = c]
  <2>1. /\ pricing[r].pc = "cached" /\ pricing' = [pricing EXCEPT ![r] = q]
        /\ UNCHANGED <<seller, client, cache, bills, notes, moves, relocated, fxBlind>>
    BY <1>0, <1>9 DEF Quote, PriceRequest
  <2>2. /\ pricing[r].charge.items \in LineItems \cup {<<>>}
        /\ pricing[r].rate \in LiveRates \cup {Fallback, 0} /\ pricing[r].of \in Bills
    BY <1>0, <2>1 DEF PriceRequest, Charge, PriceShapeInv
  <2>3. c \in Charge /\ Consistent(c) /\ c.taxType = "LUT_ZERO" /\ c.rate = pricing[r].rate
        /\ c.items = pricing[r].charge.items
    BY <2>2, ExportCharge
  <2>4. Computed(c, pricing[r].of)
    BY <2>3 DEF Computed
  <2> HIDE DEF c
  <2>5. q \in PriceRequest /\ q.pc = "insert" /\ q.of = pricing[r].of /\ q.charge = c
    BY <1>0, <2>3 DEF PriceRequest
  <2> HIDE DEF q
  <2>6. PriceShapeInv' /\ OneInvoiceInv' /\ BillInv' /\ NoteInv' /\ pricing' \in [Requests -> PriceRequest]
    BY <2>1, <2>2, <2>3, <2>4, <2>5, PriceStep DEF Invoicing
  <2>7. PricingTypeOK'
    BY <1>0, <2>1, <2>6, Zenon DEF PricingTypeOK
  <2>8. RateInv'
    BY <1>0, <2>1, <2>3, <2>5 DEF RateInv
  <2>9. QED
    BY <2>6, <2>7, <2>8 DEF PricingIInv
<1>10. ASSUME NEW r \in Requests, InsertBill(r) PROVE PricingIInv'
  <2>1. PICK b, c : b = pricing[r].of /\ c = pricing[r].charge
    OBVIOUS
  <2>2. /\ pricing[r].pc = "insert"
        /\ bills' = [bills EXCEPT ![b] = c] /\ pricing' = [pricing EXCEPT ![r] = NoPrice]
        /\ UNCHANGED <<seller, client, cache, notes, moves, relocated, fxBlind>>
    BY <1>10, <2>1 DEF InsertBill
  <2>3. /\ b \in Bills /\ c \in Charge /\ c.taxType # "none" /\ Consistent(c) /\ Computed(c, b)
        /\ ~Raised(b) /\ \A o \in Requests : pricing[o].of = b => o = r
    BY <1>0, <2>1, <2>2 DEF PriceRequest, PriceShapeInv, OneInvoiceInv, BillInv, Invoicing
  <2>4. bills' \in [Bills -> Charge] /\ pricing' \in [Requests -> PriceRequest]
    BY <1>0, <2>2, <2>3 DEF PricingTypeOK
  <2>5. PricingTypeOK'
    BY <1>0, <2>2, <2>4, Zenon DEF PricingTypeOK
  <2>6. /\ \A a \in Bills : bills'[a] = IF a = b THEN c ELSE bills[a]
        /\ \A o \in Requests \ {r} : pricing'[o] = pricing[o] /\ pricing[o].of # b
        /\ pricing'[r].pc = "idle" /\ pricing'[r].of = None
    BY <1>0, <2>2, <2>3 DEF PricingTypeOK, NoPrice
  <2>7. notes[b] = NoCharge
    BY <1>0, <2>3, Zenon DEF NoteInv
  <2>8. Raised(b)' /\ \A a \in Bills \ {b} : Raised(a)' = Raised(a)
    BY <2>3, <2>6 DEF Raised
  <2>9. PriceShapeInv'
    BY <1>0, <2>6, <2>8 DEF PriceShapeInv
  <2>10. OneInvoiceInv'
    BY <1>0, <2>3, <2>6, <2>8, PricingAssumption DEF OneInvoiceInv, PriceShapeInv, Invoicing
  <2>11. \A x, a : Computed(x, a)' = Computed(x, a)
    BY <2>2 DEF Computed
  <2>12. BillInv'
    BY <1>0, <2>3, <2>6, <2>8, <2>11 DEF BillInv
  <2>13. \A x : \A a \in Bills \ {b} : Cancels(x, a)' = Cancels(x, a)
    BY <2>2, <2>6 DEF Cancels
  <2>14. NoteInv'
    BY <1>0, <2>7, <2>2, <2>6, <2>8, <2>13 DEF NoteInv, PriceShapeInv
  <2>15. RateInv'
    BY <1>0, <2>1, <2>2, <2>3, <2>6 DEF RateInv
  <2>16. QED
    BY <2>5, <2>9, <2>10, <2>12, <2>14, <2>15 DEF PricingIInv
<1>11. ASSUME NEW r \in Requests, InsertNote(r) PROVE PricingIInv'
  <2>1. PICK b, c : b = pricing[r].of /\ c = pricing[r].charge
    OBVIOUS
  <2>2. /\ pricing[r].pc = "note"
        /\ notes' = [notes EXCEPT ![b] = c] /\ pricing' = [pricing EXCEPT ![r] = NoPrice]
        /\ UNCHANGED <<seller, client, cache, bills, moves, relocated, fxBlind>>
    BY <1>11, <2>1 DEF InsertNote
  <2>3. b \in Bills /\ c \in Charge /\ Consistent(c) /\ Raised(b) /\ Cancels(c, b)
    BY <1>0, <2>1, <2>2 DEF PriceRequest, PriceShapeInv, NoteInv
  <2>4. notes' \in [Bills -> Charge] /\ pricing' \in [Requests -> PriceRequest]
    BY <1>0, <2>2, <2>3 DEF PricingTypeOK
  <2>5. PricingTypeOK'
    BY <1>0, <2>2, <2>4, Zenon DEF PricingTypeOK
  <2>6. /\ \A a \in Bills : notes'[a] = IF a = b THEN c ELSE notes[a]
        /\ \A o \in Requests \ {r} : pricing'[o] = pricing[o]
        /\ pricing'[r].pc = "idle" /\ pricing'[r].of = None
    BY <1>0, <2>2 DEF PricingTypeOK, NoPrice
  <2>7. \A a : Raised(a)' = Raised(a)
    BY <2>2 DEF Raised
  <2>8. PriceShapeInv'
    BY <1>0, <2>6, <2>7 DEF PriceShapeInv
  <2>9. OneInvoiceInv'
    BY <1>0, <2>6, <2>7, PricingAssumption DEF OneInvoiceInv, PriceShapeInv, Invoicing
  <2>10. \A x, a : Computed(x, a)' = Computed(x, a) /\ Cancels(x, a)' = Cancels(x, a)
    BY <2>2 DEF Computed, Cancels
  <2>11. BillInv'
    BY <1>0, <2>2, <2>6, <2>7, <2>10 DEF BillInv
  <2>12. NoteInv'
    BY <1>0, <2>3, <2>6, <2>7, <2>10 DEF NoteInv
  <2>13. RateInv'
    BY <1>0, <2>2, <2>6 DEF RateInv
  <2>14. QED
    BY <2>5, <2>8, <2>9, <2>11, <2>12, <2>13 DEF PricingIInv
<1>12. ASSUME UNCHANGED pricingVars PROVE PricingIInv'
  <2>1. UNCHANGED <<seller, client, cache, bills, notes, pricing, moves, relocated, fxBlind>>
    BY <1>12, Zenon DEF pricingVars
  <2>2. PricingTypeOK'
    BY <1>0, <2>1, Zenon DEF PricingTypeOK
  <2>3. PriceShapeInv' /\ OneInvoiceInv'
    BY <1>0, <2>1 DEF PriceShapeInv, OneInvoiceInv, Invoicing, Raised
  <2>4. BillInv' /\ NoteInv'
    BY <1>0, <2>1 DEF BillInv, NoteInv, Computed, Cancels, Raised
  <2>5. RateInv'
    BY <1>0, <2>1 DEF RateInv
  <2>6. QED
    BY <2>2, <2>3, <2>4, <2>5 DEF PricingIInv
<1>13. QED
  BY <1>1, <1>2, <1>3, <1>4, <1>5, <1>6, <1>7, <1>8, <1>9, <1>10, <1>11, <1>12 DEF PricingNext

\* The invariant holds in every reachable state.
THEOREM PricingInvariance == PricingSpec => []PricingIInv
  BY PricingInitInv, PricingNextInv, PTL DEF PricingSpec

\* gst.ts 25-54, invoices.service.ts 42-55, 78-135: the parts of what an invoice
\* or note charges add up, however many lines it has; a note in full cancels its
\* invoice; and the exports of a day have one rate.
THEOREM AmountsAlwaysAgree == PricingSpec => []AmountsAgree
<1>1. ASSUME PricingIInv PROVE AmountsAgree
  <2>1. BillInv /\ NoteInv /\ RateInv
    BY <1>1 DEF PricingIInv
  <2>2. \A b \in Bills : Raised(b) => Consistent(bills[b])
    BY <2>1 DEF BillInv
  <2>3. \A b \in Bills : notes[b] # NoCharge =>
          /\ Consistent(notes[b])
          /\ notes[b].items = bills[b].items /\ b \notin relocated => notes[b] = [bills[b] EXCEPT !.inr = 0]
    BY <2>1, Zenon DEF NoteInv, Cancels
  <2>4. \A a, b \in Bills : bills[a].rate > 0 /\ bills[b].rate > 0 /\ ~fxBlind => bills[a].rate = bills[b].rate
    BY <2>1 DEF RateInv
  <2>5. QED
    BY <2>2, <2>3, <2>4, Zenon DEF AmountsAgree
<1>2. QED
  BY PricingInvariance, <1>1, PTL

(***************************************************************************)
(* The parts side by side.                                                 *)
(***************************************************************************)

\* A step of the office is a step of its desk and a stutter of every other part.
LEMMA OfficeSteps ==
  ASSUME [OfficeNext]_officeVars
  PROVE  /\ desk' = desk
         /\ [EmploymentNext]_hrVars
         /\ [AttendanceNext]_dayVars
         /\ [PayrollNext]_payVars
         /\ [LetterNext]_letterVars
         /\ [SessionsNext]_authVars
         /\ [EInvoicingNext]_irpVars
         /\ [AadhaarNext]_aadhaarVars
         /\ [ContractsNext]_contractVars
         /\ [FircNext]_fircVars
         /\ [PricingNext]_pricingVars
<1>1. CASE UNCHANGED officeVars
  BY <1>1 DEF officeVars, HrVars, BackVars
<1>2. CASE HrNext /\ UNCHANGED <<desk, BackVars, pricingVars>>
  BY <1>2 DEF HrNext, BackVars
<1>3. CASE BackNext /\ UNCHANGED <<desk, HrVars, pricingVars>>
  BY <1>3 DEF BackNext, HrVars
<1>4. CASE PricingNext /\ UNCHANGED <<desk, HrVars, BackVars>>
  BY <1>4 DEF HrVars, BackVars
<1>5. QED
  BY <1>1, <1>2, <1>3, <1>4 DEF OfficeNext

\* Every behaviour of the office is a behaviour of each of its parts: nothing the
\* other parts do shows in it (Office's header says why they share no document).
THEOREM PartsRun ==
  OfficeSpec => /\ EmploymentSpec /\ AttendanceSpec /\ PayrollSpec /\ LetterSpec /\ SessionsSpec
                /\ EInvoicingSpec /\ AadhaarSpec /\ ContractsSpec /\ FircSpec /\ PricingSpec
<1>1. OfficeInit => /\ EmploymentInit /\ AttendanceInit /\ PayrollInit /\ LetterInit /\ SessionsInit
                    /\ EInvoicingInit /\ AadhaarInit /\ ContractsInit /\ FircInit /\ PricingInit
  BY Zenon DEF OfficeInit
<1>2. [OfficeNext]_officeVars =>
        /\ [EmploymentNext]_hrVars
        /\ [AttendanceNext]_dayVars
        /\ [PayrollNext]_payVars
        /\ [LetterNext]_letterVars
        /\ [SessionsNext]_authVars
        /\ [EInvoicingNext]_irpVars
        /\ [AadhaarNext]_aadhaarVars
        /\ [ContractsNext]_contractVars
        /\ [FircNext]_fircVars
        /\ [PricingNext]_pricingVars
  BY OfficeSteps
<1>3. QED
  BY <1>1, <1>2, PTL DEF OfficeSpec, EmploymentSpec, AttendanceSpec, PayrollSpec, LetterSpec, SessionsSpec,
        EInvoicingSpec, AadhaarSpec, ContractsSpec, FircSpec, PricingSpec

\* Every variable of the part that is open keeps its type, whatever the sets of
\* requests, documents, numbers and names, and whatever the bounds.
THEOREM OfficeTypes == OfficeSpec => []OfficeTypeOK
<1>1. OfficeSpec => [](desk \in Desks)
  <2>1. OfficeInit => desk \in Desks
    BY Zenon DEF OfficeInit
  <2>2. desk \in Desks /\ [OfficeNext]_officeVars => (desk \in Desks)'
    BY OfficeSteps
  <2>3. QED
    BY <2>1, <2>2, PTL DEF OfficeSpec
<1>2. HrIInv => EmploymentTypeOK
  BY HrTypeParts, Zenon DEF HrIInv
<1>3. AttendanceIInv => AttendanceTypeOK
  BY Zenon DEF AttendanceIInv
<1>4. PayrollIInv => PayrollTypeOK
  BY Zenon DEF PayrollIInv
<1>5. LetterIInv => LetterTypeOK
  BY Zenon DEF LetterIInv
<1>6. ContractsIInv => ContractsTypeOK
  BY Zenon DEF ContractsIInv
<1>7. PricingIInv => PricingTypeOK
  BY Zenon DEF PricingIInv
<1>8. /\ desk \in Desks /\ EmploymentTypeOK /\ AttendanceTypeOK /\ PayrollTypeOK /\ LetterTypeOK
      /\ SessionsTypeOK /\ EInvoicingTypeOK /\ AadhaarTypeOK /\ ContractsTypeOK /\ FircTypeOK
      /\ PricingTypeOK
      => OfficeTypeOK
  BY DEF Desks, OfficeTypeOK
<1>9. QED
  BY <1>1, <1>2, <1>3, <1>4, <1>5, <1>6, <1>7, <1>8, PartsRun, EmploymentInvariance, AttendanceInvariance,
     PayrollInvariance, LetterInvariance, SessionsTypes, EInvoicingTypes, AadhaarTypes,
     ContractsInvariance, FircTypes, PricingInvariance, PTL

\* Whatever desk is open, the records of every part agree: the invariants of the ten
\* parts hold together in every state of the office.
THEOREM OfficeAgrees ==
  OfficeSpec => []( /\ RecordsAgree /\ EmployeeFollows
                    /\ LeaveIsMarked /\ MarkHasLeave /\ LeavesDisjoint
                    /\ FiguresAgree /\ FinaliseCovers
                    /\ AccountOwned /\ PortalAgrees /\ AttemptsCounted
                    /\ RemindedOnce /\ FircKept /\ AmountsAgree )
  BY PartsRun, RecordsAlwaysAgree, EmployeeAlwaysFollows, ApprovedIsMarked, MarksAreApproved,
     LeavesNeverOverlap, FiguresAlwaysAgree, FinaliseReachesAll, AlwaysOwned, PortalAgreement,
     AttemptsAreCounted, AlwaysRemindedOnce, FircAlwaysKept, AmountsAlwaysAgree, PTL

\* What a step of the office may never undo: a closed exit, a finalised slip, the
\* order of a letter's statuses, a family that was burnt.
THEOREM OfficeNeverUndoes ==
  OfficeSpec => ClosedStaysClosed /\ FinalisedStays /\ LettersInOrder /\ FamilyRotates
  BY PartsRun, ClosedForGood, FinalisedIsFinal, LettersKeepOrder, OneTokenRotates, Zenon
=============================================================================
