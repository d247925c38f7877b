---------------------------- MODULE FemaProofs ----------------------------
(***************************************************************************)
(* Proofs about FemaSweep, for every set of invoices and sweepers and any  *)
(* number of thresholds and failures.                                      *)
(***************************************************************************)
EXTENDS FemaSweep, TLAPS

\* What a sweep holds once it has an invoice in hand.
HandInv ==
  \A s \in Sweepers :
    /\ sweep[s].pc \in {"mail", "push"} =>
         sweep[s].on \in Invoices /\ sweep[s].on \notin sweep[s].todo
    /\ sweep[s].pc = "push" =>
         \E h \in Keys : /\ <<sweep[s].on, h>> \in mailed
                         /\ \A k \in sweep[s].due : k <= h

Alone == \A s, t \in Sweepers : Running(s) /\ Running(t) => s = t

\* The key of a mailed reminder is recorded, or a sweep is about to do it.
MailedInv ==
  \A i \in Invoices, k \in Keys : <<i, k>> \in mailed =>
    \/ k \in sent[i]
    \/ \E s \in Sweepers :
         sweep[s].pc = "push" /\ sweep[s].on = i /\ k \in sweep[s].due

\* What a sweep has read of an invoice it has not come to is still true, and
\* the keys it is about to mail for are not recorded.
FreshInv ==
  \A s \in Sweepers : Running(s) =>
    /\ \A i \in sweep[s].todo : sweep[s].keys[i] = sent[i]
    /\ sweep[s].pc = "mail" => sweep[s].due \cap sent[sweep[s].on] = {}

Undisturbed == ~overlap /\ failures = 0

CauseInv ==
  Undisturbed => Alone /\ MailedInv /\ FreshInv /\ repeated = {}

IInv ==
  /\ TypeOK
  /\ HandInv
  /\ SentMeansMailed
  /\ CauseInv

LEMMA InitInv == Init => IInv
<1> SUFFICES ASSUME Init PROVE IInv
  OBVIOUS
<1> USE FemaAssumption
<1>1. Idle \in Sweep
  BY DEF Idle, Sweep, Keys
<1>2. TypeOK
  <2>1. 0 \in 0..Top /\ failures \in 0..MaxFailures
    BY DEF Init
  <2>2. sent \in [Invoices -> SUBSET Keys]
    BY DEF Init
  <2> QED
    BY <1>1, <2>1, <2>2 DEF Init, TypeOK, Status
<1>3. HandInv /\ SentMeansMailed /\ CauseInv
  BY DEF Init, HandInv, SentMeansMailed, CauseInv, Alone, MailedInv, FreshInv,
         Running, Idle
<1> QED
  BY <1>2, <1>3 DEF IInv

\* A sweep's step changes its own record only.
LEMMA StartRecord ==
  ASSUME TypeOK, NEW s \in Sweepers, Start(s)
  PROVE  /\ sweep'[s] \in Sweep
         /\ sweep'[s].pc = "scan" /\ sweep'[s].todo \subseteq Unpaid
         /\ sweep'[s].keys = sent /\ sweep'[s].on = None
         /\ \A t \in Sweepers \ {s} : sweep'[t] = sweep[t]
         /\ sweep' \in [Sweepers -> Sweep]
<1> DEFINE new == [pc |-> "scan", todo |-> Unpaid, keys |-> sent, now |-> age,
                   late |-> {i \in Invoices : status[i] = "overdue"}, on |-> None,
                   due |-> {}]
<1>1. new \in Sweep
  BY FemaAssumption DEF TypeOK, Sweep, Unpaid, Keys
<1>2. sweep' = [sweep EXCEPT ![s] = new]
  BY DEF Start
<1> HIDE DEF new
<1>3. sweep' \in [Sweepers -> Sweep] /\ sweep'[s] = new
      /\ \A t \in Sweepers \ {s} : sweep'[t] = sweep[t]
  BY <1>1, <1>2 DEF TypeOK
<1> QED
  BY <1>1, <1>3 DEF new

LEMMA LookRecord ==
  ASSUME TypeOK, NEW s \in Sweepers, NEW i \in Invoices, Look(s, i)
  PROVE  /\ sweep' \in [Sweepers -> Sweep]
         /\ \A t \in Sweepers \ {s} : sweep'[t] = sweep[t]
         /\ sweep'[s].todo = sweep[s].todo \ {i}
         /\ sweep'[s].keys = sweep[s].keys
         /\ \/ sweep'[s].pc = "scan" /\ sweep'[s].on = None
            \/ sweep'[s].pc = "mail" /\ sweep'[s].on = i /\ sweep'[s].due = Due(s, i)
<1> DEFINE mail == Due(s, i) # {} /\ i \in Reachable
           new == [sweep[s] EXCEPT !.todo = sweep[s].todo \ {i},
                                   !.pc = IF mail THEN "mail" ELSE "scan",
                                   !.on = IF mail THEN i ELSE None,
                                   !.due = IF mail THEN Due(s, i) ELSE {}]
<1>1. sweep[s] \in Sweep
  BY DEF TypeOK
<1>2. Due(s, i) \subseteq Keys
  BY DEF Due
<1>3. /\ new \in Sweep /\ new.todo = sweep[s].todo \ {i} /\ new.keys = sweep[s].keys
      /\ \/ new.pc = "scan" /\ new.on = None
         \/ new.pc = "mail" /\ new.on = i /\ new.due = Due(s, i)
  <2> HIDE DEF mail
  <2> QED BY <1>1, <1>2 DEF Sweep
<1>4. sweep' = [sweep EXCEPT ![s] = new]
  BY DEF Look
<1> HIDE DEF new
<1> QED
  BY <1>3, <1>4 DEF TypeOK

LEMMA MailRecord ==
  ASSUME TypeOK, NEW s \in Sweepers, NEW k \in Keys, Mail(s, k)
  PROVE  /\ sweep' \in [Sweepers -> Sweep]
         /\ \A t \in Sweepers \ {s} : sweep'[t] = sweep[t]
         /\ sweep'[s].pc = "push" /\ sweep'[s].todo = sweep[s].todo
         /\ sweep'[s].keys = sweep[s].keys /\ sweep'[s].on = sweep[s].on
         /\ sweep'[s].due = sweep[s].due
<1>1. sweep[s] \in Sweep
  BY DEF TypeOK
<1> DEFINE new == [sweep[s] EXCEPT !.pc = "push"]
<1>2. new \in Sweep /\ new.pc = "push" /\ new.todo = sweep[s].todo
      /\ new.keys = sweep[s].keys /\ new.on = sweep[s].on /\ new.due = sweep[s].due
  BY <1>1 DEF Sweep
<1>3. sweep' = [sweep EXCEPT ![s] = new]
  BY DEF Mail
<1> HIDE DEF new
<1> QED
  BY <1>2, <1>3 DEF TypeOK

LEMMA PushRecord ==
  ASSUME TypeOK, NEW s \in Sweepers, NEW k \in Keys, Push(s, k)
  PROVE  /\ sweep' \in [Sweepers -> Sweep]
         /\ \A t \in Sweepers \ {s} : sweep'[t] = sweep[t]
         /\ sweep'[s].todo = sweep[s].todo /\ sweep'[s].keys = sweep[s].keys
         /\ sweep'[s].due = sweep[s].due \ {k}
         /\ \/ sweep'[s].pc = "push" /\ sweep'[s].on = sweep[s].on
            \/ sweep'[s].pc = "scan" /\ sweep'[s].on = None /\ sweep[s].due \ {k} = {}
<1>1. sweep[s] \in Sweep
  BY DEF TypeOK
<1> DEFINE left == sweep[s].due \ {k}
           new == [sweep[s] EXCEPT !.due = left,
                                   !.pc = IF left = {} THEN "scan" ELSE "push",
                                   !.on = IF left = {} THEN None ELSE sweep[s].on]
<1>2. /\ new \in Sweep /\ new.todo = sweep[s].todo /\ new.keys = sweep[s].keys
      /\ new.due = left
      /\ \/ new.pc = "push" /\ new.on = sweep[s].on
         \/ new.pc = "scan" /\ new.on = None /\ left = {}
  BY <1>1 DEF Sweep
<1>3. sweep' = [sweep EXCEPT ![s] = new]
  BY DEF Push
<1> HIDE DEF new
<1> QED
  BY <1>2, <1>3 DEF TypeOK

LEMMA FailRecord ==
  ASSUME TypeOK, NEW s \in Sweepers, sweep' = [sweep EXCEPT ![s] = Idle]
  PROVE  /\ sweep' \in [Sweepers -> Sweep]
         /\ \A t \in Sweepers \ {s} : sweep'[t] = sweep[t]
         /\ sweep'[s].pc = "idle" /\ sweep'[s].todo = {} /\ sweep'[s].on = None
<1>1. Idle \in Sweep /\ Idle.pc = "idle" /\ Idle.todo = {} /\ Idle.on = None
  BY FemaAssumption DEF Idle, Sweep, Keys
<1> QED
  BY <1>1 DEF TypeOK

\* Steps that are not a sweep's leave everything the invariant is about.
Elsewhere == UNCHANGED <<sent, sweep, failures, history>>

LEMMA Steps ==
  ASSUME [Next]_vars
  PROVE  \/ \E s \in Sweepers : Start(s) \/ Finish(s) \/ Fail(s)
         \/ \E s \in Sweepers, i \in Invoices : Look(s, i)
         \/ \E s \in Sweepers, k \in Keys : Mail(s, k) \/ Push(s, k)
         \/ Elsewhere
  BY DEF Next, Continue, Month, Settle, EditRead, EditWrite, Elsewhere, vars

LEMMA TypeInductive ==
  ASSUME TypeOK, HandInv, [Next]_vars
  PROVE  TypeOK'
<1> USE FemaAssumption
<1>1. ASSUME NEW s \in Sweepers, Start(s) PROVE TypeOK'
  <2>1. sweep' \in [Sweepers -> Sweep]
    BY <1>1, StartRecord
  <2>2. overlap' \in BOOLEAN
    BY <1>1 DEF Start
  <2> QED
    BY <1>1, <2>1, <2>2 DEF Start, TypeOK
<1>2. ASSUME NEW s \in Sweepers, NEW i \in Invoices, Look(s, i) PROVE TypeOK'
  <2>1. sweep' \in [Sweepers -> Sweep]
    BY <1>2, LookRecord
  <2>2. status' \in [Invoices -> Status]
    BY <1>2 DEF Look, TypeOK, Status
  <2> QED
    BY <1>2, <2>1, <2>2 DEF Look, TypeOK, history
<1>3. ASSUME NEW s \in Sweepers, NEW k \in Keys, Mail(s, k) PROVE TypeOK'
  <2>1. sweep' \in [Sweepers -> Sweep]
    BY <1>3, MailRecord
  <2>2. sweep[s].on \in Invoices
    BY <1>3 DEF Mail, HandInv
  <2>3. mailed' \subseteq Invoices \X Keys /\ repeated' \subseteq Invoices \X Keys
    BY <1>3, <2>2 DEF Mail, TypeOK
  <2> QED
    BY <1>3, <2>1, <2>3 DEF Mail, TypeOK
<1>4. ASSUME NEW s \in Sweepers, NEW k \in Keys, Push(s, k) PROVE TypeOK'
  <2>1. sweep' \in [Sweepers -> Sweep]
    BY <1>4, PushRecord
  <2>2. sent' \in [Invoices -> SUBSET Keys]
    BY <1>4 DEF Push, TypeOK
  <2> QED
    BY <1>4, <2>1, <2>2 DEF Push, TypeOK, history
<1>5. ASSUME NEW s \in Sweepers, Finish(s) PROVE TypeOK'
  <2>1. sweep' \in [Sweepers -> Sweep]
    BY <1>5, FailRecord DEF Finish
  <2> QED
    BY <1>5, <2>1 DEF Finish, TypeOK, history
<1>6. ASSUME NEW s \in Sweepers, Fail(s) PROVE TypeOK'
  <2>1. sweep' \in [Sweepers -> Sweep]
    BY <1>6, FailRecord DEF Fail
  <2>2. failures' \in 0..MaxFailures
    BY <1>6 DEF Fail, TypeOK
  <2> QED
    BY <1>6, <2>1, <2>2 DEF Fail, TypeOK, history
<1>7. ASSUME NEW i \in Invoices, Month(i) PROVE TypeOK'
  BY <1>7 DEF Month, TypeOK, history
<1>8. ASSUME NEW i \in Invoices, Settle(i) PROVE TypeOK'
  BY <1>8 DEF Settle, TypeOK, history, Status
<1>9. ASSUME NEW i \in Invoices, NEW to \in Status, EditRead(i, to) PROVE TypeOK'
  BY <1>9 DEF EditRead, TypeOK, history
<1>10. ASSUME NEW i \in Invoices, EditWrite(i) PROVE TypeOK'
  <2>1. edit[i] \in Status
    BY <1>10 DEF EditWrite, TypeOK
  <2> QED
    BY <1>10, <2>1 DEF EditWrite, TypeOK, history
<1>11. CASE UNCHANGED vars
  BY <1>11 DEF vars, TypeOK, history
<1> QED
  BY <1>1, <1>2, <1>3, <1>4, <1>5, <1>6, <1>7, <1>8, <1>9, <1>10, <1>11
     DEF Next, Continue

LEMMA HandInductive ==
  ASSUME TypeOK, HandInv, [Next]_vars
  PROVE  HandInv'
<1> USE FemaAssumption
<1>1. ASSUME NEW s \in Sweepers, Start(s) PROVE HandInv'
  BY <1>1, StartRecord DEF Start, HandInv
<1>2. ASSUME NEW s \in Sweepers, NEW i \in Invoices, Look(s, i) PROVE HandInv'
  <2>1. sweep'[s].pc # "push" /\ mailed' = mailed
    BY <1>2, LookRecord DEF Look, history
  <2>2. sweep'[s].pc = "mail" =>
          sweep'[s].on \in Invoices /\ sweep'[s].on \notin sweep'[s].todo
    BY <1>2, LookRecord
  <2>3. \A t \in Sweepers \ {s} : sweep'[t] = sweep[t]
    BY <1>2, LookRecord
  <2> QED
    BY <2>1, <2>2, <2>3 DEF HandInv
<1>3. ASSUME NEW s \in Sweepers, NEW k \in Keys, Mail(s, k) PROVE HandInv'
  <2>1. <<sweep'[s].on, k>> \in mailed' /\ mailed \subseteq mailed'
    BY <1>3, MailRecord DEF Mail
  <2>2. sweep'[s].due \in SUBSET Nat /\ \A j \in sweep'[s].due : j <= k
    BY <1>3, MailRecord DEF Mail, Highest, TypeOK, Sweep, Keys
  <2>3. sweep'[s].on \in Invoices /\ sweep'[s].on \notin sweep'[s].todo
    BY <1>3, MailRecord DEF Mail, HandInv
  <2>4. ASSUME NEW t \in Sweepers \ {s}
        PROVE  /\ sweep'[t].pc \in {"mail", "push"} =>
                    sweep'[t].on \in Invoices /\ sweep'[t].on \notin sweep'[t].todo
               /\ sweep'[t].pc = "push" =>
                    \E h \in Keys : /\ <<sweep'[t].on, h>> \in mailed'
                                    /\ \A j \in sweep'[t].due : j <= h
    BY <1>3, <2>1, <2>4, MailRecord DEF HandInv
  <2> QED
    BY <2>1, <2>2, <2>3, <2>4 DEF HandInv
<1>4. ASSUME NEW s \in Sweepers, NEW k \in Keys, Push(s, k) PROVE HandInv'
  <2>1. mailed' = mailed /\ sweep[s].pc = "push"
    BY <1>4 DEF Push, history
  <2>2. sweep'[s].pc \in {"mail", "push"} =>
          /\ sweep'[s].on \in Invoices /\ sweep'[s].on \notin sweep'[s].todo
          /\ \E h \in Keys : /\ <<sweep'[s].on, h>> \in mailed'
                             /\ \A j \in sweep'[s].due : j <= h
    BY <1>4, <2>1, PushRecord DEF HandInv
  <2>3. \A t \in Sweepers \ {s} : sweep'[t] = sweep[t]
    BY <1>4, PushRecord
  <2> QED
    BY <2>1, <2>2, <2>3 DEF HandInv
<1>5. ASSUME NEW s \in Sweepers, Finish(s) PROVE HandInv'
  BY <1>5, FailRecord DEF Finish, HandInv, history
<1>6. ASSUME NEW s \in Sweepers, Fail(s) PROVE HandInv'
  BY <1>6, FailRecord DEF Fail, HandInv, history
<1>7. CASE Elsewhere
  BY <1>7 DEF Elsewhere, HandInv, history
<1> QED
  BY <1>1, <1>2, <1>3, <1>4, <1>5, <1>6, <1>7, Steps

LEMMA SentInductive ==
  ASSUME TypeOK, HandInv, SentMeansMailed, [Next]_vars
  PROVE  SentMeansMailed'
<1>1. ASSUME sent' = sent, mailed \subseteq mailed' PROVE SentMeansMailed'
  BY <1>1 DEF SentMeansMailed
<1>2. ASSUME NEW s \in Sweepers, NEW k \in Keys, Push(s, k) PROVE SentMeansMailed'
  <2>1. PICK h \in Keys : <<sweep[s].on, h>> \in mailed /\ k <= h
    BY <1>2 DEF Push, Lowest, HandInv
  <2>2. sent' = [sent EXCEPT ![sweep[s].on] = @ \cup {k}] /\ mailed' = mailed
    BY <1>2 DEF Push, history
  <2>3. h >= k
    BY <2>1 DEF Keys
  <2> QED
    BY <2>1, <2>2, <2>3 DEF SentMeansMailed, TypeOK
<1>3. ASSUME NEW s \in Sweepers, Start(s) \/ Finish(s) \/ Fail(s)
      PROVE  sent' = sent /\ mailed \subseteq mailed'
  BY <1>3 DEF Start, Finish, Fail, history
<1>4. ASSUME NEW s \in Sweepers, NEW i \in Invoices, Look(s, i)
      PROVE  sent' = sent /\ mailed \subseteq mailed'
  BY <1>4 DEF Look, history
<1>5. ASSUME NEW s \in Sweepers, NEW k \in Keys, Mail(s, k)
      PROVE  sent' = sent /\ mailed \subseteq mailed'
  BY <1>5 DEF Mail
<1>6. CASE Elsewhere
  BY <1>1, <1>6 DEF Elsewhere, history
<1> QED
  BY <1>1, <1>2, <1>3, <1>4, <1>5, <1>6, Steps

\* The four facts survive as long as nothing has failed or overlapped.
LEMMA CauseInductive ==
  ASSUME TypeOK, HandInv, CauseInv, [Next]_vars
  PROVE  CauseInv'
<1> USE FemaAssumption
<1> SUFFICES ASSUME Undisturbed'
             PROVE  (Alone /\ MailedInv /\ FreshInv /\ repeated = {})'
  BY DEF CauseInv
<1>1. Undisturbed
  <2>1. ASSUME NEW s \in Sweepers, Start(s) \/ Finish(s) PROVE Undisturbed
    BY <2>1 DEF Start, Finish, Undisturbed, TypeOK, history
  <2>2. ASSUME NEW s \in Sweepers, Fail(s) PROVE FALSE
    BY <2>2 DEF Fail, Undisturbed, TypeOK
  <2>3. ASSUME NEW s \in Sweepers, NEW i \in Invoices, Look(s, i) PROVE Undisturbed
    BY <2>3 DEF Look, Undisturbed, history
  <2>4. ASSUME NEW s \in Sweepers, NEW k \in Keys, Mail(s, k) \/ Push(s, k)
        PROVE  Undisturbed
    BY <2>4 DEF Mail, Push, Undisturbed, history
  <2>5. CASE Elsewhere
    BY <2>5 DEF Elsewhere, Undisturbed, history
  <2> QED
    BY <2>1, <2>2, <2>3, <2>4, <2>5, Steps
<1>2. Alone /\ MailedInv /\ FreshInv /\ repeated = {}
  BY <1>1 DEF CauseInv
<1>3. ASSUME NEW s \in Sweepers, Start(s)
      PROVE  (Alone /\ MailedInv /\ FreshInv /\ repeated = {})'
  <2>1. \A t \in Sweepers : ~Running(t)
    BY <1>3 DEF Start, Undisturbed
  <2>2. \A t \in Sweepers \ {s} : sweep'[t].pc = "idle"
    BY <1>3, <2>1, StartRecord DEF Running
  <2>3. sent' = sent /\ mailed' = mailed /\ repeated' = repeated
    BY <1>3 DEF Start
  <2>4. Alone'
    BY <2>2 DEF Alone, Running
  <2>5. MailedInv'
    BY <1>2, <2>1, <2>3 DEF MailedInv, Running
  <2>6. FreshInv'
    BY <1>3, <2>2, <2>3, StartRecord DEF FreshInv, Running
  <2> QED
    BY <1>2, <2>3, <2>4, <2>5, <2>6
<1>4. ASSUME NEW s \in Sweepers, NEW i \in Invoices, Look(s, i)
      PROVE  (Alone /\ MailedInv /\ FreshInv /\ repeated = {})'
  <2>1. Running(s) /\ i \in sweep[s].todo /\ sweep[s].pc = "scan"
    BY <1>4 DEF Look, Running
  <2>2. \A t \in Sweepers \ {s} : ~Running(t) /\ sweep'[t].pc = "idle"
    BY <1>2, <1>4, <2>1, LookRecord DEF Alone, Running
  <2>3. sent' = sent /\ mailed' = mailed /\ repeated' = repeated
    BY <1>4 DEF Look, history
  <2>4. Alone'
    BY <2>2 DEF Alone, Running
  <2>5. MailedInv'
    BY <1>2, <2>1, <2>2, <2>3 DEF MailedInv, Running
  <2>6. Due(s, i) \cap sent[i] = {}
    BY <1>2, <2>1 DEF FreshInv, Due
  <2>7. \A j \in sweep'[s].todo : sweep'[s].keys[j] = sent'[j]
    BY <1>2, <1>4, <2>1, <2>3, LookRecord DEF FreshInv
  <2>8. sweep'[s].pc = "mail" => sweep'[s].due \cap sent'[sweep'[s].on] = {}
    BY <1>4, <2>3, <2>6, LookRecord
  <2>9. FreshInv'
    BY <2>2, <2>7, <2>8 DEF FreshInv, Running
  <2> QED
    BY <1>2, <2>3, <2>4, <2>5, <2>9
<1>5. ASSUME NEW s \in Sweepers, NEW k \in Keys, Mail(s, k)
      PROVE  (Alone /\ MailedInv /\ FreshInv /\ repeated = {})'
  <2> DEFINE m == <<sweep[s].on, k>>
  <2>1. /\ Running(s) /\ sweep[s].pc = "mail" /\ sweep[s].on \in Invoices
        /\ k \in sweep[s].due
    BY <1>5 DEF Mail, Running, Highest, HandInv
  <2>2. \A t \in Sweepers \ {s} : ~Running(t) /\ sweep'[t].pc = "idle"
    BY <1>2, <1>5, <2>1, MailRecord DEF Alone, Running
  <2>3. k \notin sent[sweep[s].on]
    BY <1>2, <2>1 DEF FreshInv
  <2>4. m \notin mailed
    BY <1>2, <2>1, <2>2, <2>3 DEF MailedInv, Running
  <2>5. sent' = sent /\ mailed' = mailed \cup {m} /\ repeated' = {}
    BY <1>2, <1>5, <2>4 DEF Mail
  <2>6. Alone'
    BY <2>2 DEF Alone, Running
  <2>7. MailedInv'
    <3> SUFFICES ASSUME NEW i \in Invoices, NEW j \in Keys, <<i, j>> \in mailed'
                 PROVE  \/ j \in sent'[i]
                        \/ \E t \in Sweepers : /\ sweep'[t].pc = "push"
                                               /\ sweep'[t].on = i
                                               /\ j \in sweep'[t].due
      BY DEF MailedInv
    <3>1. CASE <<i, j>> = m
      BY <1>5, <2>1, <3>1, MailRecord
    <3>2. CASE <<i, j>> \in mailed
      BY <1>2, <2>1, <2>2, <2>5, <3>2 DEF MailedInv, Running
    <3> QED
      BY <2>5, <3>1, <3>2
  <2>8. FreshInv'
    BY <1>2, <1>5, <2>1, <2>2, <2>5, MailRecord DEF FreshInv, Running
  <2> QED
    BY <2>5, <2>6, <2>7, <2>8
<1>6. ASSUME NEW s \in Sweepers, NEW k \in Keys, Push(s, k)
      PROVE  (Alone /\ MailedInv /\ FreshInv /\ repeated = {})'
  <2>1. /\ Running(s) /\ sweep[s].pc = "push" /\ sweep[s].on \in Invoices
        /\ sweep[s].on \notin sweep[s].todo
    BY <1>6 DEF Push, Running, HandInv
  <2>2. \A t \in Sweepers \ {s} : ~Running(t) /\ sweep'[t].pc = "idle"
    BY <1>2, <1>6, <2>1, PushRecord DEF Alone, Running
  <2>3. /\ sent' = [sent EXCEPT ![sweep[s].on] = @ \cup {k}]
        /\ mailed' = mailed /\ repeated' = repeated
    BY <1>6 DEF Push, history
  <2>4. Alone'
    BY <2>2 DEF Alone, Running
  <2>5. /\ k \in sent'[sweep[s].on]
        /\ \A i \in Invoices : sent[i] \subseteq sent'[i]
        /\ \A i \in Invoices \ {sweep[s].on} : sent'[i] = sent[i]
    BY <2>1, <2>3 DEF TypeOK
  <2>6. MailedInv'
    <3> SUFFICES ASSUME NEW i \in Invoices, NEW j \in Keys, <<i, j>> \in mailed,
                        j \notin sent'[i]
                 PROVE  \E t \in Sweepers : /\ sweep'[t].pc = "push"
                                            /\ sweep'[t].on = i
                                            /\ j \in sweep'[t].due
      BY <2>3 DEF MailedInv
    <3>1. sweep[s].on = i /\ j \in sweep[s].due
      BY <1>2, <2>2, <2>5 DEF MailedInv, Running
    <3>2. j \in sweep[s].due \ {k}
      BY <2>5, <3>1
    <3> QED
      BY <1>6, <3>1, <3>2, PushRecord
  <2>7. \A i \in sweep'[s].todo : sweep'[s].keys[i] = sent'[i]
    <3>1. sweep[s].todo \subseteq Invoices
      BY DEF TypeOK, Sweep
    <3> QED
      BY <1>2, <1>6, <2>1, <2>5, <3>1, PushRecord DEF FreshInv
  <2>8. FreshInv'
    BY <1>6, <2>2, <2>7, PushRecord DEF FreshInv, Running
  <2> QED
    BY <1>2, <2>3, <2>4, <2>6, <2>8
<1>7. ASSUME NEW s \in Sweepers, Finish(s)
      PROVE  (Alone /\ MailedInv /\ FreshInv /\ repeated = {})'
  <2>1. /\ sweep'[s].pc = "idle" /\ sweep[s].pc = "scan"
        /\ \A t \in Sweepers \ {s} : sweep'[t] = sweep[t]
    BY <1>7, FailRecord DEF Finish
  <2>2. sent' = sent /\ mailed' = mailed /\ repeated' = repeated
    BY <1>7 DEF Finish, history
  <2>3. Alone' /\ FreshInv'
    BY <1>2, <2>1, <2>2 DEF Alone, FreshInv, Running
  <2>4. MailedInv'
    BY <1>2, <2>1, <2>2 DEF MailedInv
  <2> QED
    BY <1>2, <2>2, <2>3, <2>4
<1>8. ASSUME NEW s \in Sweepers, Fail(s) PROVE FALSE
  BY <1>8 DEF Fail, Undisturbed, TypeOK
<1>9. CASE Elsewhere
  BY <1>2, <1>9 DEF Elsewhere, Alone, MailedInv, FreshInv, Running, history
<1> QED
  BY <1>3, <1>4, <1>5, <1>6, <1>7, <1>8, <1>9, Steps

\* The inductive invariant holds in every reachable state of FemaSweep.
THEOREM Invariance == Spec => []IInv
<1>1. IInv /\ [Next]_vars => IInv'
  BY TypeInductive, HandInductive, SentInductive, CauseInductive DEF IInv
<1> QED
  BY InitInv, <1>1, PTL DEF Spec

\* Every variable keeps its type: the type invariant of the sweep's record
\* needs that a sweep with a reminder in hand has an invoice in hand.
THEOREM TypeCorrect == Spec => []TypeOK
<1>1. IInv => TypeOK
  BY DEF IInv
<1> QED
  BY Invariance, <1>1, PTL

\* A key in femaRemindersSent stands for a reminder that was mailed, its own
\* or a higher one, whatever sweeps overlap or die (FemaReminderService.sweep).
THEOREM NoSilentKey == Spec => []SentMeansMailed
<1>1. IInv => SentMeansMailed
  BY DEF IInv
<1> QED
  BY Invariance, <1>1, PTL

\* With one sweep at a time and none that fails, no reminder is ever mailed
\* twice: femaRemindersSent does make sweeps idempotent, one after the other.
THEOREM RepeatCauses == Spec => []RepeatsHaveACause
<1>1. IInv => RepeatsHaveACause
  <2> SUFFICES ASSUME IInv, repeated # {}, ~(overlap \/ failures > 0) PROVE FALSE
    BY DEF RepeatsHaveACause
  <2>1. failures = 0
    BY DEF IInv, TypeOK
  <2> QED
    BY <2>1 DEF IInv, CauseInv, Undisturbed
<1> QED
  BY Invariance, <1>1, PTL

\* What one step may do to an invoice that is paid and at rest.
LEMMA RestStep ==
  ASSUME TypeOK, [Next]_vars, NEW i \in Invoices, AtRest(i)
  PROVE  /\ AtRest(i)'
         /\ \A k \in Keys : <<i, k>> \in mailed' => <<i, k>> \in mailed
<1> USE FemaAssumption
<1>1. ASSUME NEW s \in Sweepers, Start(s)
      PROVE  AtRest(i)' /\ mailed' = mailed
  <2>1. i \notin Unpaid /\ i # None
    BY DEF AtRest, Unpaid
  <2> QED
    BY <1>1, <2>1, StartRecord DEF Start, AtRest
<1>2. ASSUME NEW s \in Sweepers, NEW j \in Invoices, Look(s, j)
      PROVE  AtRest(i)' /\ mailed' = mailed
  <2>1. j # i /\ i # None
    BY <1>2 DEF Look, AtRest
  <2>2. status'[i] = "paid" /\ edit' = edit /\ mailed' = mailed
    BY <1>2 DEF Look, AtRest, TypeOK, history
  <2>3. \A t \in Sweepers : i \notin sweep'[t].todo /\ sweep'[t].on # i
    BY <1>2, <2>1, LookRecord DEF AtRest
  <2> QED
    BY <2>2, <2>3 DEF AtRest
<1>3. ASSUME NEW s \in Sweepers, NEW k \in Keys, Mail(s, k)
      PROVE  /\ AtRest(i)'
             /\ \A h \in Keys : <<i, h>> \in mailed' => <<i, h>> \in mailed
  <2>1. AtRest(i)'
    BY <1>3, MailRecord DEF Mail, AtRest
  <2>2. sweep[s].on # i /\ mailed' = mailed \cup {<<sweep[s].on, k>>}
    BY <1>3 DEF Mail, AtRest
  <2> QED
    BY <2>1, <2>2
<1>4. ASSUME NEW s \in Sweepers, NEW k \in Keys, Push(s, k)
      PROVE  AtRest(i)' /\ mailed' = mailed
  <2>1. i # None
    OBVIOUS
  <2>2. status' = status /\ edit' = edit /\ mailed' = mailed
    BY <1>4 DEF Push, history
  <2>3. \A t \in Sweepers : i \notin sweep'[t].todo /\ sweep'[t].on # i
    BY <1>4, <2>1, PushRecord DEF AtRest
  <2> QED
    BY <2>2, <2>3 DEF AtRest
<1>5. ASSUME NEW s \in Sweepers, Finish(s) \/ Fail(s)
      PROVE  AtRest(i)' /\ mailed' = mailed
  <2>1. i # None /\ sweep' = [sweep EXCEPT ![s] = Idle]
    BY <1>5 DEF Finish, Fail
  <2> QED
    BY <1>5, <2>1, FailRecord DEF Finish, Fail, AtRest, history
<1>6. ASSUME NEW j \in Invoices, Month(j) PROVE AtRest(i)' /\ mailed' = mailed
  BY <1>6 DEF Month, AtRest, history
<1>7. ASSUME NEW j \in Invoices, Settle(j) PROVE AtRest(i)' /\ mailed' = mailed
  BY <1>7 DEF Settle, AtRest, TypeOK, history
<1>8. ASSUME NEW j \in Invoices, NEW to \in Status, EditRead(j, to)
      PROVE  AtRest(i)' /\ mailed' = mailed
  <2>1. j # i
    BY <1>8 DEF EditRead, AtRest
  <2> QED
    BY <1>8, <2>1 DEF EditRead, AtRest, TypeOK, history
<1>9. ASSUME NEW j \in Invoices, EditWrite(j) PROVE AtRest(i)' /\ mailed' = mailed
  BY <1>9 DEF EditWrite, AtRest, TypeOK, history
<1>10. CASE UNCHANGED vars
  BY <1>10 DEF vars, AtRest, history
<1> QED
  BY <1>1, <1>2, <1>3, <1>4, <1>5, <1>6, <1>7, <1>8, <1>9, <1>10 DEF Next, Continue

\* Nobody is reminded of an invoice that is paid and at rest.
THEOREM SilentAfterPayment == Spec => NoReminderAfterPayment
<1> DEFINE Rest == \A i \in Invoices : AtRest(i) =>
                     /\ AtRest(i)'
                     /\ \A k \in Keys : <<i, k>> \in mailed' => <<i, k>> \in mailed
<1>1. TypeOK /\ [Next]_vars => Rest
  BY RestStep
<1>2. TypeOK /\ [Next]_vars => [Rest]_vars
  BY <1>1
<1>3. []TypeOK /\ [][Next]_vars => [][Rest]_vars
  BY <1>2, PTL
<1> QED
  BY TypeCorrect, <1>3, PTL DEF Spec, NoReminderAfterPayment
===========================================================================
