------------------------- MODULE SettlementProofs -------------------------
(***************************************************************************)
(* Proofs about Settlement, for every set of invoices, links and requests  *)
(* and any number of failures.                                             *)
(***************************************************************************)
EXTENDS Settlement, TLAPS

\* What a handler holds in its local variables at each await.
HandlerOK(r) ==
  /\ At(r, "link.check")   => req[r].on \in Invoices
  /\ At(r, "link.mint")    => req[r].on \in Targets
  /\ At(r, "link.insert")  => /\ req[r].on \in Targets
                              /\ req[r].link \in Links
                              /\ link[req[r].link] # "none"
                              /\ linkFor[req[r].link] = req[r].on
                              /\ payment[req[r].link] = "none"
  /\ At(r, "hook.save")    => /\ req[r].link \in Links
                              /\ linkFor[req[r].link] = req[r].on
                              /\ link[req[r].link] = "paid"
                              /\ payment[req[r].link] # "none"
  /\ At(r, "hook.credit")  => /\ req[r].link \in Links
                              /\ linkFor[req[r].link] = req[r].on
                              /\ link[req[r].link] = "paid"
                              /\ payment[req[r].link] = "paid"
  /\ At(r, "hook.reply")   => /\ req[r].link \in Links
                              /\ payment[req[r].link] = "paid"
  /\ At(r, "remit.mark")   => req[r].on \in remitted
  /\ At(r, "update.write") => req[r].on \in Invoices /\ req[r].to \in InvoiceStatus
  /\ At(r, "sweep.mark")   => req[r].on \in Invoices

HandlerInv == \A r \in Requests : HandlerOK(r)

\* Razorpay gives every link a new id, so no two requests insert the same one.
OneInserter ==
  \A r, s \in Requests :
    At(r, "link.insert") /\ At(s, "link.insert") /\ req[r].link = req[s].link => r = s

\* A document exists only for a link that was opened, for a known target.
LinkInv ==
  \A l \in Links : payment[l] # "none" => link[l] # "none" /\ linkFor[l] \in Targets

IInv ==
  /\ TypeOK
  /\ HandlerInv
  /\ OneInserter
  /\ LinkInv
  /\ PaidHasEvidence
  /\ LostOnlyInWindows

LEMMA InitInv == Init => IInv
<1> SUFFICES ASSUME Init PROVE IInv
  OBVIOUS
<1> USE SettlementAssumption
<1>1. TypeOK
  BY DEF Init, TypeOK, Idle, Handler, PC, InvoiceStatus, PaymentStatus, LinkState
<1>2. \A r \in Requests : req[r].pc = "idle"
  BY DEF Init, Idle
<1>3. HandlerInv /\ OneInserter /\ LinkInv
  BY <1>2 DEF Init, HandlerInv, HandlerOK, OneInserter, LinkInv, At
<1>4. PaidHasEvidence /\ LostOnlyInWindows
  BY DEF Init, PaidHasEvidence, LostOnlyInWindows, InFlight
<1>5. QED
  BY <1>1, <1>3, <1>4 DEF IInv

\* Every action preserves the invariant.  The actions that only move a
\* handler along disturb HandlerInv at most.
LEMMA NextInv == IInv /\ [Next]_vars => IInv'
<1> SUFFICES ASSUME IInv, [Next]_vars PROVE IInv'
  OBVIOUS
<1> USE SettlementAssumption
    DEF TypeOK, Handler, Targets, InvoiceStatus, PaymentStatus, LinkState, PC,
        Idle, At, Begin, Goto, End, vars, dbVars, razorpay, history
<1>1. ASSUME NEW r \in Requests, NEW i \in Invoices, LinkRead(r, i) PROVE IInv'
  <2>1. TypeOK' /\ HandlerInv'
    BY <1>1 DEF IInv, HandlerInv, HandlerOK, OneInserter, LinkInv, LinkRead
  <2>2. OneInserter' /\ LinkInv'
    BY <1>1 DEF IInv, HandlerInv, HandlerOK, OneInserter, LinkInv, LinkRead
  <2>3. PaidHasEvidence'
    BY <1>1 DEF IInv, HandlerInv, HandlerOK, LinkInv, PaidHasEvidence, LinkRead
  <2>4. LostOnlyInWindows'
    BY <1>1 DEF IInv, HandlerInv, HandlerOK, LostOnlyInWindows, InFlight, LinkRead
  <2>5. QED
    BY <2>1, <2>2, <2>3, <2>4 DEF IInv
<1>2. ASSUME NEW r \in Requests, LinkCheck(r) PROVE IInv'
  <2>1. TypeOK' /\ HandlerInv'
    BY <1>2 DEF IInv, HandlerInv, HandlerOK, OneInserter, LinkInv, LinkCheck
  <2>2. OneInserter' /\ LinkInv'
    BY <1>2 DEF IInv, HandlerInv, HandlerOK, OneInserter, LinkInv, LinkCheck
  <2>3. PaidHasEvidence'
    BY <1>2 DEF IInv, HandlerInv, HandlerOK, LinkInv, PaidHasEvidence, LinkCheck
  <2>4. LostOnlyInWindows'
    BY <1>2 DEF IInv, HandlerInv, HandlerOK, LostOnlyInWindows, InFlight, LinkCheck
  <2>5. QED
    BY <2>1, <2>2, <2>3, <2>4 DEF IInv
<1>3. ASSUME NEW r \in Requests, NEW p \in Plans, Checkout(r, p) PROVE IInv'
  <2>1. TypeOK' /\ HandlerInv'
    BY <1>3 DEF IInv, HandlerInv, HandlerOK, OneInserter, LinkInv, Checkout
  <2>2. OneInserter' /\ LinkInv'
    BY <1>3 DEF IInv, HandlerInv, HandlerOK, OneInserter, LinkInv, Checkout
  <2>3. PaidHasEvidence'
    BY <1>3 DEF IInv, HandlerInv, HandlerOK, LinkInv, PaidHasEvidence, Checkout
  <2>4. LostOnlyInWindows'
    BY <1>3 DEF IInv, HandlerInv, HandlerOK, LostOnlyInWindows, InFlight, Checkout
  <2>5. QED
    BY <2>1, <2>2, <2>3, <2>4 DEF IInv
<1>4. ASSUME NEW r \in Requests, NEW l \in Links, LinkMint(r, l) PROVE IInv'
  <2>1. TypeOK' /\ HandlerInv'
    <3>1. TypeOK'
      BY <1>4 DEF IInv, HandlerInv, HandlerOK, LinkMint
    <3>2. HandlerOK(r)'
      BY <1>4 DEF IInv, HandlerInv, HandlerOK, LinkInv, LinkMint
    <3>3. ASSUME NEW s \in Requests, s # r PROVE HandlerOK(s)'
      <4>1. HandlerOK(s) /\ req'[s] = req[s]
        BY <1>4, <3>3 DEF IInv, HandlerInv, LinkMint
      <4>2. \A m \in Links : link[m] # "none" => link'[m] = link[m] /\ linkFor'[m] = linkFor[m]
        BY <1>4 DEF IInv, LinkMint
      <4>3. QED
        BY <1>4, <4>1, <4>2 DEF IInv, HandlerOK, LinkMint
    <3>4. QED
      BY <3>1, <3>2, <3>3 DEF HandlerInv
  <2>2. OneInserter' /\ LinkInv'
    BY <1>4 DEF IInv, HandlerInv, HandlerOK, OneInserter, LinkInv, LinkMint
  <2>3. PaidHasEvidence'
    BY <1>4 DEF IInv, HandlerInv, HandlerOK, LinkInv, PaidHasEvidence, LinkMint
  <2>4. LostOnlyInWindows'
    BY <1>4 DEF IInv, HandlerInv, HandlerOK, LostOnlyInWindows, InFlight, LinkMint
  <2>5. QED
    BY <2>1, <2>2, <2>3, <2>4 DEF IInv
<1>5. ASSUME NEW r \in Requests, LinkRefused(r) PROVE IInv'
  <2>1. TypeOK' /\ HandlerInv'
    BY <1>5 DEF IInv, HandlerInv, HandlerOK, OneInserter, LinkInv, LinkRefused
  <2>2. OneInserter' /\ LinkInv'
    BY <1>5 DEF IInv, HandlerInv, HandlerOK, OneInserter, LinkInv, LinkRefused
  <2>3. PaidHasEvidence'
    BY <1>5 DEF IInv, HandlerInv, HandlerOK, LinkInv, PaidHasEvidence, LinkRefused
  <2>4. LostOnlyInWindows'
    BY <1>5 DEF IInv, HandlerInv, HandlerOK, LostOnlyInWindows, InFlight, LinkRefused
  <2>5. QED
    BY <2>1, <2>2, <2>3, <2>4 DEF IInv
<1>6. ASSUME NEW r \in Requests, LinkInsert(r) PROVE IInv'
  <2>1. TypeOK' /\ HandlerInv'
    BY <1>6 DEF IInv, HandlerInv, HandlerOK, OneInserter, LinkInv, LinkInsert
  <2>2. OneInserter' /\ LinkInv'
    BY <1>6 DEF IInv, HandlerInv, HandlerOK, OneInserter, LinkInv, LinkInsert
  <2>3. PaidHasEvidence'
    BY <1>6 DEF IInv, HandlerInv, HandlerOK, LinkInv, PaidHasEvidence, LinkInsert
  <2>4. LostOnlyInWindows'
    BY <1>6 DEF IInv, HandlerInv, HandlerOK, LostOnlyInWindows, InFlight, LinkInsert
  <2>5. QED
    BY <2>1, <2>2, <2>3, <2>4 DEF IInv
<1>7. ASSUME NEW r \in Requests, NEW l \in Links, NEW e \in Event, WebhookUnknown(r, l, e) PROVE IInv'
  <2>1. TypeOK' /\ HandlerInv'
    BY <1>7 DEF IInv, HandlerInv, HandlerOK, OneInserter, LinkInv, WebhookUnknown, Deliverable, ActedOn
  <2>2. OneInserter' /\ LinkInv'
    BY <1>7 DEF IInv, HandlerInv, HandlerOK, OneInserter, LinkInv, WebhookUnknown, Deliverable, ActedOn
  <2>3. PaidHasEvidence'
    BY <1>7 DEF IInv, HandlerInv, HandlerOK, LinkInv, PaidHasEvidence, WebhookUnknown, Deliverable, ActedOn
  <2>4. LostOnlyInWindows'
    BY <1>7 DEF IInv, HandlerInv, HandlerOK, LostOnlyInWindows, InFlight, WebhookUnknown, Deliverable, ActedOn
  <2>5. QED
    BY <2>1, <2>2, <2>3, <2>4 DEF IInv
<1>8. ASSUME NEW r \in Requests, NEW l \in Links, NEW e \in Event, WebhookReplay(r, l, e) PROVE IInv'
  <2>1. TypeOK' /\ HandlerInv'
    BY <1>8 DEF IInv, HandlerInv, HandlerOK, OneInserter, LinkInv, WebhookReplay, Deliverable, ActedOn, AlreadyProcessed
  <2>2. OneInserter' /\ LinkInv'
    BY <1>8 DEF IInv, HandlerInv, HandlerOK, OneInserter, LinkInv, WebhookReplay, Deliverable, ActedOn, AlreadyProcessed
  <2>3. PaidHasEvidence'
    BY <1>8 DEF IInv, HandlerInv, HandlerOK, LinkInv, PaidHasEvidence, WebhookReplay, Deliverable, ActedOn, AlreadyProcessed
  <2>4. LostOnlyInWindows'
    BY <1>8 DEF IInv, HandlerInv, HandlerOK, LostOnlyInWindows, InFlight, WebhookReplay, Deliverable, ActedOn, AlreadyProcessed
  <2>5. QED
    BY <2>1, <2>2, <2>3, <2>4 DEF IInv
<1>9. ASSUME NEW r \in Requests, NEW l \in Links, NEW e \in Event, WebhookAccept(r, l, e) PROVE IInv'
  <2>1. TypeOK' /\ HandlerInv'
    BY <1>9 DEF IInv, HandlerInv, HandlerOK, OneInserter, LinkInv, WebhookAccept, Deliverable, ActedOn, AlreadyProcessed
  <2>2. OneInserter' /\ LinkInv'
    BY <1>9 DEF IInv, HandlerInv, HandlerOK, OneInserter, LinkInv, WebhookAccept, Deliverable, ActedOn, AlreadyProcessed
  <2>3. PaidHasEvidence'
    BY <1>9 DEF IInv, HandlerInv, HandlerOK, LinkInv, PaidHasEvidence, WebhookAccept, Deliverable, ActedOn, AlreadyProcessed
  <2>4. LostOnlyInWindows'
    BY <1>9 DEF IInv, HandlerInv, HandlerOK, LostOnlyInWindows, InFlight, WebhookAccept, Deliverable, ActedOn, AlreadyProcessed
  <2>5. QED
    BY <2>1, <2>2, <2>3, <2>4 DEF IInv
<1>10. ASSUME NEW r \in Requests, WebhookSave(r) PROVE IInv'
  <2>1. TypeOK' /\ HandlerInv'
    BY <1>10 DEF IInv, HandlerInv, HandlerOK, OneInserter, LinkInv, WebhookSave
  <2>2. OneInserter' /\ LinkInv'
    BY <1>10 DEF IInv, HandlerInv, HandlerOK, OneInserter, LinkInv, WebhookSave
  <2>3. PaidHasEvidence'
    BY <1>10 DEF IInv, HandlerInv, HandlerOK, LinkInv, PaidHasEvidence, WebhookSave
  <2>4. LostOnlyInWindows'
    BY <1>10 DEF IInv, HandlerInv, HandlerOK, LostOnlyInWindows, InFlight, WebhookSave
  <2>5. QED
    BY <2>1, <2>2, <2>3, <2>4 DEF IInv
<1>11. ASSUME NEW r \in Requests, WebhookCredit(r) PROVE IInv'
  <2>1. TypeOK' /\ HandlerInv'
    BY <1>11 DEF IInv, HandlerInv, HandlerOK, OneInserter, LinkInv, WebhookCredit
  <2>2. OneInserter' /\ LinkInv'
    BY <1>11 DEF IInv, HandlerInv, HandlerOK, OneInserter, LinkInv, WebhookCredit
  <2>3. PaidHasEvidence'
    BY <1>11 DEF IInv, HandlerInv, HandlerOK, LinkInv, PaidHasEvidence, WebhookCredit
  <2>4. LostOnlyInWindows'
    BY <1>11 DEF IInv, HandlerInv, HandlerOK, LostOnlyInWindows, InFlight, WebhookCredit
  <2>5. QED
    BY <2>1, <2>2, <2>3, <2>4 DEF IInv
<1>12. ASSUME NEW r \in Requests, WebhookReply(r) PROVE IInv'
  <2>1. TypeOK' /\ HandlerInv'
    BY <1>12 DEF IInv, HandlerInv, HandlerOK, OneInserter, LinkInv, WebhookReply
  <2>2. OneInserter' /\ LinkInv'
    BY <1>12 DEF IInv, HandlerInv, HandlerOK, OneInserter, LinkInv, WebhookReply
  <2>3. PaidHasEvidence'
    BY <1>12 DEF IInv, HandlerInv, HandlerOK, LinkInv, PaidHasEvidence, WebhookReply
  <2>4. LostOnlyInWindows'
    BY <1>12 DEF IInv, HandlerInv, HandlerOK, LostOnlyInWindows, InFlight, WebhookReply
  <2>5. QED
    BY <2>1, <2>2, <2>3, <2>4 DEF IInv
<1>13. ASSUME NEW r \in Requests, NEW i \in Invoices, RemitInsert(r, i) PROVE IInv'
  <2>1. TypeOK' /\ HandlerInv'
    BY <1>13 DEF IInv, HandlerInv, HandlerOK, OneInserter, LinkInv, RemitInsert
  <2>2. OneInserter' /\ LinkInv'
    BY <1>13 DEF IInv, HandlerInv, HandlerOK, OneInserter, LinkInv, RemitInsert
  <2>3. PaidHasEvidence'
    BY <1>13 DEF IInv, HandlerInv, HandlerOK, LinkInv, PaidHasEvidence, RemitInsert
  <2>4. LostOnlyInWindows'
    BY <1>13 DEF IInv, HandlerInv, HandlerOK, LostOnlyInWindows, InFlight, RemitInsert
  <2>5. QED
    BY <2>1, <2>2, <2>3, <2>4 DEF IInv
<1>14. ASSUME NEW r \in Requests, RemitMark(r) PROVE IInv'
  <2>1. TypeOK' /\ HandlerInv'
    BY <1>14 DEF IInv, HandlerInv, HandlerOK, OneInserter, LinkInv, RemitMark
  <2>2. OneInserter' /\ LinkInv'
    BY <1>14 DEF IInv, HandlerInv, HandlerOK, OneInserter, LinkInv, RemitMark
  <2>3. PaidHasEvidence'
    BY <1>14 DEF IInv, HandlerInv, HandlerOK, LinkInv, PaidHasEvidence, RemitMark
  <2>4. LostOnlyInWindows'
    BY <1>14 DEF IInv, HandlerInv, HandlerOK, LostOnlyInWindows, InFlight, RemitMark
  <2>5. QED
    BY <2>1, <2>2, <2>3, <2>4 DEF IInv
<1>15. ASSUME NEW r \in Requests, NEW i \in Invoices, NEW to \in InvoiceStatus, UpdateRead(r, i, to) PROVE IInv'
  <2>1. TypeOK' /\ HandlerInv'
    BY <1>15 DEF IInv, HandlerInv, HandlerOK, OneInserter, LinkInv, UpdateRead
  <2>2. OneInserter' /\ LinkInv'
    BY <1>15 DEF IInv, HandlerInv, HandlerOK, OneInserter, LinkInv, UpdateRead
  <2>3. PaidHasEvidence'
    BY <1>15 DEF IInv, HandlerInv, HandlerOK, LinkInv, PaidHasEvidence, UpdateRead
  <2>4. LostOnlyInWindows'
    BY <1>15 DEF IInv, HandlerInv, HandlerOK, LostOnlyInWindows, InFlight, UpdateRead
  <2>5. QED
    BY <2>1, <2>2, <2>3, <2>4 DEF IInv
<1>16. ASSUME NEW r \in Requests, UpdateWrite(r) PROVE IInv'
  <2>1. TypeOK' /\ HandlerInv'
    BY <1>16 DEF IInv, HandlerInv, HandlerOK, OneInserter, LinkInv, UpdateWrite
  <2>2. OneInserter' /\ LinkInv'
    BY <1>16 DEF IInv, HandlerInv, HandlerOK, OneInserter, LinkInv, UpdateWrite
  <2>3. PaidHasEvidence'
    BY <1>16 DEF IInv, HandlerInv, HandlerOK, LinkInv, PaidHasEvidence, UpdateWrite
  <2>4. LostOnlyInWindows'
    BY <1>16 DEF IInv, HandlerInv, HandlerOK, LostOnlyInWindows, InFlight, UpdateWrite
  <2>5. QED
    BY <2>1, <2>2, <2>3, <2>4 DEF IInv
<1>17. ASSUME NEW r \in Requests, NEW i \in Invoices, SweepRead(r, i) PROVE IInv'
  <2>1. TypeOK' /\ HandlerInv'
    BY <1>17 DEF IInv, HandlerInv, HandlerOK, OneInserter, LinkInv, SweepRead
  <2>2. OneInserter' /\ LinkInv'
    BY <1>17 DEF IInv, HandlerInv, HandlerOK, OneInserter, LinkInv, SweepRead
  <2>3. PaidHasEvidence'
    BY <1>17 DEF IInv, HandlerInv, HandlerOK, LinkInv, PaidHasEvidence, SweepRead
  <2>4. LostOnlyInWindows'
    BY <1>17 DEF IInv, HandlerInv, HandlerOK, LostOnlyInWindows, InFlight, SweepRead
  <2>5. QED
    BY <2>1, <2>2, <2>3, <2>4 DEF IInv
<1>18. ASSUME NEW r \in Requests, SweepMark(r) PROVE IInv'
  <2>1. TypeOK' /\ HandlerInv'
    BY <1>18 DEF IInv, HandlerInv, HandlerOK, OneInserter, LinkInv, SweepMark, StillUnpaid
  <2>2. OneInserter' /\ LinkInv'
    BY <1>18 DEF IInv, HandlerInv, HandlerOK, OneInserter, LinkInv, SweepMark, StillUnpaid
  <2>3. PaidHasEvidence'
    BY <1>18 DEF IInv, HandlerInv, HandlerOK, LinkInv, PaidHasEvidence, SweepMark, StillUnpaid
  <2>4. LostOnlyInWindows'
    BY <1>18 DEF IInv, HandlerInv, HandlerOK, LostOnlyInWindows, InFlight, SweepMark, StillUnpaid
  <2>5. QED
    BY <2>1, <2>2, <2>3, <2>4 DEF IInv
<1>19. ASSUME NEW r \in Requests, Fail(r) PROVE IInv'
  <2>1. TypeOK' /\ HandlerInv'
    BY <1>19 DEF IInv, HandlerInv, HandlerOK, OneInserter, LinkInv, Fail
  <2>2. OneInserter' /\ LinkInv'
    BY <1>19 DEF IInv, HandlerInv, HandlerOK, OneInserter, LinkInv, Fail
  <2>3. PaidHasEvidence'
    BY <1>19 DEF IInv, HandlerInv, HandlerOK, LinkInv, PaidHasEvidence, Fail
  <2>4. LostOnlyInWindows'
    BY <1>19 DEF IInv, HandlerInv, HandlerOK, LostOnlyInWindows, InFlight, Fail
  <2>5. QED
    BY <2>1, <2>2, <2>3, <2>4 DEF IInv
<1>20. ASSUME NEW l \in Links, CustomerPays(l) PROVE IInv'
  <2>1. TypeOK' /\ HandlerInv'
    BY <1>20 DEF IInv, HandlerInv, HandlerOK, OneInserter, LinkInv, CustomerPays
  <2>2. OneInserter' /\ LinkInv'
    BY <1>20 DEF IInv, HandlerInv, HandlerOK, OneInserter, LinkInv, CustomerPays
  <2>3. PaidHasEvidence'
    BY <1>20 DEF IInv, HandlerInv, HandlerOK, LinkInv, PaidHasEvidence, CustomerPays
  <2>4. LostOnlyInWindows'
    BY <1>20 DEF IInv, HandlerInv, HandlerOK, LostOnlyInWindows, InFlight, CustomerPays
  <2>5. QED
    BY <2>1, <2>2, <2>3, <2>4 DEF IInv
<1>21. ASSUME NEW l \in Links, LinkCloses(l) PROVE IInv'
  <2>1. TypeOK' /\ HandlerInv'
    BY <1>21 DEF IInv, HandlerInv, HandlerOK, OneInserter, LinkInv, LinkCloses
  <2>2. OneInserter' /\ LinkInv'
    BY <1>21 DEF IInv, HandlerInv, HandlerOK, OneInserter, LinkInv, LinkCloses
  <2>3. PaidHasEvidence'
    BY <1>21 DEF IInv, HandlerInv, HandlerOK, LinkInv, PaidHasEvidence, LinkCloses
  <2>4. LostOnlyInWindows'
    BY <1>21 DEF IInv, HandlerInv, HandlerOK, LostOnlyInWindows, InFlight, LinkCloses
  <2>5. QED
    BY <2>1, <2>2, <2>3, <2>4 DEF IInv
<1>22. CASE UNCHANGED vars
  BY <1>22 DEF IInv, HandlerInv, HandlerOK, OneInserter, LinkInv, PaidHasEvidence, LostOnlyInWindows, InFlight
<1>23. QED
  BY <1>1, <1>2, <1>3, <1>4, <1>5, <1>6, <1>7, <1>8, <1>9, <1>10, <1>11, <1>12, <1>13, <1>14, <1>15, <1>16, <1>17, <1>18, <1>19, <1>20, <1>21, <1>22 DEF Next, Progress, Arrive, Deliver

\* The inductive invariant holds throughout.
THEOREM Invariance == Spec => []IInv
  BY InitInv, NextInv, PTL DEF Spec

\* Every variable keeps its type: in particular no handler ever writes a
\* status, a plan or a payment state outside the schema's enumeration.
THEOREM TypeCorrect == Spec => []TypeOK
<1>1. IInv => TypeOK
  BY DEF IInv
<1>2. QED
  BY <1>1, Invariance, PTL

\* No invoice, plan or payment document is 'paid' without captured money, a
\* remittance or an explicit edit behind it.
THEOREM Evidence == Spec => []PaidHasEvidence
<1>1. IInv => PaidHasEvidence
  BY DEF IInv
<1>2. QED
  BY <1>1, Invariance, PTL

\* Captured money is lost in the two windows of handleWebhook and nowhere else.
THEOREM LossWindows == Spec => []LostOnlyInWindows
<1>1. IInv => LostOnlyInWindows
  BY DEF IInv
<1>2. QED
  BY <1>1, Invariance, PTL

\* A redelivered webhook never reaches the invoice or plan of a link that has
\* been processed.
THEOREM Replay == Spec => ReplayIsHarmless
<1>1. IInv /\ [Next]_vars => [\A l \in Links : Processed(l) => Processed(l)']_vars
  <2> SUFFICES ASSUME IInv, [Next]_vars, NEW l \in Links, Processed(l)
               PROVE  Processed(l)'
    OBVIOUS
  <2> USE SettlementAssumption
      DEF IInv, TypeOK, Handler, Processed, Idle, At, Begin, Goto, End, vars,
          dbVars, razorpay, history
  <2>1. ASSUME NEW r \in Requests, Progress(r) PROVE Processed(l)'
    BY <2>1 DEF Progress, HandlerInv, HandlerOK, LinkCheck, LinkMint, LinkRefused,
       LinkInsert, WebhookSave, WebhookCredit, WebhookReply, RemitMark, UpdateWrite, SweepMark
  <2>2. ASSUME NEW r \in Requests, Arrive(r) PROVE Processed(l)'
    BY <2>2 DEF Arrive, LinkRead, RemitInsert, SweepRead, UpdateRead, Checkout
  <2>3. ASSUME NEW r \in Requests, Fail(r) PROVE Processed(l)'
    BY <2>3 DEF Fail
  <2>4. ASSUME NEW m \in Links, CustomerPays(m) \/ LinkCloses(m) PROVE Processed(l)'
    BY <2>4 DEF CustomerPays, LinkCloses
  <2>5. ASSUME NEW m \in Links, Deliver(m) PROVE Processed(l)'
    BY <2>5 DEF Deliver, WebhookUnknown, WebhookReplay, WebhookAccept, AlreadyProcessed
  <2>6. CASE UNCHANGED vars
    BY <2>6
  <2>7. QED
    BY <2>1, <2>2, <2>3, <2>4, <2>5, <2>6 DEF Next
<1>2. QED
  BY <1>1, Invariance, PTL DEF Spec, ReplayIsHarmless

\* A paid invoice that no earlier edit is about to overwrite stays paid.
THEOREM SettledStays == Spec => SettledIsFinal
<1>1. IInv /\ [Next]_vars => [\A i \in Invoices : Settled(i) => Settled(i)']_vars
  <2> SUFFICES ASSUME IInv, [Next]_vars, NEW i \in Invoices, Settled(i)
               PROVE  Settled(i)'
    OBVIOUS
  <2> USE SettlementAssumption
      DEF IInv, TypeOK, Handler, Settled, Idle, At, Begin, Goto, End, vars,
          dbVars, razorpay, history
  <2>1. ASSUME NEW r \in Requests, Progress(r) PROVE Settled(i)'
    BY <2>1 DEF Progress, LinkCheck, LinkMint, LinkRefused, LinkInsert, WebhookSave,
       WebhookCredit, WebhookReply, RemitMark, UpdateWrite, SweepMark, StillUnpaid
  <2>2. ASSUME NEW r \in Requests, Arrive(r) PROVE Settled(i)'
    BY <2>2 DEF Arrive, LinkRead, RemitInsert, SweepRead, UpdateRead, Checkout
  <2>3. ASSUME NEW r \in Requests, Fail(r) PROVE Settled(i)'
    BY <2>3 DEF Fail
  <2>4. ASSUME NEW l \in Links, CustomerPays(l) \/ LinkCloses(l) PROVE Settled(i)'
    BY <2>4 DEF CustomerPays, LinkCloses
  <2>5. ASSUME NEW l \in Links, Deliver(l) PROVE Settled(i)'
    BY <2>5 DEF Deliver, WebhookUnknown, WebhookReplay, WebhookAccept
  <2>6. CASE UNCHANGED vars
    BY <2>6
  <2>7. QED
    BY <2>1, <2>2, <2>3, <2>4, <2>5, <2>6 DEF Next
<1>2. QED
  BY <1>1, Invariance, PTL DEF Spec, SettledIsFinal
\* While an invoice has an unpaid document and nobody is past the lookup, no
\* second link is raised for it.
THEOREM OneCharge == Spec => OneChargeAtATime
<1>1. IInv /\ [Next]_vars =>
        [\A i \in Invoices :
           Covered(i) /\ OpenFor(i)' # {}
             => Covered(i)' /\ OpenFor(i)' \subseteq OpenFor(i)]_vars
  <2> SUFFICES ASSUME IInv, [Next]_vars, NEW i \in Invoices,
                      Covered(i), OpenFor(i)' # {}
               PROVE  Covered(i)' /\ OpenFor(i)' \subseteq OpenFor(i)
    OBVIOUS
  <2> USE SettlementAssumption
      DEF IInv, TypeOK, Handler, Targets, Covered, OpenFor, Idle, At, Begin, Goto,
          End, vars, dbVars, razorpay, history
  <2>1. ASSUME NEW r \in Requests, LinkCheck(r)
        PROVE  Covered(i)' /\ OpenFor(i)' \subseteq OpenFor(i)
    BY <2>1 DEF LinkCheck, OpenPaymentExists, HasOpenPayment
  <2>2. ASSUME NEW r \in Requests, NEW l \in Links, LinkMint(r, l)
        PROVE  Covered(i)' /\ OpenFor(i)' \subseteq OpenFor(i)
    BY <2>2 DEF LinkMint, LinkInv
  <2>3. ASSUME NEW r \in Requests, LinkInsert(r)
        PROVE  Covered(i)' /\ OpenFor(i)' \subseteq OpenFor(i)
    BY <2>3 DEF LinkInsert, HandlerInv, HandlerOK
  <2>4. ASSUME NEW r \in Requests, Progress(r), ~LinkCheck(r),
               ~\E l \in Links : LinkMint(r, l), ~LinkInsert(r)
        PROVE  Covered(i)' /\ OpenFor(i)' \subseteq OpenFor(i)
    BY <2>4 DEF Progress, LinkRefused, WebhookSave, WebhookCredit, WebhookReply,
       RemitMark, UpdateWrite, SweepMark
  <2>5. ASSUME NEW r \in Requests, Arrive(r) \/ Fail(r)
        PROVE  Covered(i)' /\ OpenFor(i)' \subseteq OpenFor(i)
    BY <2>5 DEF Arrive, LinkRead, RemitInsert, SweepRead, UpdateRead, Checkout, Fail
  <2>6. ASSUME NEW l \in Links, CustomerPays(l) \/ LinkCloses(l)
        PROVE  Covered(i)' /\ OpenFor(i)' \subseteq OpenFor(i)
    BY <2>6 DEF CustomerPays, LinkCloses
  <2>7. ASSUME NEW l \in Links, Deliver(l)
        PROVE  Covered(i)' /\ OpenFor(i)' \subseteq OpenFor(i)
    BY <2>7 DEF Deliver, WebhookUnknown, WebhookReplay, WebhookAccept
  <2>8. CASE UNCHANGED vars
    BY <2>8
  <2>9. QED
    BY <2>1, <2>2, <2>3, <2>4, <2>5, <2>6, <2>7, <2>8 DEF Next
<1>2. QED
  BY <1>1, Invariance, PTL DEF Spec, OneChargeAtATime
===========================================================================
