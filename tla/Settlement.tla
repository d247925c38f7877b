---------------------------- MODULE Settlement ----------------------------
(***************************************************************************)
(* How money reaches an invoice or a subscription plan.                    *)
(*                                                                         *)
(* Six handlers of the API write the status of an invoice: raising a       *)
(* Razorpay payment link, the Razorpay webhook, recording a foreign        *)
(* remittance, editing the invoice, and the daily FEMA sweep; a checkout   *)
(* raises a link for a plan instead.  Each handler is an asynchronous      *)
(* function over MongoDB without transactions, so the handlers interleave  *)
(* at every await: one action here is the code between two awaits that     *)
(* touch shared state.  A handler keeps what it has read in its record of  *)
(* "req", exactly as the code keeps it in a local variable, and may act on *)
(* it when it is no longer true.                                           *)
(*                                                                         *)
(* Amounts, customers, audit lines and the reads that no guard depends on  *)
(* are left out.  A handler that rejects its input or finds nothing to do  *)
(* changes no state; it is the absence of a step.  Razorpay is outside     *)
(* the repository: it opens a link when asked to, lets the customer pay    *)
(* it once, and repeats a webhook until one delivery has been answered     *)
(* with 200.                                                               *)
(*                                                                         *)
(* A few guards are operators of their own, each after a faulty variant    *)
(* of it; the variants are used by no action and serve to show which       *)
(* property notices the fault.                                             *)
(***************************************************************************)
EXTENDS Naturals, FiniteSets

CONSTANTS
  Invoices,     \* invoices of one organisation
  Exports,      \* those of type 'export', the only ones the FEMA sweep reads
  Plans,        \* paid subscription plans
  Free,         \* the plan of an organisation that has bought none
  Links,        \* ids Razorpay may give to payment links
  Requests,     \* requests the API can have in flight at one time
  None,         \* "no value" in a record
  MaxFailures   \* bound: handlers that may die between two awaits

Targets == Invoices \cup Plans

ASSUME SettlementAssumption ==
  /\ Exports \subseteq Invoices
  /\ Invoices \cap Plans = {}
  /\ Free \notin Plans
  /\ None \notin Targets \cup Links
  /\ MaxFailures \in Nat

VARIABLES
  status,    \* invoices.status
  remitted,  \* invoices with a document in remittances
  plan,      \* organizations.plan
  payment,   \* payments.status by razorpayLinkId, "none" when there is no document
  link,      \* Razorpay: the state of a payment link
  linkFor,   \* Razorpay: notes.invoiceId / notes.planId of a link
  acked,     \* Razorpay: links whose payment_link.paid was answered with 200
  req,       \* the handlers in flight
  failures,  \* handlers that died so far
  byHand,    \* history: invoices an edit has set to 'paid'
  credited,  \* history: links whose webhook reached markPaid or setPlan
  lost       \* history: links a handler gave up on with money captured

dbVars   == <<status, remitted, plan, payment>>
razorpay == <<link, linkFor, acked>>
history  == <<byHand, credited, lost>>
vars     == <<dbVars, razorpay, req, failures, history>>

InvoiceStatus == {"draft", "sent", "paid", "overdue"}
PaymentStatusWithoutPaid == {"none", "created"}
PaymentStatus == {"none", "created", "paid"}
LinkState     == {"none", "open", "paid", "closed"}
Event         == {"payment_link.paid", "payment_link.closed"}

PC == {"idle", "link.check", "link.mint", "link.insert", "hook.save",
       "hook.credit", "hook.reply", "remit.mark", "update.write",
       "sweep.mark"}

Handler == [pc   : PC,
            on   : Targets \cup {None},       \* the invoice or plan it works on
            link : Links \cup {None},         \* the payment link it works on
            to   : InvoiceStatus \cup {None}] \* the status an edit will write

Idle == [pc |-> "idle", on |-> None, link |-> None, to |-> None]

TypeOK ==
  /\ status \in [Invoices -> InvoiceStatus]
  /\ remitted \subseteq Invoices
  /\ plan \in Plans \cup {Free}
  /\ payment \in [Links -> PaymentStatus]
  /\ link \in [Links -> LinkState]
  /\ linkFor \in [Links -> Targets \cup {None}]
  /\ acked \subseteq Links
  /\ req \in [Requests -> Handler]
  /\ failures \in 0..MaxFailures
  /\ byHand \subseteq Invoices
  /\ credited \subseteq Links
  /\ lost \subseteq Links

Init ==
  /\ status = [i \in Invoices |-> "draft"]
  /\ remitted = {}
  /\ plan = Free
  /\ payment = [l \in Links |-> "none"]
  /\ link = [l \in Links |-> "none"]
  /\ linkFor = [l \in Links |-> None]
  /\ acked = {}
  /\ req = [r \in Requests |-> Idle]
  /\ failures = 0
  /\ byHand = {} /\ credited = {} /\ lost = {}

(***************************************************************************)
(* Request bookkeeping: Begin, Goto and End only ever touch "req".         *)
(***************************************************************************)
At(r, pc) == req[r].pc = pc

Begin(r, pc, on, lk, to) ==
  /\ At(r, "idle")
  /\ req' = [req EXCEPT ![r] = [pc |-> pc, on |-> on, link |-> lk, to |-> to]]

Goto(r, pc) == req' = [req EXCEPT ![r].pc = pc]

End(r) == req' = [req EXCEPT ![r] = Idle]

(***************************************************************************)
(* POST /payments/links: PaymentsService.createInvoiceLink.                *)
(***************************************************************************)
HasOpenPayment(i) == \E l \in Links : linkFor[l] = i /\ payment[l] = "created"

NoOpenPaymentLookup(i) == FALSE

\* The lookup "existing" of createInvoiceLink.
OpenPaymentExists(i) == HasOpenPayment(i)

LinkRead(r, i) ==
  /\ status[i] # "paid"
  /\ Begin(r, "link.check", i, None, None)
  /\ UNCHANGED <<dbVars, razorpay, failures, history>>

LinkCheck(r) ==
  /\ At(r, "link.check")
  /\ IF OpenPaymentExists(req[r].on) THEN End(r) ELSE Goto(r, "link.mint")
  /\ UNCHANGED <<dbVars, razorpay, failures, history>>

\* POST /billing/checkout: createSubscriptionLink looks for no earlier link.
Checkout(r, p) ==
  /\ Begin(r, "link.mint", p, None, None)
  /\ UNCHANGED <<dbVars, razorpay, failures, history>>

\* RazorpayClient.createPaymentLink: the link exists, and the customer has
\* been mailed its address, before the API has a document for it.
LinkMint(r, l) ==
  /\ At(r, "link.mint")
  /\ link[l] = "none"
  /\ link' = [link EXCEPT ![l] = "open"]
  /\ linkFor' = [linkFor EXCEPT ![l] = req[r].on]
  /\ req' = [req EXCEPT ![r] =
       [pc |-> "link.insert", on |-> req[r].on, link |-> l, to |-> None]]
  /\ UNCHANGED <<dbVars, acked, failures, history>>

\* RazorpayClient.createPaymentLink throws: not configured, or refused.
LinkRefused(r) ==
  /\ At(r, "link.mint")
  /\ End(r)
  /\ UNCHANGED <<dbVars, razorpay, failures, history>>

LinkInsert(r) ==
  /\ At(r, "link.insert")
  /\ payment' = [payment EXCEPT ![req[r].link] = "created"]
  /\ End(r)
  /\ UNCHANGED <<status, remitted, plan, razorpay, failures, history>>

(***************************************************************************)
(* Razorpay and its customer.                                              *)
(***************************************************************************)
CustomerPays(l) ==
  /\ link[l] = "open"
  /\ link' = [link EXCEPT ![l] = "paid"]
  /\ UNCHANGED <<dbVars, linkFor, acked, req, failures, history>>

LinkCloses(l) ==
  /\ link[l] = "open"
  /\ link' = [link EXCEPT ![l] = "closed"]
  /\ UNCHANGED <<dbVars, linkFor, acked, req, failures, history>>

\* What Razorpay may deliver about l, once or again.
Deliverable(l, e) ==
  \/ e = "payment_link.paid" /\ link[l] = "paid"
  \/ e = "payment_link.closed" /\ link[l] = "closed"

(***************************************************************************)
(* POST /payments/webhook: PaymentsService.handleWebhook.                  *)
(***************************************************************************)
EveryEventActedOn(e) == TRUE

ActedOn(e) == e = "payment_link.paid"

CreatedIsProcessed(l) == payment[l] # "none"
NeverProcessed(l) == FALSE

AlreadyProcessed(l) == payment[l] = "paid"

\* No document for the link: 'unknown-link', answered with 200.
WebhookUnknown(r, l, e) ==
  /\ Deliverable(l, e) /\ ActedOn(e)
  /\ At(r, "idle")
  /\ payment[l] = "none"
  /\ acked' = acked \cup {l}
  /\ lost' = lost \cup {l}
  /\ UNCHANGED <<dbVars, link, linkFor, req, failures, byHand, credited>>

\* The document is 'paid' already: answered with 200 and left alone.
WebhookReplay(r, l, e) ==
  /\ Deliverable(l, e) /\ ActedOn(e)
  /\ At(r, "idle")
  /\ payment[l] # "none" /\ AlreadyProcessed(l)
  /\ acked' = acked \cup {l}
  /\ UNCHANGED <<dbVars, link, linkFor, req, failures, history>>

WebhookAccept(r, l, e) ==
  /\ Deliverable(l, e) /\ ActedOn(e)
  /\ payment[l] # "none" /\ ~AlreadyProcessed(l)
  /\ Begin(r, "hook.save", linkFor[l], l, None)
  /\ UNCHANGED <<dbVars, razorpay, failures, history>>

\* doc.save(): the document is written whatever it has become meanwhile.
WebhookSave(r) ==
  /\ At(r, "hook.save")
  /\ payment' = [payment EXCEPT ![req[r].link] = "paid"]
  /\ Goto(r, "hook.credit")
  /\ UNCHANGED <<status, remitted, plan, razorpay, failures, history>>

\* InvoicesService.markPaid or OrganizationsService.setPlan.
WebhookCredit(r) ==
  LET t == req[r].on IN
  /\ At(r, "hook.credit")
  /\ \/ t \in Invoices /\ status' = [status EXCEPT ![t] = "paid"] /\ plan' = plan
     \/ t \in Plans /\ plan' = t /\ status' = status
  /\ credited' = credited \cup {req[r].link}
  /\ Goto(r, "hook.reply")
  /\ UNCHANGED <<remitted, payment, razorpay, failures, byHand, lost>>

WebhookReply(r) ==
  /\ At(r, "hook.reply")
  /\ acked' = acked \cup {req[r].link}
  /\ End(r)
  /\ UNCHANGED <<dbVars, link, linkFor, failures, history>>

(***************************************************************************)
(* POST /remittances: RemittancesService.create.  Neither the status nor   *)
(* the type nor the amount of the invoice is looked at.                    *)
(***************************************************************************)
RemitInsert(r, i) ==
  /\ remitted' = remitted \cup {i}
  /\ Begin(r, "remit.mark", i, None, None)
  /\ UNCHANGED <<status, plan, payment, razorpay, failures, history>>

RemitMark(r) ==
  /\ At(r, "remit.mark")
  /\ status' = [status EXCEPT ![req[r].on] = "paid"]
  /\ End(r)
  /\ UNCHANGED <<remitted, plan, payment, razorpay, failures, history>>

(***************************************************************************)
(* PATCH /invoices/:id: InvoicesService.update.  The paid-is-final rule is *)
(* checked on the document read first; the write names only the id.        *)
(***************************************************************************)
UpdateRead(r, i, to) ==
  /\ to # status[i]
  /\ status[i] # "paid"
  /\ Begin(r, "update.write", i, None, to)
  /\ UNCHANGED <<dbVars, razorpay, failures, history>>

UpdateWrite(r) ==
  LET i == req[r].on IN
  /\ At(r, "update.write")
  /\ status' = [status EXCEPT ![i] = req[r].to]
  /\ byHand' = IF req[r].to = "paid" THEN byHand \cup {i} ELSE byHand
  /\ End(r)
  /\ UNCHANGED <<remitted, plan, payment, razorpay, failures, credited, lost>>

(***************************************************************************)
(* FemaReminderService.sweep, its write to the status: the unpaid exports  *)
(* are read first, markOverdue comes later and repeats the test for paid.  *)
(* Whether the realisation date has passed is left open.                   *)
(***************************************************************************)
MarkAnyOverdue(i) == TRUE

StillUnpaid(i) == status[i] # "paid"

SweepRead(r, i) ==
  /\ i \in Exports
  /\ status[i] \notin {"paid", "overdue"}
  /\ Begin(r, "sweep.mark", i, None, None)
  /\ UNCHANGED <<dbVars, razorpay, failures, history>>

SweepMark(r) ==
  LET i == req[r].on IN
  /\ At(r, "sweep.mark")
  /\ status' = IF StillUnpaid(i) THEN [status EXCEPT ![i] = "overdue"] ELSE status
  /\ End(r)
  /\ UNCHANGED <<remitted, plan, payment, razorpay, failures, history>>

(***************************************************************************)
(* A handler dies between two awaits: the process stops or a call throws.  *)
(* What it has written stays written.                                      *)
(***************************************************************************)
Fail(r) ==
  /\ ~At(r, "idle")
  /\ failures < MaxFailures
  /\ failures' = failures + 1
  /\ lost' = IF At(r, "hook.credit") THEN lost \cup {req[r].link} ELSE lost
  /\ End(r)
  /\ UNCHANGED <<dbVars, razorpay, byHand, credited>>

Progress(r) ==
  \/ LinkCheck(r)
  \/ \E l \in Links : LinkMint(r, l)
  \/ LinkRefused(r)
  \/ LinkInsert(r)
  \/ WebhookSave(r)
  \/ WebhookCredit(r)
  \/ WebhookReply(r)
  \/ RemitMark(r)
  \/ UpdateWrite(r)
  \/ SweepMark(r)

Deliver(l) ==
  \E r \in Requests, e \in Event :
    WebhookUnknown(r, l, e) \/ WebhookReplay(r, l, e) \/ WebhookAccept(r, l, e)

Arrive(r) ==
  \/ \E i \in Invoices : LinkRead(r, i) \/ RemitInsert(r, i) \/ SweepRead(r, i)
  \/ \E i \in Invoices, to \in InvoiceStatus : UpdateRead(r, i, to)
  \/ \E p \in Plans : Checkout(r, p)

Next ==
  \/ \E r \in Requests : Progress(r) \/ Arrive(r) \/ Fail(r)
  \/ \E l \in Links : CustomerPays(l) \/ LinkCloses(l) \/ Deliver(l)

Spec == Init /\ [][Next]_vars

\* A handler that is running keeps running, and Razorpay repeats a delivery
\* that has not been answered; nothing obliges a user or a customer to act.
FairSpec ==
  /\ Spec
  /\ \A r \in Requests : WF_vars(Progress(r))
  /\ \A l \in Links : SF_vars(l \notin acked /\ Deliver(l))
---------------------------------------------------------------------------
(***************************************************************************)
(* Properties.                                                             *)
(***************************************************************************)
InFlight(l) ==
  \E r \in Requests : req[r].link = l /\ req[r].pc = "hook.credit"

\* Nothing is paid out of thin air: a paid invoice has a captured link, a
\* remittance or an explicit edit behind it, the plan was captured, and a
\* payment document says 'paid' only if the customer has paid (handleWebhook,
\* RemittancesService.create, InvoicesService.update).
PaidHasEvidence ==
  /\ \A i \in Invoices : status[i] = "paid" =>
       \/ i \in byHand \cup remitted
       \/ \E l \in Links : linkFor[l] = i /\ link[l] = "paid"
  /\ plan # Free => \E l \in Links : linkFor[l] = plan /\ link[l] = "paid"
  /\ \A l \in Links : payment[l] = "paid" => link[l] = "paid"

\* Captured money is lost in two windows only: the webhook that overtakes
\* payments.create, and the handler that dies between doc.save and the write
\* of the invoice or plan (handleWebhook 120-137).  Outside them an answered
\* webhook and a 'paid' document mean credited, or about to be.
LostOnlyInWindows ==
  /\ \A l \in acked : payment[l] = "paid" \/ l \in lost
  /\ \A l \in Links : payment[l] = "paid" => l \in credited \cup lost \/ InFlight(l)

\* Once an invoice is paid and no edit that read it before is still to be
\* written, no later edit, sweep, link or webhook takes it out of 'paid'.
Settled(i) ==
  /\ status[i] = "paid"
  /\ \A r \in Requests :
       At(r, "update.write") /\ req[r].on = i => req[r].to = "paid"

SettledIsFinal == [][\A i \in Invoices : Settled(i) => Settled(i)']_vars

\* Once an invoice has an unpaid payment document and no request is between
\* the lookup of createInvoiceLink and its insert, nobody raises a second
\* link for it until the first one is paid.
OpenFor(i) == {l \in Links : linkFor[l] = i /\ payment[l] = "created"}

Covered(i) ==
  /\ OpenFor(i) # {}
  /\ \A r \in Requests :
       req[r].on = i => ~At(r, "link.mint") /\ ~At(r, "link.insert")

OneChargeAtATime ==
  [][\A i \in Invoices :
       Covered(i) /\ OpenFor(i)' # {}
         => Covered(i)' /\ OpenFor(i)' \subseteq OpenFor(i)]_vars

\* A delivery of a link whose document is 'paid' and that no handler is still
\* working on never reaches the invoice or the plan again.
Processed(l) ==
  /\ payment[l] = "paid"
  /\ \A r \in Requests :
       req[r].link = l => ~At(r, "hook.save") /\ ~At(r, "hook.credit")

ReplayIsHarmless == [][\A l \in Links : Processed(l) => Processed(l)']_vars

\* Every captured payment is credited in the end, or is one of those lost in
\* the two windows above.
CaptureSettles ==
  \A l \in Links : link[l] = "paid" ~> l \in credited \cup lost

(***************************************************************************)
(* What the repository says and the code does not do.                      *)
(***************************************************************************)

\* invoices.service.ts:160: "A settled (paid) invoice is immutable."
PaidIsImmutable ==
  [][\A i \in Invoices : status[i] = "paid" => status'[i] = "paid"]_vars

\* payments.service.ts:125: a document in 'paid' is "already processed".
PaidMeansProcessed ==
  \A l \in Links : payment[l] = "paid" => l \in credited \/ InFlight(l)
===========================================================================
