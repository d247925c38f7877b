# Crossbill backend: TLA+ models, model checking and proofs

Crossbill (`src/api`, NestJS over MongoDB and Redis; `src/pdf-service`, FastAPI)
issues GST invoices for exporters, collects payments, and watches FEMA deadlines.
It also keeps a small HR office: employees, attendance, payroll and letters.
The modules here model the parts in which several handlers, jobs and outside
services touch the same documents, check them with TLC, and prove the main
safety properties, all that the runs check, with TLAPS for every number of
invoices, links, requests, days, lines and amounts.

Source paths below are relative to `src/api/src/modules/` unless they begin
with `src/`.

## 1. The system

### How it runs

One Node process (or several) serves HTTP and also runs the BullMQ workers. A
handler is an `async` function: between two `await`s it runs alone, at each
`await` any other handler may run. There are no MongoDB transactions. Documents
are saved without a version key (`src/api/src/common/db/schema-options.ts`), so
`doc.save()` does not notice that the document has changed since it was read.
Jobs are tried 5 times (`src/api/src/queue/queue.module.ts:21-26`). This makes
the behaviours below the hard ones: a check made before an `await` and acted on
after it; a death between two writes that belong together; a webhook or a sweep
that comes twice, early or at the same time as another; a document saved field
by field over what another handler has made of it.

### Components

| component | state | operations | talks to | what makes it correct | status |
|---|---|---|---|---|---|
| Invoices | `invoices` | create, update, markPaid, markOverdue, pushReminderSent | numbering, clients, FX, PDF queue | paid is backed and final; one number each; the amounts add up | modelled |
| Numbering | `invoice_counters` | allocate, allocateSeries (atomic `$inc`) | | unique, no gap without a cause | modelled |
| Notes | `notes` | create | invoices, numbering, PDF client | as invoices, own series; taxed as its invoice | modelled |
| Exchange rates | Redis cache | capture | frankfurter.app | one rate a day | modelled |
| Payments, webhook | `payments` | createInvoiceLink, createSubscriptionLink, handleWebhook | Razorpay, invoices, organizations | captured money is credited once; one open link | modelled |
| Billing | `organizations.plan` | checkout | payments | a plan is paid for | modelled |
| Organizations | `organizations` | createForOwner, setOwner, setPlan, profile, verification, geofences | users | every organisation has its owner | registration and plan |
| Remittances, FIRC | `remittances`, files, `document_meta` | create, attachFirc, collectFircForInvoices | invoices, storage | the link, the file and its metadata agree | modelled |
| FEMA reminders | `invoices.femaRemindersSent`, status | sweep (worker and manual) | invoices, email queue | never lost, at most once, none after payment | modelled |
| PDF queue and worker | BullMQ job, `invoices.pdfUrl` | process | pdf-service | rendered, or seen to fail | modelled |
| Auth | `refresh_tokens` | register, login, Google login, refresh, logout | users, orgs | one live token in a family | modelled |
| Users, clients | one document each | create, linkGoogle, updateProfile; create, update, remove | | | users; clients' update and remove |
| Agreements | `agreements` | send, view, OTP, sign, decline, dates, obligations, reminders | PDF, email | signed is final; each reminder once | modelled |
| Agreement templates | `agreement_templates` | create, remove, bulkSend | agreements | | not modelled |
| Aadhaar | `aadhaar_verifications` | initiate, verify | provider | attempts are counted | modelled |
| Payroll | `salary_slips`, `payroll_runs` | slips, run, finalise | PDF | finalised is final; the figures agree | modelled |
| Attendance, leave | `attendance`, `leaves` | checkIn, checkOut, requestLeave, decideLeave | employees | a leave is marked; leaves do not overlap | modelled |
| Employees, lifecycle | `employees`, `onboardings`, `exits` | transitions, checklist, exit and its settlement | each other | the statuses agree; closed stays closed | modelled |
| E-invoicing | `einvoices` | generate, cancel | tax portal | portal and document agree | modelled |
| Letters | `hr_letters` | create, get, setStatus, remove | PDF | in order, rendered before it is sent | modelled |
| Notifications | email queue | sendEmail, worker | provider | | the moment a mail is queued |
| Reports | none | buildBundle, GSTR export | invoices, FIRC files | the bundle misses no FIRC | that read |
| PDF service (Python) | files | render | storage | | may fail, or write and not be heard |
| Consents, audit | append-only | log | | no guard reads them | not modelled |
| Guards, config, health | none | | | stateless | not modelled |

### Where the components meet

Six handlers write `invoices.status`: the webhook and remittances through
`markPaid` (unconditional), `update` (checks a document it read before),
`markOverdue` (checks in the write itself), and two sweeps; the payment link
only reads it. All creates share the counters. The sweep and the payment
handlers share the invoice. An onboarding and an exit each tell the employee's
document what to become and swallow its refusal. Registration writes an
organisation and a user in three steps. A bundle for the accountant reads a
file that an upload may just have removed. Issuing an invoice ends in a job whose worker reads
the client, which `ClientsService.remove` may have deleted.

## 2. The modules

| module | models | checked by | proved in |
|---|---|---|---|
| `Settlement` | every writer of an invoice's status and of a plan, with Razorpay | `MCSettlement` and its four configurations | `SettlementProofs` |
| `SeriesLedger` | abstract: a series gives each document the least free number, then issues or voids it | through `Issuing` | |
| `Issuing` | invoice and note creates, counters, PDF jobs, client removal | `MCIssuing` and its two configurations | `IssuingProofs` |
| `FemaSweep` | the FEMA sweep inside, with time, payments and edits | `MCFemaSweep` and its two configurations | `FemaProofs` |
| `ESign` | the signature of an agreement: send, view, Aadhaar gate, OTP, sign, decline | `MCESign` and its two configurations | `ESignProofs` |
| `Handlers` | what the handlers below share | through `Office` | |
| `Employment`, `Attendance` | employees with onboarding and exit; check-ins and leave | through `Office` | `StaffProofs` |
| `Payroll`, `HrLetters` | slips and runs; letters | through `Office` | `HrProofs` |
| `Sessions`, `AadhaarGate` | registration and refresh tokens; the attempts of a verification | through `Office` | `BackOfficeProofs` |
| `EInvoicing` | generate and cancel against the portal | through `Office` | `BackOfficeProofs` |
| `FircFiles` | FIRC uploads and the bundle | through `Office` | `BackOfficeProofs` |
| `Contracts`, `Pricing` | dates, obligations and reminders of a contract; amounts and rates | through `Office` | `OfficeProofs` |
| `Office` | the ten parts above side by side | `MCOffice`, `MCOffice.cfg`, `MCOfficeNotes.cfg` | `OfficeProofs` |

**Settlement.** `status`, `remitted`, `plan`, `payment` are the database; `link`,
`linkFor`, `acked` are Razorpay; `req` holds one record per request in flight:
where it is (`pc`) and the locals it still uses (`on`, `link`, `to`). An action
is the code from one await to the next that touches shared state:
`createInvoiceLink` is LinkRead, LinkCheck, LinkMint or LinkRefused, LinkInsert;
`createSubscriptionLink` is Checkout and then the same; `handleWebhook` is
WebhookUnknown, WebhookReplay or WebhookAccept, then WebhookSave, WebhookCredit,
WebhookReply; `RemittancesService.create` is RemitInsert, RemitMark;
`InvoicesService.update` is UpdateRead, UpdateWrite; one step of the sweep is
SweepRead, SweepMark. `Fail` is a death at any await, and covers an exception
that a database call throws. A request that is refused without a write is not
a step. `byHand`, `credited`, `lost` are history variables; no guard reads them.

**Issuing.** A create is named after its document. Allocate is everything up to
the `$inc` (what comes before only reads); Insert, Enqueue and Render are the
writes; Die is a death or a refusal at any await after the `$inc`. JobStart,
JobSucceeds and JobThrows are the worker under BullMQ's attempts. RemoveClient
is enabled at any time, since `ClientsService.remove` looks at no invoice. The
date of the document decides the financial year and hence the series, so
Allocate may choose any.

**FemaSweep.** Start takes the snapshot of `findAllUnpaid`, kept in the sweep's
record; Look is the loop body up to the mail; Mail and Push are the calls that
follow it, Push once per key. A sweep may visit the documents in any order. The
owner's email is a constant (`Reachable`): the cache of it is recomputed from
the same documents. An age counts the thresholds reached, which abstracts
`monthsElapsed` and `daysToDue`; the date arithmetic itself is left out. Settlement and FemaSweep see one status each at the detail they need:
Settlement keeps the sweep's two steps on one invoice, FemaSweep keeps payments
and edits as the environment of the sweep.

**ESign.** One agreement, `doc`, reduced to the fields that a guard or a
property reads. A handler is a step that reads, tests and assigns (Send, View,
Verify, ResendOtp, Sign, Decline: it keeps the assigned document in `new` and
the names of the changed fields in `writes`) and Save, which writes those fields
over whatever the document has become, as Mongoose does without a version key.
Sign has two more steps, Render and Attach, its second save. A link stands for
the signer it was sent to and for the OTPs mailed with it. `stale`, `raced`,
`used`, `reused` and `proven` are history: a request is stale once another has
saved after it read, and `raced` says that a stale one has saved.

**The office: ten parts.** Ten modules model the HR side and the back office,
each the handlers of one part over its documents. They share `Handlers`: the
requests in flight, and what `doc.save()` makes of a field that has changed
since it was read (`Saved`, `SavedSet`). In each of them a request's record
holds its `pc` and what it read and assigned (`old`, `new`); a request counts as
begun up to a bound; a request may die at any await.

| module | its documents | its steps |
|---|---|---|
| `Employment` | `emp`, `board`, `exits` | UpdateEmployee and RemoveEmployee test the status, WriteEmployee and DeleteEmployee write by id; ToggleChecklist and SaveChecklist; CreateExit and FileExit; UpdateExit and SaveExit. Ask is `EmployeesService.update` called from another handler: it goes on to WriteEmployee or is refused and swallowed |
| `Attendance` | `sheet`, `leave` | CheckIn/WriteIn, CheckOut/WriteOut, RequestLeave/InsertLeave, DecideLeave/SaveDecision, then MarkDay for each day; Midnight and LeavesService (the exit of the employee) come at any time |
| `Payroll` | `slip`, `file`, `run` | CreateSlip, UpdateSlip/SaveSlip, GetSlip, then Render and Attach; RemoveSlip/DeleteSlip; RunPayroll, Aggregate, PutRun; FinaliseRun, LockRun, LockSlips |
| `HrLetters` | `letter` | CreateLetter and GetLetter, RenderLetter, AttachLetter; SetStatus, SaveStatus; RemoveLetter |
| `Sessions` | `orgs`, `account`, `tokens` | Register, Login, LoginWithGoogle, then CreateForOwner, CreateUser, SetOwner, MarkEmailVerified, LinkGoogle; Refresh, then Rotate or RevokeFamily; SignRefresh, InsertToken; Logout |
| `EInvoicing` | `einvoice`, and the portal's `issued` and `live` | generate and cancel: the test, the portal's answer, the write |
| `AadhaarGate` | `verification`, and `pending` at the provider | Initiate, CreateVerification; Verify, ProviderVerifies, SaveVerification |
| `Contracts` | `left` (days to each date), `sent`, `duties` | the sweep mails one threshold after another and saves the keys once; a change of the dates; an obligation is toggled by the position that was read, so a removal in between makes the toggle hit its neighbour, or add a member without a title |
| `FircFiles` | `key`, `files`, `metas` | AttachFirc, RemoveOld, WriteFile, LinkFile and the metadata; CollectFirc is the bundle's read of the key, BuildBundle that of the file |
| `Pricing` | `bills`, `notes`, `cache` | the tax of each line, the halves of CGST and SGST, the rate from the cache, the service or the fallback; a note copied from an invoice and taxed anew |

`Office` puts them side by side. None of the ten reads what another writes
(where one needs something of another, that is in its module), so two of them
cannot disturb each other: a behaviour of `Office` picks one (`desk`) and leaves
the others at their start, which gives every behaviour of each and none twice.
`Contracts` comes after `ESign` in an agreement's life, `Pricing` gives the
amounts to what `Issuing` numbers.

Races are recorded, not excluded: a request is stale (`hrStale`, `irpStale`,
`fircStale` and so on) once another one has written what it read, and a flag
(`hrRaced`, `irpRaced`, ...) or a set (`payRaced`, `rivals`) says where a stale
one went on to write. `hrDied`, `authDied`, `payDied`, `unmarked`, `unrecorded`,
`unsaved`, `mailLost` and `cut` record a death inside the window that matters.
No guard reads any of them.

A few guards and helpers come in two versions, the second being what the code
does and the first a plausible mistake. No action uses the mistaken one; each
shows that a property notices it.

## 3. What the runs show

| run | bounds | shows |
|---|---|---|
| `settlement_safety` | 1 export invoice, 1 plan, 2 links, 2 requests, 1 death; symmetric in links and requests | TypeOK, PaidHasEvidence, LostOnlyInWindows, SettledIsFinal, OneChargeAtATime, ReplayIsHarmless |
| `settlement_live` | 1 link, 2 requests, 1 death, no symmetry | CaptureSettles |
| `issuing` | 3 documents, an invoice and a note series, 2 attempts, 2 failures | TypeOK, NoDuplicates, GapsAreDeaths, LedgerSpec (refinement), PdfSettles |
| `fema` | 1 invoice, 2 sweepers, 2 thresholds, 1 failure, 1 edit in flight | TypeOK, SentMeansMailed, RepeatsHaveACause, NoReminderAfterPayment, ReminderArrives |
| `esign` | 1 agreement, 2 links, 2 requests, 1 death; symmetric in links and requests | TypeOK, SignedHasEvidence, SignedAsSent, OpenLinkWorks, SignedIsFinal |
| `office` | 2 requests; see below | OfficeTypeOK and the 17 properties below |

| property of `office` | what it says | but for |
|---|---|---|
| RecordsAgree | a checklist is complete when its items are; one open exit; a settled exit has an amount | a save over another one's change |
| EmployeeFollows | the employee leaves onboarding with the checklist and exits with the settlement | that, a death before the employee was told, an exit settled while onboarding |
| ClosedStaysClosed | exited and settled are final | requests that read before and still write |
| LeaveIsMarked | each day of an approved leave is marked, however often it was decided | a check-in on the day, a death half-way |
| MarkHasLeave | a mark stands for an approved leave | a leave decided twice |
| LeavesDisjoint | leaves do not overlap | two requested at a time, one decided twice |
| FiguresAgree | net, PDF and slip agree; a run has the totals of its slips | a save or rendering over another one's; a slip changed after the sum |
| FinalisedStays | a finalised slip or run keeps its figures | requests that read before and still write |
| FinaliseCovers | a finalised run has no open slip | slips inserted later, a death between its two writes |
| LettersInOrder | a letter is rendered before it is sent; closed is final | a change still to be saved; removal |
| FamilyRotates | one working token in a family; a burnt family stays dead | two refreshes past the test at a time |
| AccountOwned | every organisation is owned by the account | the loser of a double registration, a death |
| PortalAgrees | the portal's live number is the document's | a write over another one's, a death with the portal's answer |
| AttemptsCounted | one confirmed guess; the attempts are those answered | a save over another one's, a death with the answer |
| RemindedOnce | each threshold that was met is mailed once and remembered | overlapping sweeps, a change of dates in between, a death before the save |
| FircKept | link, file, metadata and bundle agree | overlapping uploads, one cut short |
| AmountsAgree | the parts add up; the tax is within half a paisa a line; a full note cancels its invoice; a day has one rate | the seller or client moved; a rate stored twice or lost from the cache |

Each exception is there because the code has it: without it TLC finds the
property violated by a run that ends in that window. They are the answer to what
an operator has to look for after two handlers met or a process died.

The bounds of `office`, set in `MCOffice.cfg`: Requests 2, and requests begun at
most 4 in Employment (MaxHrCalls), Attendance (MaxDayCalls), Payroll
(MaxPayCalls), Sessions (MaxAuthCalls) and FircFiles (MaxUploads), 5 in
EInvoicing (MaxIrpCalls), 6 in AadhaarGate (MaxGuesses, one more than the
code's MaxAttempts of 5), 3 in Contracts (MaxContractCalls). Two items of a checklist, one
of the marks an exit's clearance asks for (the others behave alike) and two
exits; two days and two leaves; one employee with amounts 0 and 1 (a slip shares
nothing with another but the run, whose sums are kept by employee); two
organisations, two token families, two seconds (a token is a string that depends
on its second); three IRNs; the code's three thresholds of a contract and two
obligations; two file names; two states, two bills, one move, a live rate and a
fallback that differ, and lines whose tax is odd, is rounded up, or has no rate
given. Symmetric in requests and bills. Four requests, two at a time, are two
that raced and two that come after them to see what they left.

Why the bounds are enough for what they look for: every race in this code is
between two handlers over one document, so two requests (two sweeps, three
creates in two series) show each of them; two links let an invoice and a plan,
or one invoice twice, be charged; one death puts a crash at every await, and
two let both creates of a series die. Two thresholds are the least for which
the highest and the lowest differ; four (the code's) add nothing to compare. Two
links are the least for which a request may hold one that is no longer open.
Every safety property that a run checks is also proved without bounds
(section 4). CHECK_DEADLOCK is off for `issuing`,
where the system stops when all documents are made, for the two runs of
`ESign`, where it stops when the agreement is signed, and for the two of
`Office`, where it stops when the requests are used up.

Six runs expect a violation; each checks one sentence of the repository.

| run | sentence | what happens |
|---|---|---|
| `settlement_paid_final` | "A settled (paid) invoice is immutable." (`invoices/invoices.service.ts:160`) | `update` reads unpaid, a remittance marks paid, `update` writes its status by id (line 169). |
| `settlement_processed` | "already processed" (`payments/payments.service.ts:125`) | the handler dies after `doc.save()` (line 130); the invoice is never marked and every retry answers idempotent. |
| `issuing_gapless` | "Sequential, gapless invoice numbering" (`invoices/services/invoice-number.service.ts:7`) | a create dies after the counter moved (line 61 of the invoices service). |
| `fema_at_most_once` | "each at most once (idempotent via femaRemindersSent)" (`reminders/fema-reminder.service.ts:11`) | a manual sweep overlaps the worker's; both mail before either records. |
| `esign_single_use` | "single-use: invalidate the link" (`agreements/agreements.service.ts:212`) | two sign requests find the link open; both save, the second over the first's signature and code. |
| `office_note_mirror` | "Tax treatment mirrors the original invoice." (`notes/note.schema.ts:23`) | a note is taxed by the seller's and client's states of today (`notes/notes.service.ts:56`): after either has moved, a CGST/SGST invoice has an IGST note. |

The passing properties of the first four modules say what does hold around the
first five: money is lost only
in the two windows of the webhook, a paid invoice stays paid unless an edit read
it before, a gap is always a death, a repeated reminder always has an overlap or
a failure behind it, and a signed agreement always
carries a signature and keeps it once no older request is still to save.

### Fairness

- Settlement: weak fairness of each running handler (the event loop and the
  awaited services return), and strong fairness of the delivery of a webhook
  that was not answered with 200, because a delivery needs a free request slot
  and Razorpay repeats. Nobody has to start a request or to pay.
- Issuing: weak fairness of a create under way and of the worker. Deaths are
  bounded by `MaxFailures`; no one has to create or remove anything.
- FemaSweep: weak fairness of the worker's Start (the cron of
  `reminders.scheduler.ts:19`) and of a sweep under way. The manual sweep,
  payments and edits are never obliged to happen.
- ESign and Office: none. Their handlers run because a person calls them, and
  what is asked of them is safety.

## 4. What is proved

`tlapm` checks every leaf of the proof modules. Every invariant and every action
property of the passing runs is a theorem, and so is the refinement; only the
liveness properties are not. Each inductive invariant below was checked by TLC on the
bounds of section 3 before it was proved.

The assumptions are those on the constants, one ASSUME in each module that
declares them. They say that ids of different kinds are apart and that `None` is no
id (of a request, an organisation, a family, an IRN, a file name, a bill); that
`Docs` and `Employees` are finite; that the bounds are numbers, of which
LastDay and LastSecond are at least 1, since there is a first day and a first
second; that a verification fails after at least one attempt; and that
what is billed is a list of lines. TLC evaluates them in every run.

**SettlementProofs.** The properties are not inductive alone: what a handler
will write depends on what it holds. The invariant `IInv` adds to them what each
`pc` guarantees of the record (HandlerInv: a request that holds a link holds one
that Razorpay opened for its target), that a link is inserted by one request at
most (OneInserter) and that a document exists only for an opened link (LinkInv).
From it: PaidHasEvidence and LostOnlyInWindows as invariants, and
ReplayIsHarmless, SettledIsFinal and OneChargeAtATime as action properties.

**IssuingProofs.** `IInv` ties the program counter to what has been written
(StageInv, JobInv), bounds the numbers of a series by its counter and shows each
number up to it given out (SeqInv), and counts the deaths (BurntInv). From it
NoDuplicates, GapsAreDeaths and, step by step, that Issuing implements
SeriesLedger: Allocate is Reserve, since the next number is the least that is
not taken, Insert is Issue, Die before the insert is Void, all else stutters.

**FemaProofs.** SentMeansMailed needs that a sweep which is pushing keys has
mailed a key at least as high as each of them (HandInv). RepeatsHaveACause needs,
as long as nothing has failed or overlapped (CauseInv), that one sweep runs at
most (Alone), that what it has read of the invoices still before it is true
(FreshInv), and that a mailed key is recorded or about to be (MailedInv). Edits
and payments disturb none of these. NoReminderAfterPayment follows from the
types alone, one action at a time (RestStep).

**ESignProofs.** HandInv says what a request that waits to save holds: only
`sign` writes a signature, and it alone may write 'signed'. SignedHasEvidence and
SignedIsFinal need no more, so they hold through every race. SignedAsSent and
OpenLinkWorks need, as long as no stale request has saved (CleanInv), that the
document is one that requests taken one after the other leave (Orderly) and that
what a request which is not stale has read is still true (Current), so that its
save writes exactly what it computed. Attach, a save that makes nobody stale,
comes while the agreement is signed, when no such request exists.

The theorems about the parts of the office are about the specification of each
part alone (`PayrollSpec` and so on), for any set of requests.

**OfficeProofs, the whole.** PartsRun proves that a behaviour of `Office` is a
behaviour of each of the ten parts. With it every theorem about a part is one
about the specification that `office` runs: OfficeTypes (OfficeTypeOK),
OfficeAgrees (its thirteen other invariants at once) and OfficeNeverUndoes (its
four action properties).

**HrProofs.** For letters, ShownInv: a status that waits to be saved was allowed
by a letter that existed, and 'sent' and what follows it by a rendered one. For
payroll, the types with HeldInv (which slip a request holds, and that the one
which finalises them all holds none) make FinaliseCovers inductive; from the
types FinalisedStays follows, one action at a time. FiguresAgree needs more,
because what is saved was computed long before: FiguresRead says that a request
which nobody overtook holds the slip's amounts as they are (and, once it has
rendered, that the file shows them), EditSound that the net it will save is that
of the amounts it will save, SumsAgree that totals on their way to the run are
those of the slips unless one has moved since.

**StaffProofs.** Attendance: DayInv says what a request in flight may rely on (a
leave that is asked for overlaps none it has seen in force, what is marked was
approved and covers the day), MarkingInv that each day of an approved leave is
marked, was worked, or lies before a request that is marking. With them
LeaveIsMarked, MarkHasLeave and LeavesDisjoint are inductive together.
Employment: the types carry Sound, what a request may hold at each `pc`. While
nothing has raced, a request that is not stale has read what is there
(ReadingHolds), so that RecordsAgree survives each save. EmployeeFollows
speaks of moments of rest; ActiveFollows and SettledTold say for all others who
is on the way to tell the employee, or that it was told or refused.
ClosedStaysClosed needs the types alone and holds through every race.

**BackOfficeProofs: AadhaarGate.** AttemptsCounted speaks of moments when no
guess waits to be saved. AadhaarCountInv adds the case that one waits alone and
was not overtaken: then what it will save counts the answers; when two wait, or
an overtaken one, a race or a loss is certain. GuessInv says what a request
knows, ConfirmInv that a used password confirms nothing more, UnbornInv and
AadhaarSendInv how a verification begins. For the bounds in the types, AskInv
counts: those answered and those who still ask are no more than were begun.

**BackOfficeProofs: Sessions.** AccountOwned needs that two registrations never
share an organisation, and that one which has created the user shares it with
the account (RegisterInv). FamilyRotates needs RotationInv: as long as no two
requests passed the test together, a token that works is the last of its family,
one request at most is past the test, it holds that last token until it has
revoked it, and from then on none works until the next is inserted. That a dead
family stays dead holds through every race (DeadStays). TokenCountInv, a
counting argument over the requests under way, bounds the tokens of a family.

**BackOfficeProofs: EInvoicing.** PortalAgrees looks at the moments when nobody
writes; its invariant covers all others. While nothing has raced or been lost, a
request that is not stale knows the document as it is (IrpViewInv), a number the
portal has just issued is nobody else's (IrpFreshInv, IrpIssuedInv), and the live
numbers are the document's and those that such a request is about to record,
less the one it is about to mark (IrpLiveInv).

**BackOfficeProofs: FircFiles.** FircShapeInv gives each step what it needs to
hold. As long as nothing raced or was cut short, a request nobody has overtaken
knows the key and the directory (FircViewInv), at most one of them is at work
between removing the old file and linking the new one (FircAloneInv), the
directory at rest is the linked file (FircRestInv) and the metadata is written
or about to be (FircMetaInv).

**OfficeProofs: Contracts and Pricing.** RemindedOnce needs that the mails sent
are the keys recorded and those a sweep holds to record (OnceInv), that whoever
has mailed has made all others out of date (MailerInv), that a sweep which is up
to date has yet to mail only what was not mailed (FreshInv), and that what a
finished sweep met is among the mails (SweptInv). AmountsAgree is
mostly arithmetic over lists of any length: a charge is summed line by line. The library states induction for operators, which the provers here cannot
instantiate; NatSetInduction states it for a set instead (a set of numbers with
0 and every successor has them all), proved from the well-foundedness of finite
sets. PartialSums and SumGap follow by it, ItemSums and GstCharge say that the rounding
of each line is within half a paisa and the halves within one, and the
invariant carries what a handler has computed to the write (BillInv, NoteInv,
RateInv).

**Only model-checked.** CaptureSettles, PdfSettles and ReminderArrives, being
liveness under fairness, which TLAPS cannot prove here; and the six violations,
which are counterexamples. NatSetInduction needs no operator parameter, so sums
written as recursive functions are within reach; nothing else here computes by
recursion.

## 5. What is not modelled, and the plan

Wording, printing and rendering are data no property here tells apart. The
parts that keep no state another step depends on are left out: consents (insert,
withdraw once), the audit log (append-only), guards, filters, configuration,
health, and the inside of the Python service. Templates are single writes, and
`bulkSend` calls what ESign models once for each recipient. Of organisations,
the profile, its verification and the geofences are single writes that no other
handler reads back, but for the one read of the geofences in `sign`. The GSTR
export copies amounts into another layout. The delivery of a queued mail changes
nothing in the API. The calendar (financial years, months to a FEMA date on the
29th of February) and the number format, whose order as text fails past 9999,
are listed among the hazards without a property: no write depends on them.

What is left, in this order:

1. A second abstract specification to refine: what a client of the refresh
   tokens, or of the reminders, may rely on.
2. The calendar as a pure algorithm against a reference definition: the
   financial year, months elapsed and days to a due date.
3. The verification of a company and the steps of its setup.
4. The email worker with the queue's attempts, should the API come to read what
   became of a mail.
