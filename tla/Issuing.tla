------------------------------ MODULE Issuing ------------------------------
(***************************************************************************)
(* Issuing numbered documents: invoices, credit notes and debit notes.     *)
(*                                                                         *)
(* A create handler validates and prices the document, takes a number from *)
(* the counter of its series with one atomic $inc, inserts the document    *)
(* under that number and, for an invoice, queues the job that renders its  *)
(* PDF; a note is rendered in the handler.  There is an await between any  *)
(* two of these, so creates interleave and a create may die in between,    *)
(* or be refused by the insert.  A series is one key of invoice_counters:  *)
(* an organisation and financial year, or those and CN or DN.  A handler   *)
(* is named after the document it makes.                                   *)
(*                                                                         *)
(* The queue is BullMQ, outside the repository, used with the options of   *)
(* queue.module.ts: a job that throws is tried again, MaxAttempts times.   *)
(* What is priced and printed is left out.  NextSeq and AfterThrow each    *)
(* come after faulty variants that no action uses and that show which      *)
(* property notices the fault.                                             *)
(***************************************************************************)
EXTENDS Naturals, FiniteSets

CONSTANTS
  Docs,          \* documents clients ask for, each at most once
  InvoiceSeries, \* counter keys `${orgId}:${fy}`
  NoteSeries,    \* counter keys `${orgId}:${fy}:CN` and `:DN`
  None,
  MaxAttempts,   \* attempts of a job: 5 in queue.module.ts
  MaxFailures    \* bound: creates that may die or be refused

Series == InvoiceSeries \cup NoteSeries

ASSUME IssuingAssumption ==
  /\ IsFiniteSet(Docs)
  /\ InvoiceSeries \cap NoteSeries = {}
  /\ None \notin Series
  /\ MaxAttempts \in Nat \ {0}
  /\ MaxFailures \in Nat

VARIABLES
  seq,       \* invoice_counters.seq by counter key
  pc,        \* the create handler of a document
  series,    \* its series, None before it has one
  number,    \* the number it was given, 0 before
  saved,     \* documents in the invoices or notes collection
  job,       \* the generate-pdf job of a document
  attempts,  \* attempts made of it
  pdf,       \* documents with a pdfUrl
  deserted,  \* documents whose client has been removed
  failures   \* creates that did not get to their end

createVars == <<seq, pc, series, number, saved, failures>>
jobVars    == <<job, attempts>>
vars       == <<createVars, jobVars, pdf, deserted>>

PC == {"idle", "insert", "enqueue", "render", "done", "dead"}
JobState == {"none", "waiting", "active", "completed", "failed"}

TypeOK ==
  /\ seq \in [Series -> Nat]
  /\ pc \in [Docs -> PC]
  /\ series \in [Docs -> Series \cup {None}]
  /\ number \in [Docs -> Nat]
  /\ saved \subseteq Docs
  /\ job \in [Docs -> JobState]
  /\ attempts \in [Docs -> 0..MaxAttempts]
  /\ pdf \subseteq Docs
  /\ deserted \subseteq Docs
  /\ failures \in 0..MaxFailures

Init ==
  /\ seq = [s \in Series |-> 0]
  /\ pc = [d \in Docs |-> "idle"]
  /\ series = [d \in Docs |-> None]
  /\ number = [d \in Docs |-> 0]
  /\ saved = {}
  /\ job = [d \in Docs |-> "none"]
  /\ attempts = [d \in Docs |-> 0]
  /\ pdf = {}
  /\ deserted = {}
  /\ failures = 0

(***************************************************************************)
(* The create handlers.                                                    *)
(***************************************************************************)

\* Read, add, and write back later: a create that comes in between gets the
\* same value.
SeqIfRaced(s) ==
  IF \E d \in Docs : pc[d] = "insert" /\ series[d] = s THEN seq[s] ELSE seq[s] + 1

\* The $inc is sent again after an answer was lost.
SeqBumpedTwice(s) == seq[s] + 2

\* findByIdAndUpdate with $inc and upsert returns the new value.
NextSeq(s) == seq[s] + 1

\* InvoiceNumberService.allocate and allocateSeries.  Everything before it
\* only reads, and refuses the request if the client does not exist.
Allocate(d, s) ==
  /\ pc[d] = "idle"
  /\ d \notin deserted
  /\ seq' = [seq EXCEPT ![s] = NextSeq(s)]
  /\ series' = [series EXCEPT ![d] = s]
  /\ number' = [number EXCEPT ![d] = NextSeq(s)]
  /\ pc' = [pc EXCEPT ![d] = "insert"]
  /\ UNCHANGED <<saved, jobVars, pdf, deserted, failures>>

\* The unique index on (orgId, financialYear, number).
NumberFree(d) ==
  \A e \in saved : series[e] = series[d] => number[e] # number[d]

Insert(d) ==
  /\ pc[d] = "insert"
  /\ NumberFree(d)
  /\ saved' = saved \cup {d}
  /\ pc' = [pc EXCEPT ![d] = IF series[d] \in InvoiceSeries THEN "enqueue" ELSE "render"]
  /\ UNCHANGED <<seq, series, number, jobVars, pdf, deserted, failures>>

\* The handler dies, or the insert (a number that is taken, a document that
\* does not validate) or the queue refuses: what has been written stays, and
\* the client gets an error.
Die(d) ==
  /\ pc[d] \in {"insert", "enqueue", "render"}
  /\ failures < MaxFailures
  /\ failures' = failures + 1
  /\ pc' = [pc EXCEPT ![d] = "dead"]
  /\ UNCHANGED <<seq, series, number, saved, jobVars, pdf, deserted>>

Enqueue(d) ==
  /\ pc[d] = "enqueue"
  /\ job' = [job EXCEPT ![d] = "waiting"]
  /\ pc' = [pc EXCEPT ![d] = "done"]
  /\ UNCHANGED <<seq, series, number, saved, attempts, pdf, deserted, failures>>

\* NotesService.create renders best effort: the note stays either way.
Render(d) ==
  /\ pc[d] = "render"
  /\ pdf' \in {pdf, pdf \cup {d}}
  /\ pc' = [pc EXCEPT ![d] = "done"]
  /\ UNCHANGED <<seq, series, number, saved, jobVars, deserted, failures>>

(***************************************************************************)
(* The generate-pdf worker, and ClientsService.remove, which does not look *)
(* for invoices of the client.                                             *)
(***************************************************************************)
JobStart(d) ==
  /\ job[d] = "waiting"
  /\ job' = [job EXCEPT ![d] = "active"]
  /\ attempts' = [attempts EXCEPT ![d] = @ + 1]
  /\ UNCHANGED <<createVars, pdf, deserted>>

JobSucceeds(d) ==
  /\ job[d] = "active"
  /\ d \notin deserted
  /\ pdf' = pdf \cup {d}
  /\ job' = [job EXCEPT ![d] = "completed"]
  /\ UNCHANGED <<createVars, attempts, deserted>>

RetriedForEver(d) == "waiting"
DroppedAtOnce(d) == "completed"

AfterThrow(d) == IF attempts[d] < MaxAttempts THEN "waiting" ELSE "failed"

\* The PDF service cannot be reached, or the client is gone.
JobThrows(d) ==
  /\ job[d] = "active"
  /\ job' = [job EXCEPT ![d] = AfterThrow(d)]
  /\ UNCHANGED <<createVars, attempts, pdf, deserted>>

RemoveClient(d) ==
  /\ d \notin deserted
  /\ deserted' = deserted \cup {d}
  /\ UNCHANGED <<createVars, jobVars, pdf>>

Create(d) ==
  Insert(d) \/ Enqueue(d) \/ Render(d)

Work(d) == JobStart(d) \/ JobSucceeds(d) \/ JobThrows(d)

Next ==
  \E d \in Docs :
    \/ \E s \in Series : Allocate(d, s)
    \/ Create(d)
    \/ Die(d)
    \/ Work(d)
    \/ RemoveClient(d)

Spec == Init /\ [][Next]_vars

\* A running create and the worker keep going.
FairSpec == Spec /\ \A d \in Docs : WF_vars(Create(d)) /\ WF_vars(Work(d))
---------------------------------------------------------------------------
(***************************************************************************)
(* Properties.                                                             *)
(***************************************************************************)
In(s) == {d \in Docs : series[d] = s}

\* Two documents of a series never share a number, from the moment the
\* numbers are handed out (InvoiceNumberService.allocate): no create is ever
\* refused by the unique index.
NoDuplicates ==
  \A d, e \in Docs : d # e /\ series[d] # None /\ series[d] = series[e]
                       => number[d] # number[e]

\* Every number up to the counter is on a document, is about to be, or was
\* burnt by a create that died with it: a gap is always a death, and a series
\* has at most as many gaps as creates have died.
GapsAreDeaths ==
  \A s \in Series :
    /\ {number[d] : d \in In(s)} = 1..seq[s]
    /\ \A d \in In(s) : d \in saved \/ pc[d] = "insert" \/ pc[d] = "dead"
    /\ Cardinality(In(s) \ saved)
         <= failures + Cardinality({d \in In(s) : pc[d] = "insert"})

\* The counters implement the ledger of SeriesLedger.
Ledger == INSTANCE SeriesLedger WITH
  home <- series,
  num <- number,
  issued <- saved,
  void <- {d \in Docs \ saved : pc[d] = "dead"}

LedgerSpec == Ledger!LSpec

\* An invoice gets its PDF, or its job is seen to fail after every attempt;
\* the exception is a create that died between the insert and the queue, for
\* which no job exists and nothing in the code makes one later.
PdfSettles ==
  \A d \in Docs :
    d \in saved /\ series[d] \in InvoiceSeries
      ~> d \in pdf \/ job[d] = "failed" \/ pc[d] = "dead"

(***************************************************************************)
(* What the repository says and the code does not do.                      *)
(***************************************************************************)

\* invoice-number.service.ts:7: "Sequential, gapless": with no create under
\* way, the documents of a series carry 1, 2, ... up to the counter.
Gapless ==
  \A s \in Series :
    (\A d \in In(s) : pc[d] # "insert")
      => {number[d] : d \in In(s) \cap saved} = 1..seq[s]
===========================================================================
