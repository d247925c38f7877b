------------------------------- MODULE Pricing -------------------------------
(***************************************************************************)
(* What an invoice and a credit or debit note charge.                      *)
(*                                                                         *)
(* Amounts are kept in hundredths, as the code computes them; a line comes *)
(* with its total, since quantity and unit amount only occur multiplied.   *)
(* An export is priced in its currency and carries the rate of the day,    *)
(* captured from a cache or a web service.  One currency and day, one      *)
(* seller and one client are modelled, and at most one note for each       *)
(* invoice; numbers and PDFs are Issuing's.                                *)
(*                                                                         *)
(* HalfRoundedTwice is a fault that no action uses.                        *)
(***************************************************************************)
EXTENDS Handlers, Integers, Sequences

CONSTANTS
  States,     \* GST states
  LineItems,  \* sequences of lines that are billed
  LiveRates,  \* rates the web service may answer
  Fallback,   \* the rate when it does not
  Bills,      \* invoices that may be raised
  MaxMoves    \* bound: changes of the seller's or the client's state

VARIABLES
  seller,    \* the state of the profile's GSTIN, None without one
  client,    \* the client's type and state
  cache,     \* the rate in Redis, 0 for none
  bills,     \* the invoices
  notes,     \* the note of each invoice
  pricing,   \* requests in flight
  moves,     \* such changes so far
  relocated, \* history: bills since which the seller or the client has moved
  fxBlind    \* history: a rate was stored over, or dropped from the cache

pricingVars == <<seller, client, cache, bills, notes, pricing, moves, relocated, fxBlind>>

GstRates == {0, 5, 12, 18, 28}
Line == [cents : Nat, gstRate : GstRates \cup {None}]

ASSUME PricingAssumption ==
  /\ None \notin States \cup Bills
  /\ LineItems \subseteq Seq(Line)
  /\ LiveRates \cup {Fallback} \subseteq Nat \ {0}
  /\ MaxMoves \in Nat

Client == [type : {"foreign", "domestic"}, state : States \cup {None}]

Charge == [items : LineItems \cup {<<>>}, taxType : {"none", "LUT_ZERO", "IGST", "CGST_SGST"},
           rate : LiveRates \cup {Fallback, 0},   \* 0 for a domestic invoice
           subtotal : Nat, cgst : Nat, sgst : Nat, igst : Nat, tax : Nat, grand : Nat, inr : Nat]
NoCharge == [items |-> <<>>, taxType |-> "none", rate |-> 0, subtotal |-> 0, cgst |-> 0, sgst |-> 0,
             igst |-> 0, tax |-> 0, grand |-> 0, inr |-> 0]

PriceRequest == [pc : {"idle", "cached", "fetch", "store", "insert", "note"}, of : Bills \cup {None},
                 rate : LiveRates \cup {Fallback, 0}, charge : Charge]
NoPrice == [pc |-> "idle", of |-> None, rate |-> 0, charge |-> NoCharge]

PricingTypeOK ==
  /\ seller \in States \cup {None} /\ client \in Client
  /\ cache \in LiveRates \cup {Fallback, 0}
  /\ bills \in [Bills -> Charge] /\ notes \in [Bills -> Charge]
  /\ pricing \in [Requests -> PriceRequest]
  /\ moves \in 0..MaxMoves /\ relocated \subseteq Bills /\ fxBlind \in BOOLEAN

PricingInit ==
  /\ seller \in States \cup {None}
  /\ client \in Client /\ (client.type = "foreign" => client.state = None)
  /\ cache = 0 /\ moves = 0
  /\ bills = [b \in Bills |-> NoCharge] /\ notes = [b \in Bills |-> NoCharge]
  /\ pricing = [r \in Requests |-> NoPrice]
  /\ relocated = {} /\ fxBlind = FALSE

(***************************************************************************)
(* The arithmetic.                                                         *)
(***************************************************************************)
SumUpTo(s, n) == LET sum[i \in 0..n] == IF i = 0 THEN 0 ELSE sum[i - 1] + s[i] IN sum[n]
SumOf(s) == SumUpTo(s, Len(s))

\* Math.round of n / d, for n that is not negative.
Round(n, d) == (2 * n + d) \div (2 * d)

\* A line without a rate is stored with 0, so no default rate is ever used.
RateOf(line) == IF line.gstRate = None THEN 0 ELSE line.gstRate

Subtotal(items) == SumOf([i \in DOMAIN items |-> items[i].cents])
TaxOf(items) == SumOf([i \in DOMAIN items |-> Round(items[i].cents * RateOf(items[i]), 100)])

HalfRoundedTwice(tax) == Round(tax, 2)
\* The state's half of the tax is what the centre's leaves.
OtherHalf(tax) == tax - Round(tax, 2)

ComputeGst(items, from, to) ==
  LET sub == Subtotal(items)
      tax == TaxOf(items)
      intra == from = to
  IN [NoCharge EXCEPT !.items = items, !.taxType = IF intra THEN "CGST_SGST" ELSE "IGST",
        !.subtotal = sub, !.tax = tax, !.grand = sub + tax, !.inr = sub + tax,
        !.cgst = IF intra THEN Round(tax, 2) ELSE 0,
        !.sgst = IF intra THEN OtherHalf(tax) ELSE 0,
        !.igst = IF intra THEN 0 ELSE tax]

BuildExport(items, rate) ==
  LET sub == Subtotal(items) IN
  [NoCharge EXCEPT !.items = items, !.taxType = "LUT_ZERO", !.rate = rate,
     !.subtotal = sub, !.grand = sub, !.inr = sub * rate]

(***************************************************************************)
(* Profile and client.                                                     *)
(***************************************************************************)
Raised(b) == bills[b].taxType # "none"

PartyMoves ==
  /\ moves < MaxMoves
  /\ moves' = moves + 1
  /\ relocated' = {b \in Bills : Raised(b) \/ \E r \in Requests : pricing[r].of = b}

UpdateProfile(s) ==
  /\ seller # s
  /\ seller' = s
  /\ PartyMoves
  /\ UNCHANGED <<client, cache, bills, notes, pricing, fxBlind>>

\* normalize: a foreign client has no GST state.
UpdateClient(c) ==
  /\ client # c /\ (c.type = "foreign" => c.state = None)
  /\ client' = c
  /\ PartyMoves
  /\ UNCHANGED <<seller, cache, bills, notes, pricing, fxBlind>>

(***************************************************************************)
(* Invoices.                                                               *)
(***************************************************************************)
Unused(b) == ~Raised(b) /\ \A r \in Requests : pricing[r].of # b

Prices(r, q) == pricing[r].pc = "idle" /\ pricing' = [pricing EXCEPT ![r] = q]

BuildDomestic(r, b, items) ==
  /\ Unused(b) /\ client.type = "domestic"
  /\ seller # None /\ client.state # None
  /\ Prices(r, [NoPrice EXCEPT !.pc = "insert", !.of = b,
                               !.charge = ComputeGst(items, seller, client.state)])
  /\ UNCHANGED <<seller, client, cache, bills, notes, moves, relocated, fxBlind>>

CaptureRate(r, b, items) ==
  /\ Unused(b) /\ client.type = "foreign"
  /\ Prices(r, [NoPrice EXCEPT !.pc = IF cache = 0 THEN "fetch" ELSE "cached", !.of = b, !.rate = cache,
                               !.charge = [NoCharge EXCEPT !.items = items]])
  /\ UNCHANGED <<seller, client, cache, bills, notes, moves, relocated, fxBlind>>

\* Anything but a rate, or no answer within six seconds, makes it the fallback.
FetchLive(r, rate) ==
  /\ pricing[r].pc = "fetch"
  /\ pricing' = [pricing EXCEPT ![r].pc = "store", ![r].rate = rate]
  /\ UNCHANGED <<seller, client, cache, bills, notes, moves, relocated, fxBlind>>

\* The fallback is cached like a rate of the day.
Cached(rate) == rate

StoreRate(r) ==
  /\ pricing[r].pc = "store"
  /\ cache' = Cached(pricing[r].rate)
  /\ fxBlind' = (fxBlind \/ cache # 0)
  /\ pricing' = [pricing EXCEPT ![r].pc = "cached"]
  /\ UNCHANGED <<seller, client, bills, notes, moves, relocated>>

Quote(r) ==
  /\ pricing[r].pc = "cached"
  /\ pricing' = [pricing EXCEPT ![r].pc = "insert",
                                ![r].charge = BuildExport(pricing[r].charge.items, pricing[r].rate)]
  /\ UNCHANGED <<seller, client, cache, bills, notes, moves, relocated, fxBlind>>

\* Twelve hours pass.
RateExpires ==
  /\ cache # 0
  /\ cache' = 0
  /\ fxBlind' = TRUE
  /\ UNCHANGED <<seller, client, bills, notes, pricing, moves, relocated>>

InsertBill(r) ==
  /\ pricing[r].pc = "insert"
  /\ bills' = [bills EXCEPT ![pricing[r].of] = pricing[r].charge]
  /\ pricing' = [pricing EXCEPT ![r] = NoPrice]
  /\ UNCHANGED <<seller, client, cache, notes, moves, relocated, fxBlind>>

(***************************************************************************)
(* Notes.                                                                  *)
(***************************************************************************)

\* The type and the rate are the invoice's; the states are those of today, and
\* a seller without a GSTIN counts as in the client's.
Mirror(b, items) ==
  IF bills[b].taxType = "LUT_ZERO"
  THEN [BuildExport(items, bills[b].rate) EXCEPT !.inr = 0]
  ELSE [ComputeGst(items, IF seller = None THEN client.state ELSE seller, client.state) EXCEPT !.inr = 0]

CreateNote(r, b, items) ==
  /\ Raised(b) /\ notes[b] = NoCharge
  /\ Prices(r, [NoPrice EXCEPT !.pc = "note", !.of = b, !.charge = Mirror(b, items)])
  /\ UNCHANGED <<seller, client, cache, bills, notes, moves, relocated, fxBlind>>

InsertNote(r) ==
  /\ pricing[r].pc = "note"
  /\ notes' = [notes EXCEPT ![pricing[r].of] = pricing[r].charge]
  /\ pricing' = [pricing EXCEPT ![r] = NoPrice]
  /\ UNCHANGED <<seller, client, cache, bills, moves, relocated, fxBlind>>

PricingNext ==
  \/ \E s \in States \cup {None} : UpdateProfile(s)
  \/ \E c \in Client : UpdateClient(c)
  \/ RateExpires
  \/ \E r \in Requests :
       \/ \E b \in Bills, items \in LineItems :
            BuildDomestic(r, b, items) \/ CaptureRate(r, b, items) \/ CreateNote(r, b, items)
       \/ \E rate \in LiveRates \cup {Fallback} : FetchLive(r, rate)
       \/ StoreRate(r) \/ Quote(r) \/ InsertBill(r) \/ InsertNote(r)

PricingSpec == PricingInit /\ [][PricingNext]_pricingVars
---------------------------------------------------------------------------
(***************************************************************************)
(* Properties.                                                             *)
(***************************************************************************)
Gap(a, b) == IF a < b THEN b - a ELSE a - b

\* The exact tax, in hundredths of a hundredth.
ExactTax(items) == SumOf([i \in DOMAIN items |-> items[i].cents * RateOf(items[i])])

Consistent(c) ==
  /\ c.subtotal = Subtotal(c.items)
  /\ c.tax = c.cgst + c.sgst + c.igst
  /\ c.grand = c.subtotal + c.tax
  /\ Gap(c.cgst, c.sgst) <= 1
  /\ IF c.taxType = "LUT_ZERO" THEN c.tax = 0
     ELSE Gap(100 * c.tax, ExactTax(c.items)) <= 50 * Len(c.items)

\* gst.ts 25-54, invoices.service.ts 42-55, 78-135: the parts of an invoice or
\* note add up, the two halves of its tax differ by no more than a paisa, and the
\* tax is within half a paisa a line of the exact one; a note in full cancels its
\* invoice, part by part, unless the seller or the client has moved since; and
\* the exports of a day have one rate, unless it was lost or fetched twice.
AmountsAgree ==
  /\ \A b \in Bills : Raised(b) => Consistent(bills[b])
  /\ \A b \in Bills : notes[b] # NoCharge =>
       /\ Consistent(notes[b])
       /\ notes[b].items = bills[b].items /\ b \notin relocated =>
            notes[b] = [bills[b] EXCEPT !.inr = 0]
  /\ \A a, b \in Bills : bills[a].rate > 0 /\ bills[b].rate > 0 /\ ~fxBlind =>
       bills[a].rate = bills[b].rate

\* note.schema.ts 23: "Tax treatment mirrors the original invoice."
NoteMirrorsInvoice ==
  \A b \in Bills : notes[b] # NoCharge => notes[b].taxType = bills[b].taxType
===========================================================================
