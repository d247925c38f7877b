----------------------------- MODULE EInvoicing -----------------------------
(***************************************************************************)
(* The e-invoice of one invoice: registered with the tax portal, which     *)
(* issues an invoice reference number (IRN), and cancelled there within a  *)
(* day.  The portal is told first and the document written afterwards.     *)
(* The invoice is eligible; what is registered of it is left out.          *)
(*                                                                         *)
(* AnyStatus is a fault that no action uses.                               *)
(***************************************************************************)
EXTENDS Handlers

CONSTANTS
  IRNs,          \* numbers the portal may issue
  MaxIrpCalls    \* bound: requests that are begun

ASSUME EInvoicingAssumption == None \notin IRNs /\ MaxIrpCalls \in Nat

VARIABLES
  einvoice,  \* the einvoices document of the invoice (unique index)
  aged,      \* 24 hours have passed since generatedAt
  issued,    \* at the portal: the numbers issued
  live,      \* at the portal: those that are not cancelled
  irp,       \* requests in flight
  irpCalls,  \* requests begun so far
  irpStale,  \* history: requests that hold a document another one has written
  irpRaced,  \* history: one of them has written it
  unrecorded \* history: a request that the portal had answered has died

irpVars == <<einvoice, aged, issued, live, irp, irpCalls, irpStale, irpRaced, unrecorded>>

EInvoice == [status : {"none", "generated", "cancelled"}, irn : IRNs \cup {None}]
NoEInvoice == [status |-> "none", irn |-> None]
IrpRequest == [pc : {"idle", "register", "record", "revoke", "mark"}, irn : IRNs \cup {None}]
NoCall == [pc |-> "idle", irn |-> None]

EInvoicingTypeOK ==
  /\ einvoice \in EInvoice /\ aged \in BOOLEAN
  /\ issued \subseteq IRNs /\ live \subseteq IRNs
  /\ irp \in [Requests -> IrpRequest]
  /\ irpCalls \in 0..MaxIrpCalls
  /\ irpStale \subseteq Requests /\ irpRaced \in BOOLEAN /\ unrecorded \in BOOLEAN

EInvoicingInit ==
  /\ einvoice = NoEInvoice /\ aged = FALSE
  /\ issued = {} /\ live = {}
  /\ irp = [r \in Requests |-> NoCall]
  /\ irpCalls = 0
  /\ irpStale = {} /\ irpRaced = FALSE /\ unrecorded = FALSE

Calls(r, q) ==
  /\ irp[r].pc = "idle"
  /\ irpCalls < MaxIrpCalls
  /\ irpCalls' = irpCalls + 1
  /\ irp' = [irp EXCEPT ![r] = q]
  /\ UNCHANGED <<einvoice, aged, issued, live, irpStale, irpRaced, unrecorded>>

WritesEInvoice(r) ==
  /\ irp' = [irp EXCEPT ![r] = NoCall]
  /\ irpStale' = {o \in Requests \ {r} : irp[o].pc # "idle"}
  /\ irpRaced' = (irpRaced \/ r \in irpStale)
  /\ UNCHANGED <<issued, live, irpCalls, unrecorded>>

AnyStatus(status) == TRUE
NotGenerated(status) == status # "generated"

Generate(r) ==
  /\ NotGenerated(einvoice.status)
  /\ Calls(r, [NoCall EXCEPT !.pc = "register"])

\* A portal that answers has issued a number; its failure changes nothing.
PortalRegisters(r) ==
  /\ irp[r].pc = "register"
  /\ \/ \E n \in IRNs \ issued :
          /\ issued' = issued \cup {n}
          /\ live' = live \cup {n}
          /\ irp' = [irp EXCEPT ![r] = [pc |-> "record", irn |-> n]]
          /\ irpStale' = irpStale
     \/ /\ irp' = [irp EXCEPT ![r] = NoCall]
        /\ irpStale' = irpStale \ {r}
        /\ UNCHANGED <<issued, live>>
  /\ UNCHANGED <<einvoice, aged, irpCalls, irpRaced, unrecorded>>

\* The upsert replaces the document whatever it has become.
RecordIrn(r) ==
  /\ irp[r].pc = "record"
  /\ einvoice' = [status |-> "generated", irn |-> irp[r].irn]
  /\ aged' = FALSE
  /\ WritesEInvoice(r)

CancelIrn(r) ==
  /\ einvoice.status = "generated" /\ ~aged
  /\ Calls(r, [pc |-> "revoke", irn |-> einvoice.irn])

PortalCancels(r) ==
  /\ irp[r].pc = "revoke"
  /\ \/ /\ live' = live \ {irp[r].irn}
        /\ irp' = [irp EXCEPT ![r].pc = "mark"]
        /\ irpStale' = irpStale
     \/ /\ irp' = [irp EXCEPT ![r] = NoCall]
        /\ irpStale' = irpStale \ {r}
        /\ live' = live
  /\ UNCHANGED <<einvoice, aged, issued, irpCalls, irpRaced, unrecorded>>

\* save() writes the status alone and leaves the number it finds.
KeepsReference(status) == [einvoice EXCEPT !.status = status]

MarkCancelled(r) ==
  /\ irp[r].pc = "mark"
  /\ einvoice' = KeepsReference("cancelled")
  /\ aged' = aged
  /\ WritesEInvoice(r)

WindowCloses ==
  /\ einvoice.status = "generated" /\ ~aged
  /\ aged' = TRUE
  /\ UNCHANGED <<einvoice, issued, live, irp, irpCalls, irpStale, irpRaced, unrecorded>>

IrpDies(r) ==
  /\ irp[r].pc # "idle"
  /\ unrecorded' = (unrecorded \/ irp[r].pc \in {"record", "mark"})
  /\ irp' = [irp EXCEPT ![r] = NoCall]
  /\ irpStale' = irpStale \ {r}
  /\ UNCHANGED <<einvoice, aged, issued, live, irpCalls, irpRaced>>

EInvoicingNext ==
  \/ WindowCloses
  \/ \E r \in Requests :
       \/ Generate(r) \/ PortalRegisters(r) \/ RecordIrn(r)
       \/ CancelIrn(r) \/ PortalCancels(r) \/ MarkCancelled(r)
       \/ IrpDies(r)

EInvoicingSpec == EInvoicingInit /\ [][EInvoicingNext]_irpVars
---------------------------------------------------------------------------
(***************************************************************************)
(* Property.                                                               *)
(***************************************************************************)

\* einvoicing.service.ts 58-63, 102-125, 134-153: between requests the portal
\* and the document agree on which number of the invoice is in force, if any,
\* unless a request wrote over what another one had written since it read, or
\* died between the portal's answer and its own write.
PortalAgrees ==
  ~irpRaced /\ ~unrecorded /\ (\A r \in Requests : irp[r].pc \notin {"record", "mark"}) =>
    live = IF einvoice.status = "generated" THEN {einvoice.irn} ELSE {}
===========================================================================
