------------------------------- MODULE ESign -------------------------------
(***************************************************************************)
(* The electronic signature of an agreement.                               *)
(*                                                                         *)
(* Every handler of AgreementsService reads the document, tests what it    *)
(* has read, assigns to some of its fields and calls doc.save() after      *)
(* other awaits (the OTP email, the Aadhaar provider, the geofences).      *)
(* Mongoose then writes the fields whose value differs from the one that   *)
(* was read, and no others; documents have no version key, so it does so   *)
(* whatever the document has become.  A request here is therefore two      *)
(* steps: one that reads and computes the fields to write, and Save.       *)
(*                                                                         *)
(* One agreement is modelled.  A signing link stands for the person it was *)
(* sent to and for every OTP mailed with it; an OTP hash is bound to its   *)
(* link, so only the link it belongs to is kept.  A wrong or late OTP, an  *)
(* unknown link and a wrong Aadhaar OTP change nothing and are no step.    *)
(*                                                                         *)
(* Status, AfterSend, AfterSign and Written come after faulty variants     *)
(* that no action uses and that show which property notices the fault.     *)
(***************************************************************************)
EXTENDS Naturals, FiniteSets

CONSTANTS
  Tokens,          \* signing links send may draw
  Requests,        \* requests in flight at one time
  None,
  MaxFailures      \* bound: requests that may die

ASSUME ESignAssumption ==
  /\ None \notin Tokens
  /\ MaxFailures \in Nat

VARIABLES
  doc,      \* the agreement
  req,      \* the requests in flight
  issued,   \* links drawn so far
  failures, \* requests that died
  stale,    \* history: requests that read before another one saved
  raced,    \* history: one of those has saved
  used,     \* history: links a signature was saved for
  reused,   \* history: links a second one was saved for
  proven    \* history: links through which Aadhaar was verified

history == <<stale, raced, used, reused, proven>>
vars    == <<doc, req, issued, failures, history>>

Link == Tokens \cup {None}

StatusWithoutDeclined == {"draft", "sent", "viewed", "signed"}
Status == {"draft", "sent", "viewed", "signed", "declined"}

Agreement == [status          : Status,
              signToken       : Link,    \* the link that is open
              signer          : Link,    \* signerName and signerEmail
              otpRequired     : BOOLEAN, \* emailConfigured when it was sent
              otpHash         : Link,    \* the link the OTP was mailed with
              aadhaarRequired : BOOLEAN,
              aadhaarVerified : BOOLEAN,
              signature       : Link,    \* signatureImage, signedAt, verifyCode
              signedPdfUrl    : Link]    \* the signature that was rendered

Fields == {"status", "signToken", "signer", "otpRequired", "otpHash",
           "aadhaarRequired", "aadhaarVerified", "signature", "signedPdfUrl"}

Op == {"send", "view", "verify", "resend", "sign", "decline"}

Request == [pc     : {"idle", "save", "render", "attach"},
            op     : Op \cup {None},
            by     : Link,           \* the link it was called with, or drew
            new    : Agreement,      \* the document as it has assigned to it
            writes : SUBSET Fields]  \* the fields save will write

Draft == [status |-> "draft", signToken |-> None, signer |-> None,
          otpRequired |-> FALSE, otpHash |-> None, aadhaarRequired |-> FALSE, aadhaarVerified |-> FALSE, signature |-> None,
          signedPdfUrl |-> None]

Idle == [pc |-> "idle", op |-> None, by |-> None, new |-> Draft, writes |-> {}]

TypeOK ==
  /\ doc \in Agreement
  /\ req \in [Requests -> Request]
  /\ issued \subseteq Tokens
  /\ failures \in 0..MaxFailures
  /\ stale \subseteq Requests
  /\ raced \in BOOLEAN
  /\ used \subseteq Tokens
  /\ reused \subseteq Tokens
  /\ proven \subseteq Tokens

Init ==
  /\ doc = Draft
  /\ req = [r \in Requests |-> Idle]
  /\ issued = {}
  /\ failures = 0
  /\ stale = {} /\ raced = FALSE
  /\ used = {} /\ reused = {} /\ proven = {}

(***************************************************************************)
(* Reading.  "assigned" are fields that change although their abstraction  *)
(* may not: a new OTP for the same link.                                   *)
(***************************************************************************)
Changed(new) == {f \in Fields : new[f] # doc[f]}

Begin(r, op, t, new, assigned) ==
  /\ req[r].pc = "idle"
  /\ req' = [req EXCEPT ![r] = [pc |-> "save", op |-> op, by |-> t, new |-> new,
                                writes |-> Changed(new) \cup assigned]]
  /\ UNCHANGED <<doc, failures, history>>

MaySend == doc.status # "signed"

AfterSendKeepingAadhaar(t, need, mailed) ==
  [doc EXCEPT !.signToken = t, !.signer = t, !.status = "sent",
              !.otpRequired = mailed, !.otpHash = IF mailed THEN t ELSE None,
              !.aadhaarRequired = need]

AfterSendKeepingOtp(t, need, mailed) ==
  [doc EXCEPT !.signToken = t, !.signer = t, !.status = "sent", !.otpRequired = mailed,
              !.aadhaarRequired = need, !.aadhaarVerified = FALSE]

AfterSend(t, need, mailed) ==
  [doc EXCEPT !.signToken = t, !.signer = t, !.status = "sent",
              !.otpRequired = mailed, !.otpHash = IF mailed THEN t ELSE None,
              !.aadhaarRequired = need, !.aadhaarVerified = FALSE]

\* mailed: whether the process that sends is configured for email, which a
\* deployment may change from one send to the next.
Send(r, t, need, mailed) ==
  /\ MaySend
  /\ t \notin issued
  /\ issued' = issued \cup {t}
  /\ Begin(r, "send", t, AfterSend(t, need, mailed), {})

\* getForSigning: the first look at a link that was sent.
View(r, t) ==
  /\ doc.signToken = t
  /\ doc.status = "sent"
  /\ Begin(r, "view", t, [doc EXCEPT !.status = "viewed"], {})
  /\ UNCHANGED issued

\* aadhaarVerify looks neither at the status nor at aadhaarRequired.
Verify(r, t) ==
  /\ doc.signToken = t
  /\ Begin(r, "verify", t, [doc EXCEPT !.aadhaarVerified = TRUE], {})
  /\ UNCHANGED issued

ResendOtp(r, t) ==
  /\ doc.signToken = t
  /\ doc.otpRequired
  /\ doc.status # "signed"
  /\ Begin(r, "resend", t, [doc EXCEPT !.otpHash = t], {"otpHash"})
  /\ UNCHANGED issued

MaySign(t) ==
  /\ doc.status \notin {"signed", "declined"}
  /\ doc.aadhaarRequired => doc.aadhaarVerified
  /\ doc.otpRequired => doc.otpHash = t

AfterSignNoEvidence(t) ==
  [doc EXCEPT !.status = "signed", !.signToken = None, !.otpHash = None]

AfterSign(t) ==
  [doc EXCEPT !.signature = t, !.status = "signed", !.signToken = None, !.otpHash = None]

Sign(r, t) ==
  /\ doc.signToken = t
  /\ MaySign(t)
  /\ Begin(r, "sign", t, AfterSign(t), {"signature"})
  /\ UNCHANGED issued

MayDecline == doc.status # "signed"

Decline(r, t) ==
  /\ doc.signToken = t
  /\ MayDecline
  /\ Begin(r, "decline", t, [doc EXCEPT !.status = "declined", !.signToken = None], {})
  /\ UNCHANGED issued

(***************************************************************************)
(* Writing.                                                                *)
(***************************************************************************)
EveryField(r) == Fields

Written(r) == req[r].writes

Merged(r) == [f \in Fields |-> IF f \in Written(r) THEN req[r].new[f] ELSE doc[f]]

Save(r) ==
  LET q == req[r] IN
  /\ q.pc = "save"
  /\ doc' = Merged(r)
  /\ req' = [req EXCEPT ![r] = IF q.op = "sign" THEN [q EXCEPT !.pc = "render"] ELSE Idle]
  /\ stale' = {o \in Requests \ {r} : req[o].pc = "save"}
  /\ raced' = (raced \/ r \in stale)
  /\ used' = IF q.op = "sign" THEN used \cup {q.by} ELSE used
  /\ reused' = IF q.op = "sign" /\ q.by \in used THEN reused \cup {q.by} ELSE reused
  /\ proven' = IF q.op = "verify" THEN proven \cup {q.by} ELSE proven
  /\ UNCHANGED <<issued, failures>>

\* The signed PDF is rendered after the signature is saved, best effort.
Render(r) ==
  /\ req[r].pc = "render"
  /\ \/ req' = [req EXCEPT ![r].pc = "attach"]
     \/ req' = [req EXCEPT ![r] = Idle]
  /\ UNCHANGED <<doc, issued, failures, history>>

\* The second save of sign, with signedPdfUrl alone.
Attach(r) ==
  /\ req[r].pc = "attach"
  /\ doc' = [doc EXCEPT !.signedPdfUrl = req[r].by]
  /\ req' = [req EXCEPT ![r] = Idle]
  /\ UNCHANGED <<issued, failures, history>>

Fail(r) ==
  /\ req[r].pc # "idle"
  /\ failures < MaxFailures
  /\ failures' = failures + 1
  /\ req' = [req EXCEPT ![r] = Idle]
  /\ stale' = stale \ {r}
  /\ UNCHANGED <<doc, issued, raced, used, reused, proven>>

ByLink(r, t) ==
  View(r, t) \/ Verify(r, t) \/ ResendOtp(r, t) \/ Sign(r, t) \/ Decline(r, t)

Next ==
  \E r \in Requests :
    \/ \E t \in Tokens, need, mailed \in BOOLEAN : Send(r, t, need, mailed)
    \/ \E t \in Tokens : ByLink(r, t)
    \/ Save(r)
    \/ Render(r)
    \/ Attach(r)
    \/ Fail(r)

Spec == Init /\ [][Next]_vars
---------------------------------------------------------------------------
(***************************************************************************)
(* Properties.                                                             *)
(***************************************************************************)

\* verify() vouches for any document in 'signed' ("evidence intact"): however
\* the saves interleave, such a document carries a signature that was made.
SignedHasEvidence == doc.status = "signed" => doc.signature \in used

\* As long as no request has saved over another's changes, a signed agreement
\* is signed by the person it was sent to, who proved an Aadhaar if one was
\* asked for, its link and OTP are void, its PDF shows that signature, and no
\* link was ever signed with twice (sign 180-244).
SignedAsSent ==
  ~raced =>
    /\ reused = {}
    /\ doc.status = "signed" =>
         /\ doc.signature = doc.signer
         /\ doc.aadhaarRequired => doc.signature \in proven
         /\ doc.signToken = None /\ doc.otpHash = None
         /\ doc.signedPdfUrl \in {None, doc.signature}

\* In the same case an agreement that waits for its signer can be signed: its
\* link is open and the OTP that was mailed belongs to it (send, resendOtp).
OpenLinkWorks ==
  ~raced /\ doc.status \in {"sent", "viewed"} =>
    /\ doc.signToken # None /\ doc.signToken = doc.signer
    /\ doc.otpRequired => doc.otpHash = doc.signToken

\* Once an agreement is signed, and no request that read it before is still
\* to write its status or signature, it keeps both for ever, races or not.
AtRest ==
  /\ doc.status = "signed"
  /\ \A r \in Requests :
       req[r].pc = "save" => req[r].writes \cap {"status", "signature"} = {}

SignedIsFinal ==
  [][AtRest => AtRest' /\ doc'.signature = doc.signature]_vars

(***************************************************************************)
(* What the repository says and the code does not do.                      *)
(***************************************************************************)

\* agreements.service.ts:212: "single-use: invalidate the link".
SingleUse == reused = {}
===========================================================================
