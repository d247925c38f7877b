---------------------------- MODULE ESignProofs ----------------------------
(***************************************************************************)
(* Proofs about ESign, for every set of links and requests and any number  *)
(* of failures.                                                            *)
(***************************************************************************)
EXTENDS ESign, TLAPS

\* What a request that is about to save holds.
HandInv ==
  \A r \in Requests : req[r].pc = "save" =>
    /\ req[r].by \in Tokens
    /\ req[r].op = "sign" =>
         /\ "signature" \in req[r].writes /\ req[r].new.signature = req[r].by
    /\ req[r].op # "sign" =>
         /\ "signature" \notin req[r].writes
         /\ "status" \in req[r].writes => req[r].new.status # "signed"

\* The document is one that requests, taken one after the other, may leave.
Orderly ==
  /\ reused = {}
  /\ doc.status # "signed" => used = {} /\ doc.signedPdfUrl = None
  /\ doc.signToken # None => doc.status \in {"sent", "viewed"}
  /\ doc.status \in {"sent", "viewed"} =>
       /\ doc.signToken # None /\ doc.signToken = doc.signer
       /\ doc.otpRequired => doc.otpHash = doc.signToken
  /\ doc.aadhaarVerified => doc.signer \in proven
  /\ doc.status = "signed" =>
       /\ doc.signature = doc.signer
       /\ doc.aadhaarRequired => doc.aadhaarVerified
       /\ doc.otpHash = None
       /\ doc.signedPdfUrl \in {None, doc.signature}

\* The handler op, called by link t, may go on with the document as it is,
\* and new is what it makes of it.
Handled(op, t, new) ==
  \/ /\ op = "send" /\ MaySend
     /\ \E need, mailed \in BOOLEAN : new = AfterSend(t, need, mailed)
  \/ /\ op = "view" /\ doc.signToken = t /\ doc.status = "sent"
     /\ new = [doc EXCEPT !.status = "viewed"]
  \/ /\ op = "verify" /\ doc.signToken = t
     /\ new = [doc EXCEPT !.aadhaarVerified = TRUE]
  \/ /\ op = "resend" /\ doc.signToken = t /\ doc.otpRequired
     /\ new = [doc EXCEPT !.otpHash = t]
  \/ /\ op = "sign" /\ doc.signToken = t /\ MaySign(t)
     /\ new = AfterSign(t)
  \/ /\ op = "decline" /\ doc.signToken = t
     /\ new = [doc EXCEPT !.status = "declined", !.signToken = None]

\* What a request that is not stale has read is still true.
Current(r) ==
  /\ Handled(req[r].op, req[r].by, req[r].new)
  /\ \A f \in Fields \ req[r].writes : req[r].new[f] = doc[f]

CleanInv ==
  ~raced =>
    /\ Orderly
    /\ \A r \in Requests : req[r].pc = "save" /\ r \notin stale => Current(r)
    /\ \A r \in Requests : req[r].pc \in {"render", "attach"} =>
         doc.status = "signed" /\ req[r].by = doc.signature

IInv ==
  /\ TypeOK
  /\ HandInv
  /\ SignedHasEvidence
  /\ CleanInv

LEMMA InitInv == Init => IInv
<1> SUFFICES ASSUME Init PROVE IInv
  OBVIOUS
<1> USE ESignAssumption
<1>1. Draft \in Agreement
  BY DEF Draft, Agreement, Status, Link
<1>2. Idle \in Request
  BY <1>1 DEF Idle, Request, Link
<1>3. TypeOK
  <2>1. 0 \in 0..MaxFailures
    OBVIOUS
  <2>2. req \in [Requests -> Request]
    BY <1>2 DEF Init
  <2> QED
    BY <1>1, <2>1, <2>2 DEF Init, TypeOK
<1>4. HandInv /\ SignedHasEvidence
  BY DEF Init, HandInv, SignedHasEvidence, Idle, Draft
<1>5. CleanInv
  BY DEF Init, CleanInv, Orderly, Idle, Draft
<1> QED
  BY <1>3, <1>4, <1>5 DEF IInv
---------------------------------------------------------------------------
(***************************************************************************)
(* The documents that handlers compute.                                    *)
(***************************************************************************)
LEMMA HandledType ==
  ASSUME TypeOK, NEW op \in Op, NEW t \in Tokens, NEW new, Handled(op, t, new)
  PROVE  /\ new \in Agreement
         /\ op = "sign" => new.signature = t /\ new.status = "signed"
         /\ op # "sign" => /\ new.signature = doc.signature
                           /\ new.status # doc.status => new.status # "signed"
<1> USE DEF TypeOK, Agreement, Status, Link
<1>1. CASE op = "send"
  <2>1. PICK need, mailed \in BOOLEAN : new = AfterSend(t, need, mailed)
    BY <1>1 DEF Handled
  <2> QED
    BY <1>1, <2>1 DEF AfterSend
<1>2. CASE op = "sign"
  BY <1>2 DEF Handled, AfterSign
<1>3. CASE op = "view"
  BY <1>3 DEF Handled
<1>4. CASE op = "verify"
  BY <1>4 DEF Handled
<1>5. CASE op = "resend"
  BY <1>5 DEF Handled
<1>6. CASE op = "decline"
  BY <1>6 DEF Handled
<1> QED
  BY <1>1, <1>2, <1>3, <1>4, <1>5, <1>6 DEF Op

\* A request that has just read.
LEMMA BeginInv ==
  ASSUME IInv, NEW r \in Requests, NEW op \in Op, NEW t \in Tokens, NEW new,
         NEW assigned, assigned \subseteq Fields, Handled(op, t, new),
         Begin(r, op, t, new, assigned), issued' \subseteq Tokens,
         op = "sign" => assigned = {"signature"},
         op # "sign" => "signature" \notin assigned /\ "status" \notin assigned
  PROVE  IInv'
<1> USE DEF IInv
<1> DEFINE q == [pc |-> "save", op |-> op, by |-> t, new |-> new,
                 writes |-> Changed(new) \cup assigned]
<1>1. /\ new \in Agreement
      /\ op = "sign" => new.signature = t
      /\ op # "sign" => /\ new.signature = doc.signature
                        /\ new.status # doc.status => new.status # "signed"
  BY HandledType
<1>2. q \in Request
  BY <1>1 DEF Request, Changed, Link
<1>3. /\ req' \in [Requests -> Request] /\ req'[r] = q
      /\ \A o \in Requests \ {r} : req'[o] = req[o]
  BY <1>2 DEF Begin, TypeOK
<1>4. UNCHANGED <<doc, failures, stale, raced, used, reused, proven>>
  BY DEF Begin, history
<1>5. TypeOK'
  BY <1>3, <1>4 DEF TypeOK
<1>6. HandInv'
  <2>1. SUFFICES ASSUME NEW o \in Requests, req'[o].pc = "save"
                 PROVE  /\ req'[o].by \in Tokens
                        /\ req'[o].op = "sign" =>
                             /\ "signature" \in req'[o].writes
                             /\ req'[o].new.signature = req'[o].by
                        /\ req'[o].op # "sign" =>
                             /\ "signature" \notin req'[o].writes
                             /\ "status" \in req'[o].writes => req'[o].new.status # "signed"
    BY DEF HandInv
  <2>2. CASE o = r
    <3>1. op # "sign" => "signature" \notin q.writes
      BY <1>1 DEF Changed
    <3>2. op # "sign" => ("status" \in q.writes => new.status # "signed")
      BY <1>1 DEF Changed
    <3> QED
      BY <1>1, <1>3, <2>2, <3>1, <3>2
  <2>3. CASE o # r
    BY <1>3, <2>1, <2>3 DEF HandInv
  <2> QED
    BY <2>2, <2>3
<1>7. SignedHasEvidence'
  BY <1>4 DEF SignedHasEvidence
<1>8. CleanInv'
  <2>1. SUFFICES ASSUME ~raced
                 PROVE  /\ Orderly'
                        /\ \A o \in Requests :
                             req'[o].pc = "save" /\ o \notin stale' => Current(o)'
                        /\ \A o \in Requests : req'[o].pc \in {"render", "attach"} =>
                             doc'.status = "signed" /\ req'[o].by = doc'.signature
    BY <1>4 DEF CleanInv
  <2>2. Orderly'
    BY <1>4, <2>1 DEF CleanInv, Orderly
  <2>3. Current(r)'
    <3>1. \A f \in Fields \ q.writes : new[f] = doc[f]
      BY DEF Changed
    <3>2. Handled(op, t, new)'
      BY <1>4 DEF Handled, MaySend, MaySign, AfterSend, AfterSign
    <3> QED
      BY <1>3, <1>4, <3>1, <3>2 DEF Current
  <2>4. ASSUME NEW o \in Requests \ {r}, Current(o)
        PROVE  Current(o)'
    BY <1>3, <1>4, <2>4 DEF Current, Handled, MaySend, MaySign, AfterSend, AfterSign
  <2> QED
    BY <1>3, <1>4, <2>1, <2>2, <2>3, <2>4 DEF CleanInv
<1> QED
  BY <1>5, <1>6, <1>7, <1>8
---------------------------------------------------------------------------
(***************************************************************************)
(* The handlers up to their save.                                          *)
(***************************************************************************)
LEMMA SendInv ==
  ASSUME IInv, NEW r \in Requests, NEW t \in Tokens,
         NEW need \in BOOLEAN, NEW mailed \in BOOLEAN, Send(r, t, need, mailed)
  PROVE  IInv'
<1>1. Handled("send", t, AfterSend(t, need, mailed))
  BY DEF Handled, Send
<1>2. issued' \subseteq Tokens
  BY DEF Send, IInv, TypeOK
<1>3. Begin(r, "send", t, AfterSend(t, need, mailed), {})
  BY DEF Send
<1> QED
  BY <1>1, <1>2, <1>3, BeginInv DEF Op

LEMMA ByLinkInv ==
  ASSUME IInv, NEW r \in Requests, NEW t \in Tokens, ByLink(r, t)
  PROVE  IInv'
<1>1. ASSUME UNCHANGED issued
      PROVE  issued' \subseteq Tokens
  BY <1>1 DEF IInv, TypeOK
<1>2. CASE View(r, t)
  <2> DEFINE new == [doc EXCEPT !.status = "viewed"]
  <2>1. Handled("view", t, new) /\ Begin(r, "view", t, new, {}) /\ UNCHANGED issued
    BY <1>2 DEF View, Handled
  <2> HIDE DEF new
  <2> QED
    BY <1>1, <2>1, BeginInv DEF Op
<1>3. CASE Verify(r, t)
  <2> DEFINE new == [doc EXCEPT !.aadhaarVerified = TRUE]
  <2>1. Handled("verify", t, new) /\ Begin(r, "verify", t, new, {}) /\ UNCHANGED issued
    BY <1>3 DEF Verify, Handled
  <2> HIDE DEF new
  <2> QED
    BY <1>1, <2>1, BeginInv DEF Op
<1>4. CASE ResendOtp(r, t)
  <2> DEFINE new == [doc EXCEPT !.otpHash = t]
  <2>1. /\ Handled("resend", t, new) /\ Begin(r, "resend", t, new, {"otpHash"})
        /\ UNCHANGED issued
    BY <1>4 DEF ResendOtp, Handled
  <2> HIDE DEF new
  <2> QED
    BY <1>1, <2>1, BeginInv DEF Op, Fields
<1>5. CASE Sign(r, t)
  <2>1. /\ Handled("sign", t, AfterSign(t))
        /\ Begin(r, "sign", t, AfterSign(t), {"signature"})
        /\ UNCHANGED issued
    BY <1>5 DEF Sign, Handled
  <2> QED
    BY <1>1, <2>1, BeginInv DEF Op, Fields
<1>6. CASE Decline(r, t)
  <2> DEFINE new == [doc EXCEPT !.status = "declined", !.signToken = None]
  <2>1. Handled("decline", t, new) /\ Begin(r, "decline", t, new, {}) /\ UNCHANGED issued
    BY <1>6 DEF Decline, Handled
  <2> HIDE DEF new
  <2> QED
    BY <1>1, <2>1, BeginInv DEF Op
<1> QED
  BY <1>2, <1>3, <1>4, <1>5, <1>6 DEF ByLink
---------------------------------------------------------------------------
(***************************************************************************)
(* The save.                                                               *)
(***************************************************************************)
LEMMA MergedType ==
  ASSUME TypeOK, NEW r \in Requests
  PROVE  Merged(r) \in Agreement
<1>1. req[r].new \in Agreement /\ doc \in Agreement
  BY DEF TypeOK, Request
<1> QED
  BY <1>1 DEF Merged, Fields, Agreement

\* A request that has read the document as it is saves what it has computed.
LEMMA CurrentSave ==
  ASSUME NEW r \in Requests, Current(r)
  PROVE  \A f \in Fields : Merged(r)[f] = req[r].new[f]
BY DEF Merged, Written, Current

\* The requests after a save.
LEMMA SaveRecords ==
  ASSUME TypeOK, NEW r \in Requests, Save(r)
  PROVE  /\ req' \in [Requests -> Request]
         /\ req'[r].pc # "save"
         /\ req'[r].pc \in {"render", "attach"} =>
              req[r].op = "sign" /\ req'[r].by = req[r].by
         /\ \A o \in Requests \ {r} : req'[o] = req[o]
<1>1. Idle \in Request
  BY DEF Idle, Request, Draft, Agreement, Status, Link
<1> DEFINE q == IF req[r].op = "sign" THEN [req[r] EXCEPT !.pc = "render"] ELSE Idle
<1>2. q \in Request
  BY <1>1 DEF TypeOK, Request
<1>3. /\ q.pc # "save"
      /\ q.pc \in {"render", "attach"} => req[r].op = "sign" /\ q.by = req[r].by
  BY DEF TypeOK, Request, Idle
<1>4. req' = [req EXCEPT ![r] = q]
  BY DEF Save
<1> QED
  BY <1>2, <1>3, <1>4 DEF TypeOK

\* Without a lost race, a save leaves the document in order.
LEMMA SaveOrderly ==
  ASSUME TypeOK, HandInv, Orderly, NEW r \in Requests, Save(r), Current(r)
  PROVE  /\ Orderly'
         /\ req[r].op = "sign" =>
              doc'.status = "signed" /\ doc'.signature = req[r].by
<1> DEFINE t == req[r].by
           op == req[r].op
<1> USE ESignAssumption DEF Fields
<1>1. /\ doc'.status = req[r].new.status
      /\ doc'.signToken = req[r].new.signToken
      /\ doc'.signer = req[r].new.signer
      /\ doc'.otpRequired = req[r].new.otpRequired
      /\ doc'.otpHash = req[r].new.otpHash
      /\ doc'.aadhaarRequired = req[r].new.aadhaarRequired
      /\ doc'.aadhaarVerified = req[r].new.aadhaarVerified
      /\ doc'.signature = req[r].new.signature
      /\ doc'.signedPdfUrl = req[r].new.signedPdfUrl
  BY CurrentSave DEF Save
<1>2. /\ t \in Tokens /\ op \in Op /\ t # None
  BY DEF HandInv, TypeOK, Request, Save, Handled, Current, Op
<1>3. /\ used' = IF op = "sign" THEN used \cup {t} ELSE used
      /\ reused' = IF op = "sign" /\ t \in used THEN reused \cup {t} ELSE reused
      /\ proven' = IF op = "verify" THEN proven \cup {t} ELSE proven
  BY DEF Save
<1>4. doc \in Agreement
  BY DEF TypeOK
<1> HIDE DEF t, op
<1>5. Handled(op, t, req[r].new)
  BY DEF Current, t, op
<1>6. CASE op = "send"
  <2>1. PICK need, mailed \in BOOLEAN : req[r].new = AfterSend(t, need, mailed)
    BY <1>5, <1>6 DEF Handled
  <2>2. doc.status # "signed"
    BY <1>5, <1>6 DEF Handled, MaySend
  <2>3. /\ doc'.status = "sent" /\ doc'.signToken = t /\ doc'.signer = t
        /\ doc'.otpRequired = mailed /\ doc'.otpHash = (IF mailed THEN t ELSE None)
        /\ doc'.aadhaarVerified = FALSE /\ doc'.signedPdfUrl = doc.signedPdfUrl
    BY <1>1, <1>4, <2>1 DEF AfterSend, Agreement
  <2> QED
    BY <1>2, <1>3, <1>6, <2>2, <2>3 DEF Orderly, op
<1>7. CASE op = "view"
  <2>1. /\ doc.status = "sent" /\ doc.signToken = t
        /\ req[r].new = [doc EXCEPT !.status = "viewed"]
    BY <1>5, <1>7 DEF Handled
  <2> QED
    BY <1>1, <1>2, <1>3, <1>4, <1>7, <2>1 DEF Orderly, Agreement, op
<1>8. CASE op = "verify"
  <2>1. doc.signToken = t /\ req[r].new = [doc EXCEPT !.aadhaarVerified = TRUE]
    BY <1>5, <1>8 DEF Handled
  <2>2. doc.signer = t
    BY <1>2, <2>1 DEF Orderly
  <2> QED
    BY <1>1, <1>2, <1>3, <1>4, <1>8, <2>1, <2>2 DEF Orderly, Agreement, op
<1>9. CASE op = "resend"
  <2>1. doc.signToken = t /\ req[r].new = [doc EXCEPT !.otpHash = t]
    BY <1>5, <1>9 DEF Handled
  <2> QED
    BY <1>1, <1>2, <1>3, <1>4, <1>9, <2>1 DEF Orderly, Agreement, op
<1>10. CASE op = "sign"
  <2>1. /\ doc.signToken = t /\ doc.status # "signed"
        /\ doc.aadhaarRequired => doc.aadhaarVerified
        /\ req[r].new = AfterSign(t)
    BY <1>5, <1>10 DEF Handled, MaySign
  <2>2. doc.signer = t /\ used = {} /\ doc.signedPdfUrl = None
    BY <1>2, <2>1 DEF Orderly
  <2>3. /\ doc'.status = "signed" /\ doc'.signToken = None /\ doc'.otpHash = None
        /\ doc'.signature = t /\ doc'.signer = t /\ doc'.signedPdfUrl = None
        /\ doc'.aadhaarRequired = doc.aadhaarRequired
        /\ doc'.aadhaarVerified = doc.aadhaarVerified
    BY <1>1, <1>4, <2>1, <2>2 DEF AfterSign, Agreement
  <2> QED
    BY <1>2, <1>3, <1>10, <2>1, <2>2, <2>3 DEF Orderly, t, op
<1>11. CASE op = "decline"
  <2>1. /\ doc.signToken = t
        /\ req[r].new = [doc EXCEPT !.status = "declined", !.signToken = None]
    BY <1>5, <1>11 DEF Handled
  <2>2. used = {} /\ doc.signedPdfUrl = None
    BY <1>2, <2>1 DEF Orderly
  <2> QED
    BY <1>1, <1>2, <1>3, <1>4, <1>11, <2>1, <2>2 DEF Orderly, Agreement, op
<1> QED
  BY <1>2, <1>6, <1>7, <1>8, <1>9, <1>10, <1>11 DEF Op

LEMMA SaveInv ==
  ASSUME IInv, NEW r \in Requests, Save(r)
  PROVE  IInv'
<1> USE DEF IInv
<1>1. /\ req' \in [Requests -> Request]
      /\ req'[r].pc # "save"
      /\ req'[r].pc \in {"render", "attach"} =>
           req[r].op = "sign" /\ req'[r].by = req[r].by
      /\ \A o \in Requests \ {r} : req'[o] = req[o]
  BY SaveRecords
<1>2. /\ doc' = Merged(r) /\ req[r].pc = "save"
      /\ stale' = {o \in Requests \ {r} : req[o].pc = "save"}
      /\ raced' = (raced \/ r \in stale)
      /\ used' = IF req[r].op = "sign" THEN used \cup {req[r].by} ELSE used
      /\ UNCHANGED <<issued, failures>>
  BY DEF Save
<1>3. req[r].by \in Tokens
  BY <1>2 DEF HandInv
<1>4. TypeOK'
  <2>1. doc' \in Agreement
    BY <1>2, MergedType
  <2>2. raced' \in BOOLEAN
    BY <1>2 DEF TypeOK
  <2>3. used' \subseteq Tokens /\ reused' \subseteq Tokens /\ proven' \subseteq Tokens
    BY <1>3 DEF Save, TypeOK
  <2>4. stale' \subseteq Requests
    BY <1>2
  <2> QED
    BY <1>1, <1>2, <2>1, <2>2, <2>3, <2>4 DEF TypeOK
<1>5. HandInv'
  BY <1>1 DEF HandInv
<1>6. SignedHasEvidence'
  <2>1. /\ doc'.status = IF "status" \in req[r].writes THEN req[r].new.status ELSE doc.status
        /\ doc'.signature = IF "signature" \in req[r].writes
                             THEN req[r].new.signature ELSE doc.signature
    BY <1>2 DEF Merged, Written, Fields
  <2>2. CASE req[r].op = "sign"
    BY <1>2, <2>1, <2>2 DEF HandInv, SignedHasEvidence
  <2>3. CASE req[r].op # "sign"
    BY <1>2, <2>1, <2>3 DEF HandInv, SignedHasEvidence
  <2> QED
    BY <2>2, <2>3
<1>7. CleanInv'
  <2>1. SUFFICES ASSUME ~raced'
                 PROVE  /\ Orderly'
                        /\ \A o \in Requests :
                             req'[o].pc = "save" /\ o \notin stale' => Current(o)'
                        /\ \A o \in Requests : req'[o].pc \in {"render", "attach"} =>
                             doc'.status = "signed" /\ req'[o].by = doc'.signature
    BY DEF CleanInv
  <2>2. ~raced /\ r \notin stale
    BY <1>2, <2>1
  <2>3. Orderly /\ Current(r)
    BY <1>2, <2>2 DEF CleanInv
  <2>4. /\ Orderly'
        /\ req[r].op = "sign" => doc'.status = "signed" /\ doc'.signature = req[r].by
    BY <2>3, SaveOrderly
  <2>5. \A o \in Requests : req'[o].pc = "save" => o \in stale'
    BY <1>1, <1>2
  \* While a signed agreement is rendered nobody who has read it may save.
  <2>6. ASSUME NEW o \in Requests, req'[o].pc \in {"render", "attach"}
        PROVE  doc'.status = "signed" /\ req'[o].by = doc'.signature
    <3>1. CASE o = r
      BY <1>1, <2>4, <2>6, <3>1
    <3>2. CASE o # r
      <4>1. doc.status = "signed"
        BY <1>1, <2>2, <2>6, <3>2 DEF CleanInv
      <4>2. doc.signToken = None
        BY <2>3, <4>1 DEF Orderly
      <4>3. FALSE
        BY <1>3, <2>3, <4>1, <4>2, ESignAssumption DEF Current, Handled, MaySend
      <4> QED
        BY <4>3
    <3> QED
      BY <3>1, <3>2
  <2> QED
    BY <2>4, <2>5, <2>6
<1> QED
  BY <1>4, <1>5, <1>6, <1>7
---------------------------------------------------------------------------
(***************************************************************************)
(* After the save.                                                         *)
(***************************************************************************)
\* A request that moves on or ends without touching the document.
LEMMA QuietInv ==
  ASSUME IInv, NEW r \in Requests, NEW q \in Request, q.pc # "save",
         q.pc \in {"render", "attach"} =>
           req[r].pc \in {"render", "attach"} /\ q.by = req[r].by,
         req' = [req EXCEPT ![r] = q], stale' \subseteq stale, stale \ {r} \subseteq stale',
         failures' \in 0..MaxFailures,
         UNCHANGED <<doc, issued, raced, used, reused, proven>>
  PROVE  IInv'
<1> USE DEF IInv
<1>1. /\ req' \in [Requests -> Request] /\ req'[r] = q
      /\ \A o \in Requests \ {r} : req'[o] = req[o]
  BY DEF TypeOK
<1>2. TypeOK'
  BY <1>1 DEF TypeOK
<1>3. HandInv' /\ SignedHasEvidence'
  BY <1>1 DEF HandInv, SignedHasEvidence
<1>4. CleanInv'
  <2>1. SUFFICES ASSUME ~raced
                 PROVE  /\ Orderly'
                        /\ \A o \in Requests :
                             req'[o].pc = "save" /\ o \notin stale' => Current(o)'
                        /\ \A o \in Requests : req'[o].pc \in {"render", "attach"} =>
                             doc'.status = "signed" /\ req'[o].by = doc'.signature
    BY DEF CleanInv
  <2>2. Orderly'
    BY <2>1 DEF CleanInv, Orderly
  <2>3. ASSUME NEW o \in Requests \ {r}, Current(o)
        PROVE  Current(o)'
    BY <1>1, <2>3 DEF Current, Handled, MaySend, MaySign, AfterSend, AfterSign
  <2>4. ASSUME NEW o \in Requests, req'[o].pc = "save", o \notin stale'
        PROVE  Current(o)'
    BY <1>1, <2>1, <2>3, <2>4 DEF CleanInv
  <2>5. ASSUME NEW o \in Requests, req'[o].pc \in {"render", "attach"}
        PROVE  doc'.status = "signed" /\ req'[o].by = doc'.signature
    BY <1>1, <2>1, <2>5 DEF CleanInv
  <2> QED
    BY <2>2, <2>4, <2>5
<1> QED
  BY <1>2, <1>3, <1>4

LEMMA IdleType == Idle \in Request /\ Idle.pc = "idle"
BY DEF Idle, Request, Draft, Agreement, Status, Link

LEMMA RenderInv ==
  ASSUME IInv, NEW r \in Requests, Render(r)
  PROVE  IInv'
<1>1. /\ req[r].pc = "render" /\ failures' \in 0..MaxFailures /\ stale' = stale
      /\ UNCHANGED <<doc, issued, raced, used, reused, proven>>
  BY DEF Render, history, IInv, TypeOK
<1>2. CASE req' = [req EXCEPT ![r] = Idle]
  BY <1>1, <1>2, IdleType, QuietInv
<1>3. CASE req' = [req EXCEPT ![r].pc = "attach"]
  <2> DEFINE q == [req[r] EXCEPT !.pc = "attach"]
  <2>1. q \in Request /\ q.pc = "attach" /\ q.by = req[r].by
    BY DEF IInv, TypeOK, Request
  <2>2. req' = [req EXCEPT ![r] = q]
    BY <1>3
  <2> HIDE DEF q
  <2> QED
    BY <1>1, <2>1, <2>2, QuietInv
<1> QED
  BY <1>2, <1>3 DEF Render

LEMMA FailInv ==
  ASSUME IInv, NEW r \in Requests, Fail(r)
  PROVE  IInv'
<1>1. failures' \in 0..MaxFailures
  BY ESignAssumption DEF Fail, IInv, TypeOK
<1> QED
  BY <1>1, IdleType, QuietInv DEF Fail

LEMMA AttachInv ==
  ASSUME IInv, NEW r \in Requests, Attach(r)
  PROVE  IInv'
<1> USE DEF IInv
<1>1. /\ req' \in [Requests -> Request] /\ req'[r].pc = "idle"
      /\ \A o \in Requests \ {r} : req'[o] = req[o]
  BY IdleType DEF Attach, TypeOK
<1>2. /\ req[r].pc = "attach" /\ doc' = [doc EXCEPT !.signedPdfUrl = req[r].by]
      /\ UNCHANGED <<issued, failures, stale, raced, used, reused, proven>>
  BY DEF Attach, history
<1>3. /\ doc' \in Agreement
      /\ doc'.signedPdfUrl = req[r].by /\ doc'.status = doc.status
      /\ doc'.signature = doc.signature /\ doc'.signToken = doc.signToken
      /\ doc'.signer = doc.signer /\ doc'.otpHash = doc.otpHash
      /\ doc'.otpRequired = doc.otpRequired
      /\ doc'.aadhaarRequired = doc.aadhaarRequired
      /\ doc'.aadhaarVerified = doc.aadhaarVerified
  BY <1>2 DEF TypeOK, Agreement, Request
<1>4. TypeOK'
  BY <1>1, <1>2, <1>3 DEF TypeOK
<1>5. HandInv' /\ SignedHasEvidence'
  BY <1>1, <1>2, <1>3 DEF HandInv, SignedHasEvidence
<1>6. CleanInv'
  <2>1. SUFFICES ASSUME ~raced
                 PROVE  /\ Orderly'
                        /\ \A o \in Requests :
                             req'[o].pc = "save" /\ o \notin stale' => Current(o)'
                        /\ \A o \in Requests : req'[o].pc \in {"render", "attach"} =>
                             doc'.status = "signed" /\ req'[o].by = doc'.signature
    BY <1>2 DEF CleanInv
  <2>2. doc.status = "signed" /\ req[r].by = doc.signature
    BY <1>2, <2>1 DEF CleanInv
  <2>3. Orderly
    BY <2>1 DEF CleanInv
  <2>4. Orderly'
    BY <1>2, <1>3, <2>2, <2>3 DEF Orderly
  \* Nobody who has read the signed agreement is about to save.
  <2>5. ASSUME NEW o \in Requests, req'[o].pc = "save", o \notin stale'
        PROVE  FALSE
    <3>1. Current(o) /\ req[o].by \in Tokens
      BY <1>1, <1>2, <2>1, <2>5 DEF CleanInv, HandInv
    <3>2. doc.signToken = None
      BY <2>2, <2>3 DEF Orderly
    <3> QED
      BY <2>2, <3>1, <3>2, ESignAssumption DEF Current, Handled, MaySend
  <2>6. ASSUME NEW o \in Requests, req'[o].pc \in {"render", "attach"}
        PROVE  doc'.status = "signed" /\ req'[o].by = doc'.signature
    BY <1>1, <1>3, <2>1, <2>6 DEF CleanInv
  <2> QED
    BY <2>4, <2>5, <2>6
<1> QED
  BY <1>4, <1>5, <1>6

LEMMA NextInv ==
  ASSUME IInv, [Next]_vars
  PROVE  IInv'
<1>1. CASE Next
  <2>1. PICK r \in Requests :
          \/ \E t \in Tokens, need, mailed \in BOOLEAN : Send(r, t, need, mailed)
          \/ \E t \in Tokens : ByLink(r, t)
          \/ Save(r) \/ Render(r) \/ Attach(r) \/ Fail(r)
    BY <1>1 DEF Next
  <2> QED
    BY <2>1, SendInv, ByLinkInv, SaveInv, RenderInv, AttachInv, FailInv
<1>2. CASE UNCHANGED vars
  <2>1. UNCHANGED <<doc, req, issued, failures, stale, raced, used, reused, proven>>
    BY <1>2 DEF vars, history
  <2>2. TypeOK' /\ HandInv' /\ SignedHasEvidence'
    BY <2>1 DEF IInv, TypeOK, HandInv, SignedHasEvidence
  <2>3. Orderly' = Orderly
    BY <2>1 DEF Orderly
  <2>4. ASSUME NEW r \in Requests, Current(r)
        PROVE  Current(r)'
    BY <2>1, <2>4 DEF Current, Handled, MaySend, MaySign, AfterSend, AfterSign
  <2>5. CleanInv'
    BY <2>1, <2>3, <2>4 DEF IInv, CleanInv
  <2> QED
    BY <2>2, <2>5 DEF IInv
<1> QED
  BY <1>1, <1>2
---------------------------------------------------------------------------
\* The invariant holds in every reachable state.
THEOREM Invariance == Spec => []IInv
<1>1. Init => IInv
  BY InitInv
<1>2. IInv /\ [Next]_vars => IInv'
  BY NextInv
<1> QED
  BY <1>1, <1>2, PTL DEF Spec

\* Every variable keeps its type, a saved agreement above all: Merged mixes
\* two documents field by field.
THEOREM TypeCorrect == Spec => []TypeOK
<1>1. IInv => TypeOK
  BY DEF IInv
<1> QED
  BY <1>1, Invariance, PTL

\* However the saves interleave, what verify() calls signed carries a
\* signature that was made.
THEOREM Evidence == Spec => []SignedHasEvidence
<1>1. IInv => SignedHasEvidence
  BY DEF IInv
<1> QED
  BY <1>1, Invariance, PTL

\* Without a lost race the person it was sent to has signed, once, and has
\* proved an Aadhaar if that was asked for.
THEOREM RightSigner == Spec => []SignedAsSent
<1>1. IInv => SignedAsSent
  BY DEF IInv, CleanInv, Orderly, SignedAsSent
<1> QED
  BY <1>1, Invariance, PTL

\* Without a lost race the link and the OTP of a waiting agreement can be used.
THEOREM LinkAndOtp == Spec => []OpenLinkWorks
<1>1. IInv => OpenLinkWorks
  BY DEF IInv, CleanInv, Orderly, OpenLinkWorks
<1> QED
  BY <1>1, Invariance, PTL

\* A signed agreement that no older request threatens keeps its status and
\* its signature, races or not.
THEOREM SignedStays == Spec => SignedIsFinal
<1>1. ASSUME IInv, AtRest, Next
      PROVE  AtRest' /\ doc'.signature = doc.signature
  <2> USE DEF IInv, AtRest
  <2>1. PICK r \in Requests :
          \/ \E t \in Tokens, need, mailed \in BOOLEAN : Send(r, t, need, mailed)
          \/ \E t \in Tokens : ByLink(r, t)
          \/ Save(r) \/ Render(r) \/ Attach(r) \/ Fail(r)
    BY <1>1 DEF Next
  \* Of the handlers only aadhaarVerify goes on with a signed agreement.
  <2>2. CASE \E t \in Tokens, need, mailed \in BOOLEAN : Send(r, t, need, mailed)
    BY <1>1, <2>2 DEF Send, MaySend
  <2>3. CASE \E t \in Tokens : ByLink(r, t)
    <3>1. PICK t \in Tokens : Verify(r, t)
      BY <1>1, <2>3 DEF ByLink, View, ResendOtp, Sign, MaySign, Decline, MayDecline
    <3> DEFINE new == [doc EXCEPT !.aadhaarVerified = TRUE]
    <3>2. /\ doc' = doc
          /\ req' = [req EXCEPT ![r] = [pc |-> "save", op |-> "verify", by |-> t, new |-> new,
                                        writes |-> Changed(new) \cup {}]]
      BY <3>1 DEF Verify, Begin
    <3>3. Changed(new) \cap {"status", "signature"} = {}
      BY <1>1 DEF Changed, Fields, TypeOK, Agreement
    <3> HIDE DEF new
    <3>4. /\ req'[r].writes = Changed(new)
          /\ \A o \in Requests \ {r} : req'[o] = req[o]
      BY <1>1, <3>2 DEF TypeOK
    <3> QED
      BY <1>1, <3>2, <3>3, <3>4
  <2>4. CASE Save(r)
    <3>1. /\ doc'.status = doc.status /\ doc'.signature = doc.signature
      BY <1>1, <2>4 DEF Save, Merged, Written, Fields
    <3> QED
      BY <1>1, <2>4, <3>1, SaveRecords
  <2>5. CASE Render(r) \/ Fail(r)
    <3>1. /\ doc' = doc /\ req'[r].pc # "save"
          /\ \A o \in Requests \ {r} : req'[o] = req[o]
      BY <1>1, <2>5, IdleType DEF Render, Fail, TypeOK, Request
    <3> QED
      BY <1>1, <3>1
  <2>6. CASE Attach(r)
    <3>1. /\ doc'.status = doc.status /\ doc'.signature = doc.signature
          /\ req'[r].pc # "save" /\ \A o \in Requests \ {r} : req'[o] = req[o]
      BY <1>1, <2>6, IdleType DEF Attach, TypeOK, Agreement
    <3> QED
      BY <1>1, <3>1
  <2> QED
    BY <2>1, <2>2, <2>3, <2>4, <2>5, <2>6
<1>2. IInv /\ [Next]_vars => [AtRest => AtRest' /\ doc'.signature = doc.signature]_vars
  BY <1>1
<1> QED
  BY <1>2, Invariance, PTL DEF Spec, SignedIsFinal
===========================================================================
