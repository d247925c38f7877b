------------------------------ MODULE HrLetters ------------------------------
(***************************************************************************)
(* An HR letter (offer, experience or relieving): created as a draft,      *)
(* rendered best effort, sent, and accepted, rejected or expired.  The     *)
(* snapshot of the employee it is printed from never changes, so only      *)
(* whether it was rendered is kept.                                        *)
(*                                                                         *)
(* DraftMaySettle is a fault that no action uses.                          *)
(***************************************************************************)
EXTENDS Handlers

VARIABLES
  letter,   \* the document
  post      \* requests in flight

letterVars == <<letter, post>>

LetterStatus == {"none", "draft", "sent", "accepted", "rejected", "expired"}
LetterTransitions == [draft |-> {"sent", "expired"}, sent |-> {"accepted", "rejected", "expired"},
                      accepted |-> {}, rejected |-> {}, expired |-> {}]
Closed == {"accepted", "rejected", "expired"}

\* pdfUrl and generatedAt are set together and never unset.
Letter == [status : LetterStatus, rendered : BOOLEAN]

\* A request waits to render, to save the PDF, or to save the status "to".
PostRequest == [pc : {"idle", "render", "attach", "save"}, to : LetterStatus]
Sleeping == [pc |-> "idle", to |-> "none"]

LetterTypeOK == letter \in Letter /\ post \in [Requests -> PostRequest]

LetterInit ==
  /\ letter = [status |-> "none", rendered |-> FALSE]
  /\ post = [r \in Requests |-> Sleeping]

Posts(r, q) == post[r].pc = "idle" /\ post' = [post EXCEPT ![r] = q]
Exists == letter.status # "none"

CreateLetter(r) ==
  /\ ~Exists
  /\ letter' = [letter EXCEPT !.status = "draft"]
  /\ Posts(r, [pc |-> "render", to |-> "none"])

\* get: a letter without a PDF is rendered when it is looked at.
GetLetter(r) ==
  /\ Exists /\ ~letter.rendered
  /\ Posts(r, [pc |-> "render", to |-> "none"])
  /\ UNCHANGED letter

RenderLetter(r) ==
  /\ post[r].pc = "render"
  /\ \/ post' = [post EXCEPT ![r].pc = "attach"]
     \/ post' = [post EXCEPT ![r] = Sleeping]
  /\ UNCHANGED letter

AttachLetter(r) ==
  /\ post[r].pc = "attach"
  /\ letter' = [letter EXCEPT !.rendered = TRUE]
  /\ post' = [post EXCEPT ![r] = Sleeping]

DraftMaySettle(from, to) == to \in LetterTransitions[from] \cup (IF from = "draft" THEN {"accepted"} ELSE {})
MaySet(from, to) == to \in LetterTransitions[from]

SetStatus(r, to) ==
  /\ Exists /\ MaySet(letter.status, to)
  /\ to = "sent" => letter.rendered
  /\ Posts(r, [pc |-> "save", to |-> to])
  /\ UNCHANGED letter

SaveStatus(r) ==
  /\ post[r].pc = "save"
  /\ letter' = [letter EXCEPT !.status = post[r].to]
  /\ post' = [post EXCEPT ![r] = Sleeping]

\* remove deletes whatever the status; a request that holds the letter then
\* fails.  Another letter may be created.
RemoveLetter ==
  /\ Exists
  /\ letter' = [status |-> "none", rendered |-> FALSE]
  /\ post' = [r \in Requests |-> Sleeping]

LetterRequestDies(r) ==
  /\ post[r].pc # "idle"
  /\ post' = [post EXCEPT ![r] = Sleeping]
  /\ UNCHANGED letter

LetterNext ==
  \/ RemoveLetter
  \/ \E r \in Requests :
       \/ CreateLetter(r) \/ GetLetter(r) \/ RenderLetter(r) \/ AttachLetter(r)
       \/ \E to \in LetterStatus \ {"none"} : SetStatus(r, to)
       \/ SaveStatus(r) \/ LetterRequestDies(r)

LetterSpec == LetterInit /\ [][LetterNext]_letterVars
---------------------------------------------------------------------------
(***************************************************************************)
(* Property.                                                               *)
(***************************************************************************)

\* letters.service.ts 12-18, 93-98: whatever the saves overtake, a letter that
\* was sent has been rendered, and one that is accepted, rejected or expired
\* stays so, until it is removed, once no earlier change is still to be saved.
LetterAtRest == letter.status \in Closed /\ \A r \in Requests : post[r].pc # "save"

LettersInOrder ==
  [][/\ letter'.status \in {"sent", "accepted", "rejected"} => letter'.rendered
     /\ LetterAtRest => ~Exists' \/ (LetterAtRest' /\ letter'.status = letter.status)]_letterVars
===========================================================================
