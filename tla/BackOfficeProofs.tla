-------------------------- MODULE BackOfficeProofs --------------------------
(***************************************************************************)
(* Proofs about the back office: AadhaarGate, what the attempts of a       *)
(* verification count; Sessions, who owns an organisation and which token  *)
(* of a family works; EInvoicing, the portal and the document agree;       *)
(* FircFiles, the directory, the link and the metadata of a remittance     *)
(* agree; for every set of requests, organisations, families, numbers and  *)
(* names.                                                                  *)
(***************************************************************************)
EXTENDS Sessions, AadhaarGate, EInvoicing, FircFiles, FiniteSetTheorems, TLAPS

(***************************************************************************)
(* The attempts of an Aadhaar verification.                                *)
(***************************************************************************)
\* The types without their bounds.
GuessRecord == [status : VerificationStatus \cup {"none"}, attempts : Nat]
GuessShape ==
  /\ verification \in GuessRecord /\ pending \in BOOLEAN
  /\ guess \in [Requests -> [pc : {"idle", "send", "ask", "save"}, right : BOOLEAN,
                             old : GuessRecord, new : GuessRecord]]
  /\ answered \in Nat /\ guessStale \subseteq Requests

GuessSaving == {r \in Requests : guess[r].pc = "save"}

\* Before the verification exists nobody has guessed, and one request creates it.
UnbornInv ==
  verification.status = "none" =>
    /\ verification.attempts = 0
    /\ answered = 0 /\ confirmed = 0
    /\ \A r \in Requests : guess[r].pc \in {"idle", "send"}

AadhaarSendInv ==
  /\ \A r, o \in Requests : guess[r].pc = "send" /\ guess[o].pc = "send" => r = o
  /\ \A r \in Requests : guess[r].pc = "send" => verification.status = "none"

\* A right answer uses the password up, so there is one at most.
ConfirmInv ==
  /\ confirmed \in {0, 1}
  /\ pending => confirmed = 0
  /\ verification.status = "verified" => confirmed = 1
  /\ \A r \in GuessSaving : guess[r].new.status = "verified" => confirmed = 1

\* What a request that nobody has overtaken knows of the verification.
GuessInv ==
  \A r \in Requests :
    /\ r \in guessStale => guess[r].pc \in {"ask", "save"}
    /\ guess[r].pc \in {"ask", "save"} =>
         /\ guess[r].old.status # "verified"
         /\ guess[r].new.status # "none"
         /\ guess[r].new.attempts = guess[r].old.attempts + 1
         /\ r \notin guessStale => guess[r].old = verification
    /\ guess[r].pc = "ask" => guess[r].new.status = guess[r].old.status

\* v counts what has been answered.
Counts(v) ==
  /\ v.attempts = answered
  /\ confirmed = 1 => v.status = "verified"
  /\ confirmed = 0 => (v.status = "failed" <=> answered >= MaxAttempts)

\* The document counts the answers when none waits to be saved, and what the
\* only one that waits will save counts them, too.  When two wait, or one that
\* has been overtaken, a race or a loss is certain.
AadhaarCountInv ==
  ~guessRaced /\ ~unsaved =>
    /\ GuessSaving = {} => Counts(verification)
    /\ \A r \in GuessSaving : GuessSaving = {r} /\ r \notin guessStale => Counts(guess[r].new)

AadhaarIInv == GuessShape /\ UnbornInv /\ AadhaarSendInv /\ ConfirmInv /\ GuessInv /\ AadhaarCountInv

LEMMA AadhaarInitInv == AadhaarInit => AadhaarIInv
<1> SUFFICES ASSUME AadhaarInit PROVE AadhaarIInv
  OBVIOUS
<1> USE AadhaarAssumption DEF AadhaarInit, NoGuess, NoVerification
<1>1. GuessShape
  BY DEF GuessShape, GuessRecord, VerificationStatus
<1>2. UnbornInv /\ AadhaarSendInv /\ ConfirmInv /\ GuessInv
  BY DEF UnbornInv, AadhaarSendInv, ConfirmInv, GuessInv, GuessSaving
<1>3. AadhaarCountInv
  BY DEF AadhaarCountInv, Counts, GuessSaving
<1>4. QED
  BY <1>1, <1>2, <1>3 DEF AadhaarIInv

LEMMA AadhaarNextInv == AadhaarIInv /\ [AadhaarNext]_aadhaarVars => AadhaarIInv'
<1> SUFFICES ASSUME AadhaarIInv, [AadhaarNext]_aadhaarVars PROVE AadhaarIInv'
  OBVIOUS
<1> USE AadhaarAssumption DEF AadhaarIInv, GuessShape, GuessRecord, VerificationStatus
<1>1. ASSUME NEW r \in Requests, Initiate(r) PROVE AadhaarIInv'
  <2>1. verification.status = "none" /\ confirmed = 0
    BY <1>1 DEF Initiate, UnbornInv
  <2>2. \A o \in Requests : guess[o].pc # "send" /\ (o # r => guess'[o] = guess[o])
    BY <1>1 DEF Initiate, Sending
  <2>3. guess'[r].pc = "send" /\ guess[r].pc = "idle"
    BY <1>1 DEF Initiate
  <2>4. GuessShape'
    BY <1>1 DEF Initiate, aadhaarHistory
  <2>5. UnbornInv' /\ AadhaarSendInv'
    BY <1>1, <2>1, <2>2, <2>3 DEF Initiate, aadhaarHistory, UnbornInv, AadhaarSendInv
  <2>6. GuessSaving' = GuessSaving /\ \A o \in GuessSaving : guess'[o] = guess[o]
    BY <2>2, <2>3 DEF GuessSaving
  <2>7. ConfirmInv'
    BY <1>1, <2>1, <2>6 DEF Initiate, aadhaarHistory, ConfirmInv
  <2>8. GuessInv'
    BY <1>1, <2>2, <2>3 DEF Initiate, aadhaarHistory, GuessInv
  <2>9. AadhaarCountInv'
    BY <1>1, <2>6 DEF Initiate, aadhaarHistory, AadhaarCountInv, Counts
  <2>10. QED
    BY <2>4, <2>5, <2>7, <2>8, <2>9
<1>2. ASSUME NEW r \in Requests, CreateVerification(r) PROVE AadhaarIInv'
  <2>1. verification.status = "none" /\ answered = 0 /\ confirmed = 0
    BY <1>2 DEF CreateVerification, AadhaarSendInv, UnbornInv
  <2>2. verification' = [status |-> "otp_sent", attempts |-> 0]
    BY <1>2 DEF CreateVerification
  <2>3. \A o \in Requests : guess'[o].pc = "idle"
    BY <1>2, <2>1 DEF CreateVerification, NoGuess, AadhaarSendInv, UnbornInv
  <2>4. GuessShape'
    BY <1>2 DEF CreateVerification, NoGuess, NoVerification, aadhaarHistory
  <2>5. UnbornInv' /\ AadhaarSendInv' /\ ConfirmInv'
    BY <1>2, <2>1, <2>2, <2>3
       DEF CreateVerification, aadhaarHistory, UnbornInv, AadhaarSendInv, ConfirmInv, GuessSaving
  <2>6. GuessInv'
    BY <1>2, <2>1, <2>3 DEF CreateVerification, aadhaarHistory, GuessInv, UnbornInv
  <2>7. AadhaarCountInv'
    BY <1>2, <2>1, <2>2, <2>3 DEF CreateVerification, aadhaarHistory, AadhaarCountInv, Counts, GuessSaving
  <2>8. QED
    BY <2>4, <2>5, <2>6, <2>7
<1>3. ASSUME NEW r \in Requests, NEW right \in BOOLEAN, Verify(r, right) PROVE AadhaarIInv'
  <2> DEFINE q == [pc |-> "ask", right |-> right, old |-> verification,
                   new |-> [verification EXCEPT !.attempts = @ + 1]]
  <2>1. guess'[r] = q /\ \A o \in Requests : o # r => guess'[o] = guess[o]
    BY <1>3 DEF Verify
  <2>2. /\ verification.status \notin {"none", "verified"} /\ guess[r].pc = "idle"
        /\ UNCHANGED <<verification, pending, answered, confirmed, guessStale, guessRaced, unsaved>>
    BY <1>3 DEF Verify, aadhaarHistory
  <2>3. q.new = [status |-> verification.status, attempts |-> verification.attempts + 1]
    OBVIOUS
  <2>4. GuessShape'
    <3>1. q \in [pc : {"idle", "send", "ask", "save"}, right : BOOLEAN, old : GuessRecord, new : GuessRecord]
      BY <2>3
    <3>2. guess' = [guess EXCEPT ![r] = q]
      BY <1>3 DEF Verify
    <3>3. QED
      BY <2>2, <3>1, <3>2
  <2>5. UnbornInv' /\ AadhaarSendInv'
    BY <2>1, <2>2 DEF UnbornInv, AadhaarSendInv
  <2>6. GuessSaving' = GuessSaving /\ \A o \in GuessSaving : guess'[o] = guess[o]
    BY <2>1, <2>2 DEF GuessSaving
  <2>7. ConfirmInv' /\ AadhaarCountInv'
    BY <2>2, <2>6 DEF ConfirmInv, AadhaarCountInv, Counts
  <2>8. GuessInv'
    BY <2>1, <2>2, <2>3 DEF GuessInv
  <2>9. QED
    BY <2>4, <2>5, <2>7, <2>8
<1>4. ASSUME NEW r \in Requests, ProviderVerifies(r) PROVE AadhaarIInv'
  <2> DEFINE ok == pending /\ guess[r].right
             new == [status |-> StatusAfter(guess[r].new, ok), attempts |-> guess[r].new.attempts]
             q == [pc |-> "save", right |-> ok, old |-> guess[r].old, new |-> new]
  <2>1. /\ guess[r].pc = "ask" /\ guess' = [guess EXCEPT ![r] = q]
        /\ pending' = (pending /\ ~ok) /\ answered' = answered + 1
        /\ confirmed' = IF ok THEN confirmed + 1 ELSE confirmed
        /\ UNCHANGED <<verification, guessStale, guessRaced, unsaved>>
    BY <1>4 DEF ProviderVerifies, PendingAfter
  <2>2. guess'[r] = q /\ \A o \in Requests : o # r => guess'[o] = guess[o]
    BY <2>1
  <2>3. /\ guess[r].old.status # "verified" /\ guess[r].new.status = guess[r].old.status
        /\ guess[r].new.status # "none"
        /\ guess[r].new.attempts = guess[r].old.attempts + 1
        /\ r \notin guessStale => guess[r].old = verification
    BY <2>1 DEF GuessInv
  <2>4. /\ new.status = IF ok THEN "verified" ELSE IF new.attempts >= MaxAttempts THEN "failed"
                        ELSE guess[r].old.status
        /\ new.attempts = guess[r].old.attempts + 1
    BY <2>3 DEF StatusAfter
  <2>5. verification.status # "none"
    BY <2>1 DEF UnbornInv
  <2>6. GuessShape'
    <3>1. guess[r] \in [pc : {"idle", "send", "ask", "save"}, right : BOOLEAN,
                        old : GuessRecord, new : GuessRecord]
      OBVIOUS
    <3>2. new \in GuessRecord
      BY <2>4, <3>1
    <3>3. q \in [pc : {"idle", "send", "ask", "save"}, right : BOOLEAN, old : GuessRecord, new : GuessRecord]
      BY <3>1, <3>2
    <3>4. QED
      BY <2>1, <3>3
  <2>7. UnbornInv' /\ AadhaarSendInv'
    BY <2>1, <2>2, <2>5 DEF UnbornInv, AadhaarSendInv
  <2>8. GuessSaving' = GuessSaving \cup {r} /\ r \notin GuessSaving /\ \A o \in GuessSaving : guess'[o] = guess[o]
    BY <2>1, <2>2 DEF GuessSaving
  <2> HIDE DEF new, q
  <2>9. ConfirmInv'
    <3>1. guess'[r].new = new
      BY <2>2 DEF q
    <3>2. CASE ok
      <4>1. confirmed' = 1 /\ ~pending'
        <5>1. confirmed' = confirmed + 1
          BY <2>1, <3>2
        <5>2. confirmed = 0
          BY <3>2, Zenon DEF ConfirmInv
        <5>3. ~pending'
          BY <2>1, <3>2, Zenon
        <5>4. QED
          BY <5>1, <5>2, <5>3
      <4>2. QED
        BY <4>1 DEF ConfirmInv
    <3>3. CASE ~ok
      <4>1. confirmed' = confirmed /\ pending' = pending /\ verification' = verification
        BY <2>1, <3>3
      <4>2. new.status # "verified"
        BY <2>3, <2>4, <3>3
      <4>3. \A o \in GuessSaving' : guess'[o].new.status = "verified" => confirmed = 1
        BY <2>8, <3>1, <4>2 DEF ConfirmInv
      <4>4. QED
        BY <4>1, <4>3 DEF ConfirmInv
    <3>4. QED
      BY <3>2, <3>3
  <2>10. GuessInv'
    BY <2>1, <2>2, <2>3, <2>4 DEF GuessInv, q
  <2>11. AadhaarCountInv'
    <3> SUFFICES ASSUME ~guessRaced, ~unsaved, GuessSaving = {}, r \notin guessStale
                 PROVE  /\ new.attempts = answered'
                        /\ confirmed' = 1 => new.status = "verified"
                        /\ confirmed' = 0 => (new.status = "failed" <=> answered' >= MaxAttempts)
      <4>1. guess'[r].new = new
        BY <2>2 DEF q
      <4>2. QED
        BY <2>1, <2>8, <4>1 DEF AadhaarCountInv, Counts
    <3>1. Counts(verification) /\ guess[r].old = verification
      BY <2>3 DEF AadhaarCountInv
    <3>2. CASE ok
      <4>1. confirmed' = 1 /\ answered' = answered + 1
        BY <2>1, <3>2 DEF ConfirmInv
      <4>2. new.status = "verified" /\ new.attempts = answered + 1
        BY <2>4, <3>1, <3>2 DEF Counts
      <4>3. QED
        BY <4>1, <4>2
    <3>3. CASE ~ok
      <4>1. confirmed' = confirmed /\ answered' = answered + 1 /\ new.attempts = answered + 1
        BY <2>1, <2>4, <3>1, <3>3 DEF Counts
      <4>2. confirmed = 0 /\ (verification.status = "failed" <=> answered >= MaxAttempts)
        BY <2>3, <3>1 DEF Counts, ConfirmInv
      <4>3. new.status = IF answered + 1 >= MaxAttempts THEN "failed" ELSE verification.status
        BY <2>4, <3>1, <3>3, <4>1
      <4>4. QED
        BY <4>1, <4>2, <4>3
    <3>4. QED
      BY <3>2, <3>3
  <2>12. QED
    BY <2>6, <2>7, <2>9, <2>10, <2>11
<1>5. CASE PasswordLost
  <2>1. pending' = FALSE /\ UNCHANGED <<verification, guess, guesses, aadhaarHistory>>
    BY <1>5 DEF PasswordLost
  <2>2. GuessShape'
    BY <2>1, Zenon DEF aadhaarHistory
  <2>3. UnbornInv' /\ AadhaarSendInv' /\ GuessInv'
    BY <2>1 DEF aadhaarHistory, UnbornInv, AadhaarSendInv, GuessInv
  <2>4. ConfirmInv' /\ AadhaarCountInv'
    BY <2>1 DEF aadhaarHistory, ConfirmInv, AadhaarCountInv, Counts, GuessSaving
  <2>5. QED
    BY <2>2, <2>3, <2>4
<1>6. ASSUME NEW r \in Requests, SaveVerification(r) PROVE AadhaarIInv'
  <2>1. /\ guess[r].pc = "save" /\ guess' = [guess EXCEPT ![r] = NoGuess]
        /\ verification' = [status |-> Saved(verification.status, guess[r].old.status, guess[r].new.status),
                            attempts |-> Saved(verification.attempts, guess[r].old.attempts, guess[r].new.attempts)]
        /\ guessStale' = (guessStale \cup {o \in Requests : guess[o].pc \in {"ask", "save"}}) \ {r}
        /\ guessRaced' = (guessRaced \/ r \in guessStale)
        /\ UNCHANGED <<pending, answered, confirmed, unsaved>>
    BY <1>6 DEF SaveVerification
  <2>2. guess'[r] = NoGuess /\ \A o \in Requests : o # r => guess'[o] = guess[o]
    BY <2>1
  <2>3. verification.status # "none" /\ guess[r].new.status # "none"
    BY <2>1 DEF UnbornInv, GuessInv
  <2>4. GuessShape'
    BY <2>1 DEF Saved, NoGuess, NoVerification
  <2>5. verification'.status \in {verification.status, guess[r].new.status}
    BY <2>1 DEF Saved
  <2>6. UnbornInv' /\ AadhaarSendInv'
    BY <2>1, <2>2, <2>3, <2>5 DEF UnbornInv, AadhaarSendInv, NoGuess
  <2>7. GuessSaving' = GuessSaving \ {r} /\ r \in GuessSaving /\ \A o \in GuessSaving' : guess'[o] = guess[o]
    BY <2>1, <2>2 DEF GuessSaving, NoGuess
  <2>8. ConfirmInv'
    BY <2>1, <2>5, <2>7 DEF ConfirmInv
  <2>9. GuessInv'
    BY <2>1, <2>2 DEF GuessInv, NoGuess
  <2>10. AadhaarCountInv'
    <3>1. \A o \in GuessSaving' : o \in guessStale'
      BY <2>1, <2>7 DEF GuessSaving
    <3>2. ASSUME ~guessRaced', ~unsaved', GuessSaving' = {} PROVE Counts(verification)'
      <4>1. ~guessRaced /\ ~unsaved /\ GuessSaving = {r} /\ r \notin guessStale
        <5>1. ~guessRaced /\ ~unsaved /\ r \notin guessStale
          BY <2>1, <3>2, Zenon
        <5>2. GuessSaving = {r}
          BY <2>7, <3>2
        <5>3. QED
          BY <5>1, <5>2
      <4>2. Counts(guess[r].new)
        BY <2>7, <4>1 DEF AadhaarCountInv
      <4>3. verification' = guess[r].new
        BY <2>1, <4>1 DEF Saved, GuessInv
      <4>4. QED
        BY <2>1, <4>2, <4>3 DEF Counts
    <3>3. QED
      BY <3>1, <3>2 DEF AadhaarCountInv
  <2>11. QED
    BY <2>4, <2>6, <2>8, <2>9, <2>10
<1>7. ASSUME NEW r \in Requests, GuessDies(r) PROVE AadhaarIInv'
  <2>1. /\ guess[r].pc # "idle" /\ guess' = [guess EXCEPT ![r] = NoGuess]
        /\ guessStale' = guessStale \ {r} /\ unsaved' = (unsaved \/ guess[r].pc = "save")
        /\ UNCHANGED <<verification, pending, answered, confirmed, guessRaced>>
    BY <1>7 DEF GuessDies
  <2>2. guess'[r] = NoGuess /\ \A o \in Requests : o # r => guess'[o] = guess[o]
    BY <2>1
  <2>3. GuessShape'
    BY <2>1 DEF NoGuess, NoVerification
  <2>4. UnbornInv' /\ AadhaarSendInv' /\ GuessInv'
    BY <2>1, <2>2 DEF UnbornInv, AadhaarSendInv, GuessInv, NoGuess
  <2>5. GuessSaving' = GuessSaving \ {r} /\ \A o \in GuessSaving' : guess'[o] = guess[o]
    BY <2>1, <2>2 DEF GuessSaving, NoGuess
  <2>6. ConfirmInv'
    BY <2>1, <2>5 DEF ConfirmInv
  <2>7. AadhaarCountInv'
    <3> SUFFICES ASSUME ~guessRaced, ~unsaved, guess[r].pc # "save" PROVE AadhaarCountInv'
      BY <2>1 DEF AadhaarCountInv
    <3>1. GuessSaving' = GuessSaving
      BY <2>5 DEF GuessSaving
    <3>2. QED
      BY <2>1, <2>5, <3>1 DEF AadhaarCountInv, Counts
  <2>8. QED
    BY <2>3, <2>4, <2>6, <2>7
<1>8. CASE UNCHANGED aadhaarVars
  BY <1>8 DEF aadhaarVars, aadhaarHistory, UnbornInv, AadhaarSendInv, ConfirmInv, GuessInv, AadhaarCountInv,
              Counts, GuessSaving
<1>9. QED
  BY <1>1, <1>2, <1>3, <1>4, <1>5, <1>6, <1>7, <1>8, Zenon DEF AadhaarNext

\* The inductive invariant of a verification holds in every reachable state.
THEOREM AadhaarInvariance == AadhaarSpec => []AadhaarIInv
BY AadhaarInitInv, AadhaarNextInv, PTL DEF AadhaarSpec

\* aadhaar.service.ts 37-55: one guess at most is confirmed, and unless one was
\* saved over another or died unsaved the attempts are those that were answered.
THEOREM AttemptsAreCounted == AadhaarSpec => []AttemptsCounted
<1>1. AadhaarIInv => AttemptsCounted
  BY DEF AadhaarIInv, AttemptsCounted, ConfirmInv, AadhaarCountInv, Counts, GuessSaving, GuessShape
<1>2. QED
  BY <1>1, AadhaarInvariance, PTL

\* Each guess that was begun is answered once at most, and counted once at most
\* by whoever has read the document.
Asking == {r \in Requests : guess[r].pc = "ask"}
AskInv ==
  /\ guesses \in 0..MaxGuesses /\ confirmed <= answered
  /\ guessRaced \in BOOLEAN /\ unsaved \in BOOLEAN
  /\ IsFiniteSet(Asking) /\ answered + Cardinality(Asking) <= guesses
  /\ verification.attempts <= guesses
  /\ \A r \in Requests : guess[r].old.attempts <= guesses /\ guess[r].new.attempts <= guesses

LEMMA AskInitInv == AadhaarInit => AskInv
<1> SUFFICES ASSUME AadhaarInit PROVE AskInv
  OBVIOUS
<1>1. Asking = {}
  BY DEF AadhaarInit, Asking, NoGuess
<1>2. IsFiniteSet(Asking) /\ Cardinality(Asking) = 0
  BY <1>1, FS_EmptySet
<1>3. /\ guesses = 0 /\ answered = 0 /\ confirmed = 0 /\ verification.attempts = 0
      /\ guessRaced \in BOOLEAN /\ unsaved \in BOOLEAN
      /\ \A r \in Requests : guess[r].old.attempts = 0 /\ guess[r].new.attempts = 0
  BY DEF AadhaarInit, NoGuess, NoVerification
<1>4. guesses \in 0..MaxGuesses /\ 0 + 0 <= 0
  BY <1>3, AadhaarAssumption
<1>5. QED
  BY <1>2, <1>3, <1>4 DEF AskInv

\* One request goes from where it is to q, and the counters follow.
LEMMA AskMoves ==
  ASSUME GuessShape, AskInv, NEW r \in Requests, NEW q,
         guess' = [guess EXCEPT ![r] = q],
         q.old.attempts <= guesses', q.new.attempts <= guesses', guesses' \in 0..MaxGuesses,
         verification'.attempts <= guesses', confirmed' <= answered',
         guessRaced' \in BOOLEAN, unsaved' \in BOOLEAN,
         \/ guesses' = guesses /\ answered' = answered /\ q.pc # "ask"
         \/ guesses' = guesses /\ answered' = answered + 1 /\ q.pc # "ask" /\ guess[r].pc = "ask"
         \/ guesses' = guesses + 1 /\ answered' = answered /\ q.pc = "ask" /\ guess[r].pc # "ask"
  PROVE  AskInv'
<1>1. \A o \in Requests : guess'[o] = IF o = r THEN q ELSE guess[o]
  BY DEF GuessShape
<1>2. guesses \in Nat /\ guesses' \in Nat /\ guesses <= guesses'
  BY AadhaarAssumption DEF AskInv
<1>3. \A o \in Requests : guess'[o].old.attempts <= guesses' /\ guess'[o].new.attempts <= guesses'
  <2>1. \A o \in Requests : /\ guess[o].old.attempts \in Nat /\ guess[o].new.attempts \in Nat
                            /\ guess[o].old.attempts <= guesses /\ guess[o].new.attempts <= guesses
    BY DEF GuessShape, GuessRecord, AskInv
  <2>2. \A o \in Requests : guess[o].old.attempts <= guesses' /\ guess[o].new.attempts <= guesses'
    BY <1>2, <2>1
  <2>3. QED
    BY <1>1, <2>2
<1>4. /\ IsFiniteSet(Asking) /\ Cardinality(Asking) \in Nat /\ answered \in Nat
      /\ answered + Cardinality(Asking) <= guesses
  BY FS_CardinalityType DEF GuessShape, AskInv
<1>5. IsFiniteSet(Asking') /\ answered' + Cardinality(Asking') <= guesses'
  <2>1. CASE q.pc = "ask"
    <3>1. Asking' = Asking \cup {r} /\ r \notin Asking /\ guesses' = guesses + 1 /\ answered' = answered
      BY <1>1, <2>1 DEF Asking
    <3>2. IsFiniteSet(Asking') /\ Cardinality(Asking') = Cardinality(Asking) + 1
      BY <1>4, <3>1, FS_AddElement
    <3>3. QED
      BY <1>2, <1>4, <3>1, <3>2
  <2>2. CASE q.pc # "ask" /\ r \in Asking
    <3>1. Asking' = Asking \ {r} /\ guesses' = guesses /\ answered' \in {answered, answered + 1}
      BY <1>1, <2>2 DEF Asking
    <3>2. IsFiniteSet(Asking') /\ Cardinality(Asking') = Cardinality(Asking) - 1
      BY <1>4, <2>2, <3>1, FS_RemoveElement
    <3>3. QED
      BY <1>2, <1>4, <3>1, <3>2
  <2>3. CASE q.pc # "ask" /\ r \notin Asking
    <3>1. Asking' = Asking /\ guesses' = guesses /\ answered' = answered
      BY <1>1, <2>3 DEF Asking
    <3>2. QED
      BY <1>4, <3>1
  <2>4. QED
    BY <2>1, <2>2, <2>3
<1>6. QED
  BY <1>3, <1>5 DEF AskInv

LEMMA AskNextInv == AadhaarIInv /\ AskInv /\ [AadhaarNext]_aadhaarVars => AskInv'
<1> SUFFICES ASSUME AadhaarIInv, AskInv, [AadhaarNext]_aadhaarVars PROVE AskInv'
  OBVIOUS
<1>0. /\ GuessShape /\ guesses \in Nat /\ answered \in Nat /\ confirmed \in {0, 1} /\ guesses \in 0..MaxGuesses
      /\ verification.attempts \in Nat /\ verification.attempts <= guesses /\ confirmed <= answered
      /\ guessRaced \in BOOLEAN /\ unsaved \in BOOLEAN
  BY DEF AadhaarIInv, GuessShape, GuessRecord, ConfirmInv, AskInv
<1>1. NoGuess.pc # "ask" /\ NoGuess.old.attempts <= guesses /\ NoGuess.new.attempts <= guesses /\ 0 <= guesses
  <2>1. NoGuess.pc # "ask" /\ NoGuess.old.attempts = 0 /\ NoGuess.new.attempts = 0
    BY DEF NoGuess, NoVerification
  <2>2. QED
    BY <1>0, <2>1
<1>2. \A r \in Requests : /\ guess[r].old.attempts \in Nat /\ guess[r].new.attempts \in Nat
                          /\ guess[r].old.attempts <= guesses /\ guess[r].new.attempts <= guesses
  BY <1>0 DEF GuessShape, GuessRecord, AskInv
<1>3. CASE PasswordLost \/ UNCHANGED aadhaarVars
  BY <1>3 DEF PasswordLost, aadhaarVars, aadhaarHistory, AskInv, Asking
<1>4. ASSUME NEW r \in Requests, Initiate(r) PROVE AskInv'
  <2>1. PICK q : q = [guess[r] EXCEPT !.pc = "send"]
    OBVIOUS
  <2>2. q.pc = "send" /\ q.old = guess[r].old /\ q.new = guess[r].new /\ guess' = [guess EXCEPT ![r] = q]
    BY <1>0, <1>4, <2>1 DEF Initiate, GuessShape
  <2>3. UNCHANGED <<verification, guesses, answered, confirmed, guessRaced, unsaved>>
    BY <1>4 DEF Initiate, aadhaarHistory
  <2>4. QED
    BY <1>0, <1>2, <2>2, <2>3, AskMoves
<1>5. ASSUME NEW r \in Requests, CreateVerification(r) PROVE AskInv'
  <2>1. /\ guess' = [guess EXCEPT ![r] = NoGuess] /\ verification'.attempts = 0
        /\ UNCHANGED <<guesses, answered, confirmed, guessRaced, unsaved>>
    BY <1>5 DEF CreateVerification, aadhaarHistory
  <2>2. QED
    BY <1>0, <1>1, <2>1, AskMoves
<1>6. ASSUME NEW r \in Requests, NEW right \in BOOLEAN, Verify(r, right) PROVE AskInv'
  <2>1. PICK v : v = [verification EXCEPT !.attempts = @ + 1]
    OBVIOUS
  <2>2. PICK q : q = [pc |-> "ask", right |-> right, old |-> verification, new |-> v]
    OBVIOUS
  <2>3. v.attempts = verification.attempts + 1
    BY <1>0, <2>1 DEF GuessShape, GuessRecord
  <2>4. /\ guess' = [guess EXCEPT ![r] = q] /\ guess[r].pc = "idle"
        /\ guesses < MaxGuesses /\ guesses' = guesses + 1
        /\ UNCHANGED <<verification, answered, confirmed, guessRaced, unsaved>>
    <3>1. /\ guess[r].pc = "idle" /\ guesses < MaxGuesses /\ guesses' = guesses + 1
          /\ UNCHANGED <<verification, answered, confirmed, guessRaced, unsaved>>
      BY <1>6, Zenon DEF Verify, aadhaarHistory
    <3>2. guess' = [guess EXCEPT ![r] = q]
      BY <1>6, <2>1, <2>2, Zenon DEF Verify
    <3>3. QED
      BY <3>1, <3>2
  <2>5. q.pc = "ask" /\ q.old.attempts = verification.attempts /\ q.new.attempts = verification.attempts + 1
    BY <2>2, <2>3
  <2>6. guesses' \in 0..MaxGuesses /\ verification.attempts <= guesses' /\ verification.attempts + 1 <= guesses'
    BY <1>0, <2>4, AadhaarAssumption
  <2>7. QED
    BY <1>0, <2>4, <2>5, <2>6, AskMoves
<1>7. ASSUME NEW r \in Requests, ProviderVerifies(r) PROVE AskInv'
  <2>1. PICK q : /\ guess' = [guess EXCEPT ![r] = q] /\ q.pc = "save"
                 /\ q.old = guess[r].old /\ q.new.attempts = guess[r].new.attempts
    <3>1. PICK status, ok :
            guess' = [guess EXCEPT ![r] = [pc |-> "save", right |-> ok, old |-> guess[r].old,
                        new |-> [status |-> status, attempts |-> guess[r].new.attempts]]]
      BY <1>7, Zenon DEF ProviderVerifies
    <3>2. PICK a : a = [pc |-> "save", right |-> ok, old |-> guess[r].old,
                        new |-> [status |-> status, attempts |-> guess[r].new.attempts]]
      OBVIOUS
    <3>3. guess' = [guess EXCEPT ![r] = a]
      BY <3>1, <3>2, Zenon
    <3>4. a.pc = "save" /\ a.old = guess[r].old /\ a.new.attempts = guess[r].new.attempts
      BY <3>2
    <3>5. QED
      BY <3>3, <3>4
  <2>2. /\ guess[r].pc = "ask" /\ answered' = answered + 1 /\ confirmed' \in {confirmed, confirmed + 1}
        /\ UNCHANGED <<verification, guesses, guessRaced, unsaved>>
    BY <1>7 DEF ProviderVerifies
  <2>3. confirmed' <= answered'
    BY <1>0, <2>2
  <2>4. QED
    BY <1>0, <1>2, <2>1, <2>2, <2>3, AskMoves
<1>8. ASSUME NEW r \in Requests, SaveVerification(r) PROVE AskInv'
  <2>1. /\ guess' = [guess EXCEPT ![r] = NoGuess]
        /\ verification'.attempts \in {verification.attempts, guess[r].new.attempts}
        /\ guessRaced' = (guessRaced \/ r \in guessStale)
        /\ UNCHANGED <<guesses, answered, confirmed, unsaved>>
    BY <1>8 DEF SaveVerification, Saved
  <2>2. verification'.attempts <= guesses
    BY <1>0, <1>2, <2>1
  <2>3. guessRaced' \in BOOLEAN
    BY <2>1, Zenon
  <2>4. QED
    BY <1>0, <1>1, <2>1, <2>2, <2>3, AskMoves
<1>9. ASSUME NEW r \in Requests, GuessDies(r) PROVE AskInv'
  <2>1. /\ guess' = [guess EXCEPT ![r] = NoGuess]
        /\ unsaved' = (unsaved \/ guess[r].pc = "save")
        /\ UNCHANGED <<verification, guesses, answered, confirmed, guessRaced>>
    BY <1>9 DEF GuessDies
  <2>2. unsaved' \in BOOLEAN
    BY <2>1, Zenon
  <2>3. QED
    BY <1>0, <1>1, <2>1, <2>2, AskMoves
<1>10. QED
  BY <1>3, <1>4, <1>5, <1>6, <1>7, <1>8, <1>9 DEF AadhaarNext

\* Every variable of AadhaarGate keeps its type, the bounds included: attempts
\* never run ahead of the requests to verify.
THEOREM AadhaarTypes == AadhaarSpec => []AadhaarTypeOK
<1>1. AadhaarIInv /\ AskInv => AadhaarTypeOK
  <2> SUFFICES ASSUME AadhaarIInv, AskInv PROVE AadhaarTypeOK
    OBVIOUS
  <2>1. GuessShape /\ guesses \in 0..MaxGuesses /\ guesses \in Nat
    BY DEF AadhaarIInv, AskInv
  <2>2. ASSUME NEW v \in GuessRecord, v.attempts <= guesses PROVE v \in Verification
    BY <2>1, <2>2, AadhaarAssumption DEF GuessRecord, Verification
  <2>3. verification \in Verification
    BY <2>1, <2>2 DEF GuessShape, AskInv
  <2>4. guess \in [Requests -> Guess]
    <3>1. ASSUME NEW r \in Requests PROVE guess[r] \in Guess
      <4>1. /\ guess[r] \in [pc : {"idle", "send", "ask", "save"}, right : BOOLEAN,
                             old : GuessRecord, new : GuessRecord]
        BY <2>1 DEF GuessShape
      <4>2. guess[r].old \in Verification /\ guess[r].new \in Verification
        BY <2>2, <4>1 DEF AskInv
      <4>3. QED
        BY <4>1, <4>2 DEF Guess
    <3>2. QED
      BY <2>1, <3>1 DEF GuessShape
  <2>5. answered \in 0..MaxGuesses /\ confirmed \in 0..MaxGuesses
    <3>1. Cardinality(Asking) \in Nat /\ answered \in Nat /\ confirmed \in Nat
      BY <2>1, FS_CardinalityType DEF GuessShape, AskInv, AadhaarIInv, ConfirmInv
    <3>2. answered + Cardinality(Asking) <= guesses /\ confirmed <= answered
      BY DEF AskInv
    <3>3. QED
      BY <2>1, <3>1, <3>2, AadhaarAssumption
  <2>6. QED
    BY <2>1, <2>3, <2>4, <2>5, Zenon DEF AadhaarTypeOK, GuessShape, AskInv
<1>2. AadhaarSpec => []AskInv
  BY AskInitInv, AskNextInv, AadhaarInvariance, PTL DEF AadhaarSpec
<1>3. QED
  BY <1>1, <1>2, AadhaarInvariance, PTL

(***************************************************************************)
(* The owner of an organisation.                                           *)
(***************************************************************************)
Registering == {r \in Requests : auth[r].pc \in {"user", "owner"}}

\* The types without the bounds on requests.
AuthFlight == [pc     : {"idle", "org", "user", "owner", "email", "link",
                     "burn", "rotate", "sign", "insert"},
           google : BOOLEAN,
           org    : Orgs \cup {None},
           family : Families \cup {None},
           doc    : Nat,
           signed : Nat]
Issue == [signed : Nat, revoked : BOOLEAN]

AccountShape ==
  /\ orgs \in [Orgs -> {"none", "made", "owned"}]
  /\ account \in Account
  /\ auth \in [Requests -> AuthFlight]

TokenShape == second \in Nat /\ tokens \in [Families -> Seq(Issue)]

\* Each registration has made an organisation of its own, and one that has
\* created the user shares it with the account.
RegisterInv ==
  /\ Registered => account.org \in Orgs
  /\ \A r \in Requests : auth[r].pc \in {"user", "owner", "email"} => auth[r].org \in Orgs
  /\ \A r \in Requests : auth[r].pc \in {"owner", "email"} => account.org = auth[r].org
  /\ \A r \in Requests : auth[r].pc = "link" => Registered
  /\ \A r \in Registering : orgs[auth[r].org] = "made"
  /\ \A r, o \in Registering : auth[r].org = auth[o].org => r = o

OwnedInv == \A o \in Orgs : orgs[o] = "owned" => account.org = o

MadeInv ==
  ~authDied => \A o \in Orgs : orgs[o] = "made" /\ o \notin losers =>
                 \E r \in Registering : auth[r].org = o

SessionsIInv == AccountShape /\ TokenShape /\ RegisterInv /\ OwnedInv /\ MadeInv

LEMMA SessionsInitInv == SessionsInit => SessionsIInv
<1> SUFFICES ASSUME SessionsInit PROVE SessionsIInv
  OBVIOUS
<1> USE SessionsAssumption DEF SessionsInit, Away, NoAccount
<1>1. AccountShape /\ TokenShape
  BY DEF AccountShape, TokenShape, Account, AuthFlight
<1>2. RegisterInv /\ OwnedInv /\ MadeInv
  BY DEF RegisterInv, OwnedInv, MadeInv, Registering, Registered
<1>3. QED
  BY <1>1, <1>2 DEF SessionsIInv

\* What becomes of the tokens when a family, or all of them, is revoked, a token
\* is rotated or a new one is inserted.
LEMMA RevokedType == ASSUME TokenShape, NEW f \in Families PROVE Revoked(f) \in Seq(Issue)
<1>1. tokens[f] \in Seq(Issue)
  BY DEF TokenShape
<1>2. \A i \in DOMAIN tokens[f] : [tokens[f][i] EXCEPT !.revoked = TRUE] \in Issue
  <2> SUFFICES ASSUME NEW i \in DOMAIN tokens[f]
               PROVE  [tokens[f][i] EXCEPT !.revoked = TRUE] \in Issue
    OBVIOUS
  <2>1. tokens[f][i] \in Issue
    BY <1>1
  <2>2. QED
    BY <2>1 DEF Issue
<1>3. DOMAIN tokens[f] = 1..Len(tokens[f]) /\ Len(tokens[f]) \in Nat
  BY <1>1
<1>4. Revoked(f) \in [1..Len(tokens[f]) -> Issue]
  BY <1>2, <1>3 DEF Revoked
<1>5. QED
  BY <1>3, <1>4

LEMMA TokenNext == SessionsIInv /\ [SessionsNext]_authVars => TokenShape'
<1> SUFFICES ASSUME AccountShape, TokenShape, [SessionsNext]_authVars PROVE TokenShape'
  BY DEF SessionsIInv
<1>1. ASSUME NEW r \in Requests, RevokeFamily(r) PROVE TokenShape'
  <2>1. CASE auth[r].family \in Families
    BY <1>1, <2>1, RevokedType DEF RevokeFamily, TokenShape
  <2>2. CASE auth[r].family \notin Families
    BY <1>1, <2>2 DEF RevokeFamily, TokenShape
  <2>3. QED
    BY <2>1, <2>2
<1>2. ASSUME NEW r \in Requests, Rotate(r) PROVE TokenShape'
  <2> DEFINE f == auth[r].family
             d == auth[r].doc
             next == [tokens[f] EXCEPT ![d] = [signed |-> tokens[f][d].signed, revoked |-> TRUE]]
  <2>1. tokens' = [tokens EXCEPT ![f] = next] /\ second' = second
    BY <1>2 DEF Rotate
  <2>2. ASSUME f \in Families PROVE next \in Seq(Issue)
    <3>1. tokens[f] \in Seq(Issue)
      BY <2>2 DEF TokenShape
    <3>2. CASE d \in DOMAIN tokens[f]
      <4>1. tokens[f][d] \in Issue
        BY <3>1, <3>2
      <4>2. [signed |-> tokens[f][d].signed, revoked |-> TRUE] \in Issue
        BY <4>1 DEF Issue
      <4>3. QED
        BY <3>1, <3>2, <4>2
    <3>3. CASE d \notin DOMAIN tokens[f]
      <4>1. next = tokens[f]
        BY <3>1, <3>3
      <4>2. QED
        BY <3>1, <4>1
    <3>4. QED
      BY <3>2, <3>3
  <2> HIDE DEF next
  <2>3. QED
    BY <2>1, <2>2 DEF TokenShape
<1>3. ASSUME NEW r \in Requests, InsertToken(r) PROVE TokenShape'
  <2> DEFINE f == auth[r].family
             new == [signed |-> auth[r].signed, revoked |-> FALSE]
  <2>1. tokens' = [tokens EXCEPT ![f] = Append(tokens[f], new)] /\ second' = second
    BY <1>3 DEF InsertToken
  <2>2. new \in Issue
    BY DEF AccountShape, AuthFlight, Issue
  <2> HIDE DEF new
  <2>3. f \in Families => Append(tokens[f], new) \in Seq(Issue)
    BY <2>2 DEF TokenShape
  <2>4. QED
    BY <2>1, <2>3, Zenon DEF TokenShape
<1>4. CASE Logout
  BY <1>4, RevokedType DEF Logout, TokenShape
<1>5. CASE Tick
  BY <1>5 DEF Tick, TokenShape
<1>6. ASSUME NEW r \in Requests,
             \/ Register(r) \/ Login(r) \/ LoginWithGoogle(r)
             \/ \E o \in Orgs : CreateForOwner(r, o)
             \/ CreateUser(r) \/ SetOwner(r) \/ MarkEmailVerified(r) \/ LinkGoogle(r)
             \/ \E f \in Families, signed \in Seconds : Refresh(r, f, signed)
             \/ SignRefresh(r) \/ AuthDies(r)
      PROVE  TokenShape'
  BY <1>6 DEF Register, Login, LoginWithGoogle, Enters, CreateForOwner, CreateUser, SetOwner,
              MarkEmailVerified, LinkGoogle, Refresh, SignRefresh, AuthDies, TokenShape
<1>7. CASE UNCHANGED authVars
  BY <1>7 DEF authVars, TokenShape
<1>8. QED
  BY <1>1, <1>2, <1>3, <1>4, <1>5, <1>6, <1>7, Zenon DEF SessionsNext

\* Tokens apart, what the next step has to keep.
AccountRest == AccountShape /\ RegisterInv /\ OwnedInv /\ MadeInv

\* A request that begins, or goes on without being about to register.
LEMMA ElsewhereInv ==
  ASSUME AccountRest, UNCHANGED <<orgs, account, losers>>, authDied' = authDied,
         NEW r \in Requests, r \notin Registering,
         NEW q \in AuthFlight, auth' = [auth EXCEPT ![r] = q],
         q.pc \in {"idle", "org", "link", "burn", "rotate", "sign", "insert"},
         q.pc = "link" => Registered
  PROVE  AccountRest'
<1>1. \A o \in Requests : o # r => auth'[o] = auth[o]
  BY DEF AccountRest, AccountShape
<1>2. auth'[r] = q
  BY DEF AccountRest, AccountShape
<1>3. AccountShape'
  BY DEF AccountRest, AccountShape
<1>4. Registering' = Registering /\ \A o \in Registering : auth'[o] = auth[o]
  BY <1>1, <1>2 DEF Registering
<1>5. RegisterInv'
  BY <1>1, <1>2, <1>4 DEF AccountRest, RegisterInv, Registered
<1>6. OwnedInv' /\ MadeInv'
  BY <1>4 DEF AccountRest, OwnedInv, MadeInv
<1>7. QED
  BY <1>3, <1>5, <1>6 DEF AccountRest

LEMMA AwayType == Away \in AuthFlight /\ Away.pc = "idle"
BY DEF Away, AuthFlight

LEMMA AccountRestNext == SessionsIInv /\ [SessionsNext]_authVars => AccountRest'
<1> SUFFICES ASSUME SessionsIInv, [SessionsNext]_authVars PROVE AccountRest'
  OBVIOUS
<1>0. AccountRest /\ TokenShape /\ AccountShape /\ RegisterInv /\ OwnedInv /\ MadeInv
  BY DEF SessionsIInv, AccountRest
<1>1. ASSUME NEW r \in Requests, Register(r) \/ Login(r) \/ LoginWithGoogle(r) PROVE AccountRest'
  <2>1. PICK q \in AuthFlight : /\ auth' = [auth EXCEPT ![r] = q]
                                /\ q.pc \in {"org", "sign", "link"}
                                /\ q.pc = "link" => Registered
    <3>1. CASE Register(r)
      <4>1. [Away EXCEPT !.pc = "org"] \in AuthFlight
        BY AwayType DEF AuthFlight
      <4>2. QED
        BY <3>1, <4>1 DEF Register, Enters, Away
    <3>2. CASE Login(r)
      <4>1. [Away EXCEPT !.pc = "sign"] \in AuthFlight
        BY AwayType DEF AuthFlight
      <4>2. QED
        BY <3>2, <4>1 DEF Login, Enters, Away
    <3>3. CASE LoginWithGoogle(r)
      <4> DEFINE next == IF ~Registered THEN "org" ELSE IF account.google THEN "sign" ELSE "link"
                 q == [Away EXCEPT !.google = TRUE, !.pc = next]
      <4>1. auth' = [auth EXCEPT ![r] = q]
        BY <3>3 DEF LoginWithGoogle, Enters
      <4>2. next \in {"org", "sign", "link"} /\ (next = "link" => Registered)
        OBVIOUS
      <4> HIDE DEF next
      <4>3. q \in AuthFlight /\ q.pc = next
        BY <4>2, AwayType DEF AuthFlight
      <4> HIDE DEF q
      <4>4. QED
        BY <4>1, <4>2, <4>3
    <3>4. QED
      BY <1>1, <3>1, <3>2, <3>3, Zenon
  <2>2. r \notin Registering /\ UNCHANGED <<orgs, account, losers, authDied>>
    BY <1>1 DEF Register, Login, LoginWithGoogle, Enters, Registering
  <2>3. QED
    BY <1>0, <2>1, <2>2, ElsewhereInv
<1>2. ASSUME NEW r \in Requests, NEW o \in Orgs, CreateForOwner(r, o) PROVE AccountRest'
  <2>1. /\ auth[r].pc = "org" /\ orgs[o] = "none"
        /\ orgs' = [orgs EXCEPT ![o] = "made"]
        /\ auth' = [auth EXCEPT ![r].pc = "user", ![r].org = o]
        /\ UNCHANGED <<account, losers, authDied>>
    BY <1>2 DEF CreateForOwner, authHistory
  <2>2. /\ auth'[r] = [auth[r] EXCEPT !.pc = "user", !.org = o]
        /\ \A p \in Requests : p # r => auth'[p] = auth[p]
    BY <1>0, <2>1 DEF AccountShape
  <2>3. auth'[r].pc = "user" /\ auth'[r].org = o
    BY <1>0, <2>1 DEF AccountShape
  <2>4. AccountShape'
    BY <1>0, <2>1 DEF AccountShape, AuthFlight
  <2>5. Registering' = Registering \cup {r} /\ r \notin Registering
    BY <2>1, <2>2, <2>3 DEF Registering
  <2>6. \A p \in Registering : auth'[p] = auth[p] /\ auth[p].org # o /\ auth[p].org \in Orgs
    BY <1>0, <2>1, <2>2, <2>5 DEF RegisterInv, Registering
  <2>7. \A p \in Orgs : p # o => orgs'[p] = orgs[p]
    BY <1>0, <2>1 DEF AccountShape
  <2>8. orgs'[o] = "made"
    BY <1>0, <2>1 DEF AccountShape
  <2>9. RegisterInv'
    <3>1. /\ Registered' => account'.org \in Orgs
          /\ \A p \in Requests :
               /\ auth'[p].pc \in {"user", "owner", "email"} => auth'[p].org \in Orgs
               /\ auth'[p].pc \in {"owner", "email"} => account'.org = auth'[p].org
               /\ auth'[p].pc = "link" => Registered'
      BY <1>0, <2>1, <2>2, <2>3 DEF RegisterInv, Registered
    <3>2. \A p \in Registering' : orgs'[auth'[p].org] = "made"
      BY <1>0, <2>3, <2>5, <2>6, <2>7, <2>8 DEF RegisterInv
    <3>3. \A p, x \in Registering' : auth'[p].org = auth'[x].org => p = x
      BY <1>0, <2>3, <2>5, <2>6 DEF RegisterInv
    <3>4. QED
      BY <3>1, <3>2, <3>3 DEF RegisterInv
  <2>10. OwnedInv'
    BY <1>0, <2>1, <2>7, <2>8 DEF OwnedInv
  <2>11. MadeInv'
    <3> SUFFICES ASSUME ~authDied, NEW p \in Orgs, orgs'[p] = "made", p \notin losers
                 PROVE  \E x \in Registering' : auth'[x].org = p
      BY <2>1 DEF MadeInv
    <3>1. CASE p = o
      BY <2>3, <2>5, <3>1
    <3>2. CASE p # o
      <4>1. PICK x \in Registering : auth[x].org = p
        BY <1>0, <2>7, <3>2 DEF MadeInv
      <4>2. QED
        BY <2>5, <2>6, <4>1
    <3>3. QED
      BY <3>1, <3>2
  <2>12. QED
    BY <2>4, <2>9, <2>10, <2>11 DEF AccountRest
<1>3. ASSUME NEW r \in Requests, CreateUser(r) PROVE AccountRest'
  <2>1. /\ auth[r].pc = "user" /\ UNCHANGED <<orgs, authDied>> /\ r \in Registering
        /\ auth[r].org \in Orgs /\ orgs[auth[r].org] = "made"
    BY <1>0, <1>3 DEF CreateUser, RegisterInv, Registering
  <2>2. CASE EmailTaken
    <3>1. auth' = [auth EXCEPT ![r] = Away] /\ losers' = losers \cup {auth[r].org} /\ account' = account
      BY <1>3, <2>2 DEF CreateUser
    <3>2. auth'[r] = Away /\ \A p \in Requests : p # r => auth'[p] = auth[p]
      BY <1>0, <3>1 DEF AccountShape
    <3>3. AccountShape'
      BY <1>0, <2>1, <3>1 DEF AccountShape, Away, AuthFlight
    <3>4. Registering' = Registering \ {r} /\ \A p \in Registering' : auth'[p] = auth[p]
      BY <3>2 DEF Registering, Away
    <3>5. RegisterInv'
      BY <1>0, <2>1, <3>1, <3>2, <3>4 DEF RegisterInv, Registered, Away
    <3>6. OwnedInv'
      BY <1>0, <2>1, <3>1 DEF OwnedInv
    <3>7. MadeInv'
      BY <1>0, <2>1, <3>1, <3>4 DEF MadeInv
    <3>8. QED
      BY <3>3, <3>5, <3>6, <3>7 DEF AccountRest
  <2>3. CASE ~EmailTaken
    <3>1. /\ auth' = [auth EXCEPT ![r].pc = "owner"] /\ losers' = losers
          /\ account' = [org |-> auth[r].org, google |-> auth[r].google, emailVerified |-> FALSE]
      BY <1>3, <2>3 DEF CreateUser, Goes
    <3>2. /\ auth'[r] = [auth[r] EXCEPT !.pc = "owner"]
          /\ \A p \in Requests : p # r => auth'[p] = auth[p]
      BY <1>0, <3>1 DEF AccountShape
    <3>3. auth'[r].pc = "owner" /\ auth'[r].org = auth[r].org
      BY <1>0, <3>1 DEF AccountShape
    <3>4. ~Registered /\ account.org = None
      BY <2>3 DEF EmailTaken, Registered, NoAccount
    <3>5. AccountShape'
      BY <1>0, <2>1, <3>1 DEF AccountShape, Account, AuthFlight
    <3>6. Registering' = Registering /\ \A p \in Registering : auth'[p].org = auth[p].org
      BY <2>1, <3>2, <3>3 DEF Registering
    <3>7. \A p \in Requests : p # r => auth[p].pc \notin {"owner", "email", "link"}
      BY <1>0, <3>4, SessionsAssumption DEF RegisterInv
    <3>8. RegisterInv'
      BY <1>0, <2>1, <3>1, <3>2, <3>3, <3>6, <3>7 DEF RegisterInv
    <3>9. OwnedInv'
      BY <1>0, <2>1, <3>4, SessionsAssumption DEF OwnedInv
    <3>10. MadeInv'
      BY <1>0, <2>1, <3>1, <3>6 DEF MadeInv
    <3>11. QED
      BY <3>5, <3>8, <3>9, <3>10 DEF AccountRest
  <2>4. QED
    BY <2>2, <2>3
<1>4. ASSUME NEW r \in Requests, SetOwner(r) PROVE AccountRest'
  <2> DEFINE pc == IF auth[r].google THEN "email" ELSE "sign"
  <2>1. /\ auth[r].pc = "owner" /\ orgs' = [orgs EXCEPT ![auth[r].org] = "owned"]
        /\ auth' = [auth EXCEPT ![r].pc = pc] /\ pc \in {"email", "sign"}
        /\ UNCHANGED <<account, losers, authDied>>
    BY <1>4 DEF SetOwner, Goes, authHistory
  <2> HIDE DEF pc
  <2>2. r \in Registering /\ auth[r].org \in Orgs /\ account.org = auth[r].org
    BY <1>0, <2>1 DEF RegisterInv, Registering
  <2>3. /\ auth'[r].pc = pc /\ auth'[r].org = auth[r].org
        /\ \A p \in Requests : p # r => auth'[p] = auth[p]
    BY <1>0, <2>1 DEF AccountShape
  <2>4. AccountShape'
    BY <1>0, <2>1 DEF AccountShape, AuthFlight
  <2>5. Registering' = Registering \ {r} /\ \A p \in Registering' : auth'[p] = auth[p]
    BY <2>1, <2>3 DEF Registering
  <2>6. /\ \A p \in Registering' : auth[p].org # auth[r].org
        /\ \A o \in Orgs : o # auth[r].org => orgs'[o] = orgs[o]
        /\ orgs'[auth[r].org] = "owned"
    BY <1>0, <2>1, <2>2, <2>5 DEF RegisterInv, AccountShape
  <2>7. RegisterInv'
    <3>1. \A p \in Registering' : auth[p].org \in Orgs
      BY <1>0, <2>5 DEF RegisterInv, Registering
    <3>2. QED
      BY <1>0, <2>1, <2>2, <2>3, <2>5, <2>6, <3>1 DEF RegisterInv, Registered
  <2>8. OwnedInv'
    BY <1>0, <2>1, <2>2, <2>6 DEF OwnedInv
  <2>9. MadeInv'
    BY <1>0, <2>1, <2>5, <2>6 DEF MadeInv
  <2>10. QED
    BY <2>4, <2>7, <2>8, <2>9 DEF AccountRest
<1>5. ASSUME NEW r \in Requests, MarkEmailVerified(r) \/ LinkGoogle(r) PROVE AccountRest'
  <2>1. /\ auth[r].pc \in {"email", "link"} /\ auth' = [auth EXCEPT ![r].pc = "sign"]
        /\ UNCHANGED <<orgs, losers, authDied>>
    BY <1>5 DEF MarkEmailVerified, LinkGoogle, Goes, authHistory
  <2>2. account.org \in Orgs
    BY <1>0, <2>1 DEF RegisterInv
  <2>3. account' \in Account /\ account'.org = account.org
    BY <1>0, <1>5 DEF MarkEmailVerified, LinkGoogle, AccountShape, Account
  <2>4. auth'[r].pc = "sign" /\ \A p \in Requests : p # r => auth'[p] = auth[p]
    BY <1>0, <2>1 DEF AccountShape
  <2>5. Registered'
    BY <2>2, <2>3, SessionsAssumption DEF Registered, NoAccount
  <2>6. AccountShape'
    BY <1>0, <2>1, <2>3 DEF AccountShape, AuthFlight
  <2>7. Registering' = Registering /\ \A p \in Registering : auth'[p] = auth[p]
    BY <2>1, <2>4 DEF Registering
  <2>8. RegisterInv'
    BY <1>0, <2>1, <2>2, <2>3, <2>4, <2>5, <2>7 DEF RegisterInv
  <2>9. OwnedInv' /\ MadeInv'
    BY <1>0, <2>1, <2>3, <2>7 DEF OwnedInv, MadeInv
  <2>10. QED
    BY <2>6, <2>8, <2>9 DEF AccountRest
<1>6. ASSUME NEW r \in Requests, NEW f \in Families, NEW signed \in Seconds, Refresh(r, f, signed)
      PROVE  AccountRest'
  <2>1. PICK pc \in {"rotate", "burn"}, doc \in Nat :
          auth' = [auth EXCEPT ![r] = [Away EXCEPT !.pc = pc, !.family = f, !.doc = doc]]
    <3>1. Len(tokens[f]) \in Nat
      BY <1>0 DEF TokenShape
    <3>2. QED
      BY <1>6, <3>1 DEF Refresh, Enters
  <2> DEFINE q == [Away EXCEPT !.pc = pc, !.family = f, !.doc = doc]
  <2>2. q \in AuthFlight /\ q.pc = pc
    BY AwayType DEF AuthFlight
  <2>3. r \notin Registering /\ UNCHANGED <<orgs, account, losers, authDied>>
    BY <1>6 DEF Refresh, Enters, Registering
  <2> HIDE DEF q
  <2>4. QED
    BY <1>0, <2>1, <2>2, <2>3, ElsewhereInv DEF q
<1>7. ASSUME NEW r \in Requests, RevokeFamily(r) \/ InsertToken(r) PROVE AccountRest'
  <2>1. /\ auth' = [auth EXCEPT ![r] = Away] /\ r \notin Registering
        /\ UNCHANGED <<orgs, account, losers, authDied>>
    BY <1>7 DEF RevokeFamily, InsertToken, Registering, authHistory
  <2>2. QED
    BY <1>0, <2>1, AwayType, ElsewhereInv
<1>8. ASSUME NEW r \in Requests, Rotate(r) PROVE AccountRest'
  <2> DEFINE q == [auth[r] EXCEPT !.pc = "sign"]
  <2>1. /\ auth' = [auth EXCEPT ![r] = q] /\ r \notin Registering
        /\ UNCHANGED <<orgs, account, losers, authDied>>
    BY <1>8 DEF Rotate, Goes, Registering, authHistory
  <2>2. q \in AuthFlight /\ q.pc = "sign"
    BY <1>0 DEF AccountShape, AuthFlight
  <2> HIDE DEF q
  <2>3. QED
    BY <1>0, <2>1, <2>2, ElsewhereInv
<1>9. ASSUME NEW r \in Requests, SignRefresh(r) PROVE AccountRest'
  <2>1. PICK f \in Families \cup {None} : auth' = [auth EXCEPT ![r].pc = "insert", ![r].family = f, ![r].signed = second]
    BY <1>0, <1>9 DEF SignRefresh, Unstarted, AccountShape, AuthFlight
  <2> DEFINE q == [auth[r] EXCEPT !.pc = "insert", !.family = f, !.signed = second]
  <2>2. /\ auth' = [auth EXCEPT ![r] = q] /\ r \notin Registering
        /\ UNCHANGED <<orgs, account, losers, authDied>>
    BY <1>0, <1>9, <2>1 DEF SignRefresh, Registering, authHistory, AccountShape
  <2>3. q \in AuthFlight /\ q.pc = "insert"
    BY <1>0 DEF AccountShape, TokenShape, AuthFlight
  <2> HIDE DEF q
  <2>4. QED
    BY <1>0, <2>2, <2>3, ElsewhereInv
<1>10. ASSUME NEW r \in Requests, AuthDies(r) PROVE AccountRest'
  <2>1. /\ auth' = [auth EXCEPT ![r] = Away]
        /\ UNCHANGED <<orgs, account, losers>>
        /\ authDied' = (authDied \/ auth[r].pc \in {"user", "owner"})
    BY <1>10 DEF AuthDies
  <2>2. auth'[r].pc = "idle" /\ \A p \in Requests : p # r => auth'[p] = auth[p]
    BY <1>0, <2>1 DEF AccountShape, Away, AuthFlight
  <2>3. Registering' = Registering \ {r} /\ \A p \in Registering' : auth'[p] = auth[p]
    BY <2>2 DEF Registering
  <2>4. AccountShape'
    BY <1>0, <2>1 DEF AccountShape, Away, AuthFlight
  <2>5. RegisterInv'
    BY <1>0, <2>1, <2>2, <2>3 DEF RegisterInv, Registered
  <2>6. OwnedInv'
    BY <1>0, <2>1 DEF OwnedInv
  <2>7. MadeInv'
    <3> SUFFICES ASSUME ~authDied' PROVE MadeInv'
      BY Zenon DEF MadeInv
    <3>1. ~authDied /\ r \notin Registering
      BY <2>1, Zenon DEF Registering
    <3>2. Registering' = Registering
      BY <2>3, <3>1
    <3>3. QED
      BY <1>0, <2>1, <2>3, <3>1, <3>2 DEF MadeInv
  <2>8. QED
    BY <2>4, <2>5, <2>6, <2>7 DEF AccountRest
<1>11. CASE Logout \/ Tick \/ UNCHANGED authVars
  <2>1. UNCHANGED <<orgs, account, auth, losers, authDied>>
    BY <1>11 DEF Logout, Tick, authVars, authHistory
  <2>2. QED
    BY <1>0, <2>1 DEF AccountRest, AccountShape, RegisterInv, OwnedInv, MadeInv, Registering,
                      Registered
<1>12. QED
  BY <1>1, <1>2, <1>3, <1>4, <1>5, <1>6, <1>7, <1>8, <1>9, <1>10, <1>11, Zenon DEF SessionsNext

\* The inductive invariant of registration holds in every reachable state.
THEOREM SessionsInvariance == SessionsSpec => []SessionsIInv
<1>1. SessionsIInv /\ [SessionsNext]_authVars => SessionsIInv'
  BY TokenNext, AccountRestNext DEF SessionsIInv, AccountRest
<1>2. QED
  BY SessionsInitInv, <1>1, PTL DEF SessionsSpec

\* auth.service.ts 41-53, 74-81: without a death every owned organisation is the
\* account's, and only those whose registration lost stay without an owner.
THEOREM AlwaysOwned == SessionsSpec => []AccountOwned
<1>1. SessionsIInv => AccountOwned
  BY DEF SessionsIInv, AccountOwned, OwnedInv, MadeInv, Registering
<1>2. QED
  BY <1>1, SessionsInvariance, PTL

(***************************************************************************)
(* The refresh tokens of a family.                                         *)
(***************************************************************************)
AuthBusy == {r \in Requests : auth[r].pc # "idle"}

\* The tokens and the counters with their bounds.
SessionsBounds ==
  /\ second \in Seconds
  /\ tokens \in [Families -> Seq(Token)]
  /\ authCalls \in 0..MaxAuthCalls
  /\ losers \subseteq Orgs /\ authDied \in BOOLEAN /\ rivals \subseteq Families

\* Only a request that handles a token knows of a family.
HandSound(q) ==
  /\ q.signed \in Seconds \cup {0} /\ q.doc <= MaxAuthCalls
  /\ q.pc = "insert" => q.signed \in Seconds
  /\ q.pc \in {"burn", "rotate", "insert"} => q.family \in Families
  /\ q.pc \notin {"burn", "rotate", "sign", "insert"} => q.family = None
HandsInv == \A r \in Requests : HandSound(auth[r])

\* A token is inserted by the last step of a request.
TokenCountInv ==
  /\ IsFiniteSet(AuthBusy)
  /\ \A f \in Families : Len(tokens[f]) + Cardinality(AuthBusy) <= authCalls

\* Only the newest token of a family works, and not while the next is on its way;
\* one request at most is on its way with it.
RotationInv ==
  \A f \in Families \ rivals :
    /\ \A i \in Live(f) : i = Len(tokens[f])
    /\ \A r \in InRotation(f) :
         /\ \A o \in InRotation(f) : o = r
         /\ auth[r].pc = "rotate" => auth[r].doc = Len(tokens[f])
         /\ auth[r].pc # "rotate" => Live(f) = {}

FamilyIInv == SessionsIInv /\ SessionsBounds /\ HandsInv /\ TokenCountInv /\ RotationInv

LEMMA AwaySound == Away \in AuthFlight /\ Away.pc = "idle" /\ Away.family = None /\ HandSound(Away)
  BY AwayType, SessionsAssumption DEF Away, HandSound

LEMMA FamilyInitInv == SessionsInit => FamilyIInv
<1> SUFFICES ASSUME SessionsInit PROVE FamilyIInv
  OBVIOUS
<1> USE DEF SessionsInit
<1>1. SessionsIInv
  BY SessionsInitInv
<1>2. SessionsBounds
  <2>1. second \in Seconds /\ authCalls \in 0..MaxAuthCalls
    BY SessionsAssumption DEF Seconds
  <2>2. <<>> \in Seq(Token)
    OBVIOUS
  <2>3. tokens \in [Families -> Seq(Token)]
    BY <2>2
  <2>4. QED
    BY <2>1, <2>3, Zenon DEF SessionsBounds
<1>3. HandsInv
  BY AwaySound DEF HandsInv
<1>4. AuthBusy = {} /\ \A f \in Families : tokens[f] = <<>> /\ InRotation(f) = {} /\ Live(f) = {}
  BY AwayType DEF AuthBusy, InRotation, Live
<1>5. TokenCountInv
  BY <1>4, FS_EmptySet DEF TokenCountInv
<1>6. RotationInv
  BY <1>4 DEF RotationInv
<1>7. QED
  BY <1>1, <1>2, <1>3, <1>5, <1>6 DEF FamilyIInv

LEMMA RevokedTokens ==
  ASSUME SessionsBounds, NEW f \in Families
  PROVE  /\ Revoked(f) \in Seq(Token) /\ Len(Revoked(f)) = Len(tokens[f])
         /\ \A i \in DOMAIN Revoked(f) : Revoked(f)[i].revoked
<1>1. tokens[f] \in Seq(Token)
  BY DEF SessionsBounds
<1>2. ASSUME NEW i \in DOMAIN tokens[f]
      PROVE  [tokens[f][i] EXCEPT !.revoked = TRUE] \in Token /\ [tokens[f][i] EXCEPT !.revoked = TRUE].revoked
  <2>1. tokens[f][i] \in Token
    BY <1>1, <1>2
  <2>2. QED
    BY <2>1 DEF Token
<1>3. DOMAIN tokens[f] = 1..Len(tokens[f]) /\ Len(tokens[f]) \in Nat
  BY <1>1
<1>4. Revoked(f) \in [1..Len(tokens[f]) -> Token]
  BY <1>2, <1>3 DEF Revoked
<1>5. Revoked(f) \in Seq(Token) /\ Len(Revoked(f)) = Len(tokens[f]) /\ DOMAIN Revoked(f) = DOMAIN tokens[f]
  BY <1>3, <1>4
<1>6. \A i \in DOMAIN tokens[f] : Revoked(f)[i].revoked
  BY <1>2 DEF Revoked
<1>7. QED
  BY <1>5, <1>6

\* One request goes from where it is to q.
LEMMA HandMoves ==
  ASSUME AccountShape, HandsInv, NEW r \in Requests, NEW q \in AuthFlight, HandSound(q), auth' = [auth EXCEPT ![r] = q]
  PROVE  /\ HandsInv' /\ auth'[r] = q /\ \A o \in Requests \ {r} : auth'[o] = auth[o]
         /\ AuthBusy' = IF q.pc = "idle" THEN AuthBusy \ {r} ELSE AuthBusy \cup {r}
<1>1. \A o \in Requests : auth'[o] = IF o = r THEN q ELSE auth[o]
  BY DEF AccountShape
<1>2. HandsInv'
  BY <1>1 DEF HandsInv
<1>3. QED
  BY <1>1, <1>2 DEF AuthBusy

LEMMA CountMoves ==
  ASSUME SessionsBounds, SessionsBounds', TokenCountInv,
         \/ /\ AuthBusy' = AuthBusy /\ authCalls' = authCalls
            /\ \A f \in Families : Len(tokens'[f]) = Len(tokens[f])
         \/ /\ \E r \in Requests \ AuthBusy : AuthBusy' = AuthBusy \cup {r}
            /\ authCalls' = authCalls + 1 /\ tokens' = tokens
         \/ /\ \E r \in AuthBusy : AuthBusy' = AuthBusy \ {r}
            /\ authCalls' = authCalls
            /\ \A f \in Families : Len(tokens'[f]) <= Len(tokens[f]) + 1
  PROVE  TokenCountInv'
<1>1. /\ IsFiniteSet(AuthBusy) /\ Cardinality(AuthBusy) \in Nat /\ authCalls \in Nat
      /\ \A f \in Families : /\ Len(tokens[f]) \in Nat /\ Len(tokens'[f]) \in Nat
                             /\ Len(tokens[f]) + Cardinality(AuthBusy) <= authCalls
  BY FS_CardinalityType DEF TokenCountInv, SessionsBounds
<1>2. CASE /\ AuthBusy' = AuthBusy /\ authCalls' = authCalls
           /\ \A f \in Families : Len(tokens'[f]) = Len(tokens[f])
  BY <1>1, <1>2 DEF TokenCountInv
<1>3. ASSUME NEW r \in Requests \ AuthBusy, AuthBusy' = AuthBusy \cup {r}, authCalls' = authCalls + 1, tokens' = tokens
      PROVE  TokenCountInv'
  <2>1. IsFiniteSet(AuthBusy') /\ Cardinality(AuthBusy') = Cardinality(AuthBusy) + 1
    BY <1>1, <1>3, FS_AddElement
  <2>2. ASSUME NEW f \in Families PROVE Len(tokens'[f]) + Cardinality(AuthBusy') <= authCalls'
    BY <1>1, <1>3, <2>1
  <2>3. QED
    BY <2>1, <2>2 DEF TokenCountInv
<1>4. ASSUME NEW r \in AuthBusy, AuthBusy' = AuthBusy \ {r}, authCalls' = authCalls,
             \A f \in Families : Len(tokens'[f]) <= Len(tokens[f]) + 1
      PROVE  TokenCountInv'
  <2>1. IsFiniteSet(AuthBusy') /\ Cardinality(AuthBusy') = Cardinality(AuthBusy) - 1
    BY <1>1, <1>4, FS_RemoveElement
  <2>2. ASSUME NEW f \in Families PROVE Len(tokens'[f]) + Cardinality(AuthBusy') <= authCalls'
    BY <1>1, <1>4, <2>1
  <2>3. QED
    BY <2>1, <2>2 DEF TokenCountInv
<1>5. QED
  BY <1>2, <1>3, <1>4

\* A step that leaves the tokens, and puts nobody on the way with the next one.
LEMMA RotationKept ==
  ASSUME RotationInv, tokens' = tokens, rivals \subseteq rivals',
         \A o \in Requests : auth'[o].pc \in {"rotate", "sign", "insert"} =>
                               auth'[o] = auth[o] \/ auth'[o].family = None
  PROVE  RotationInv'
<1> SUFFICES ASSUME NEW f \in Families, f \notin rivals'
             PROVE  /\ \A i \in Live(f)' : i = Len(tokens'[f])
                    /\ \A r \in InRotation(f)' :
                         /\ \A o \in InRotation(f)' : o = r
                         /\ auth'[r].pc = "rotate" => auth'[r].doc = Len(tokens'[f])
                         /\ auth'[r].pc # "rotate" => Live(f)' = {}
  BY DEF RotationInv
<1>1. f \notin rivals /\ f # None
  BY SessionsAssumption
<1>2. Live(f)' = Live(f)
  BY DEF Live
<1>3. \A o \in InRotation(f)' : o \in InRotation(f) /\ auth'[o] = auth[o]
  BY <1>1 DEF InRotation
<1>4. QED
  BY <1>1, <1>2, <1>3 DEF RotationInv

LEMMA FamilyRest ==
  ASSUME FamilyIInv, [SessionsNext]_authVars
  PROVE  SessionsIInv' /\ losers' \subseteq Orgs /\ authDied' \in BOOLEAN
<1>1. SessionsIInv'
  BY TokenNext, AccountRestNext DEF FamilyIInv, AccountRest, SessionsIInv
<1>2. losers' \subseteq Orgs /\ authDied' \in BOOLEAN
  <2>0. losers \subseteq Orgs /\ authDied \in BOOLEAN
    BY DEF FamilyIInv, SessionsBounds
  <2>1. CASE \E r \in Requests : CreateUser(r)
    <3>1. PICK r \in Requests : CreateUser(r)
      BY <2>1
    <3>2. auth[r].org \in Orgs
      BY <3>1 DEF FamilyIInv, SessionsIInv, RegisterInv, CreateUser
    <3>3. QED
      BY <2>0, <3>1, <3>2 DEF CreateUser
  <2>2. CASE \E r \in Requests : AuthDies(r)
    BY <2>0, <2>2 DEF AuthDies
  <2>3. CASE ~\E r \in Requests : CreateUser(r) \/ AuthDies(r)
    <3>1. UNCHANGED <<losers, authDied>>
      BY <2>3, Zenon DEF SessionsNext, authVars, authHistory, Logout, Tick, Register, Login, LoginWithGoogle, Enters,
            CreateForOwner, SetOwner, MarkEmailVerified, LinkGoogle, Refresh, RevokeFamily, Rotate, SignRefresh, InsertToken
    <3>2. QED
      BY <2>0, <3>1
  <2>4. QED
    BY <2>1, <2>2, <2>3
<1>3. QED
  BY <1>1, <1>2

LEMMA FamilyNextInv == FamilyIInv /\ [SessionsNext]_authVars => FamilyIInv'
<1> SUFFICES ASSUME FamilyIInv, [SessionsNext]_authVars PROVE FamilyIInv'
  OBVIOUS
<1>0. /\ SessionsIInv /\ AccountShape /\ SessionsBounds /\ HandsInv /\ TokenCountInv /\ RotationInv
      /\ SessionsIInv' /\ losers' \subseteq Orgs /\ authDied' \in BOOLEAN
  BY FamilyRest DEF FamilyIInv, SessionsIInv
<1> SUFFICES SessionsBounds' /\ HandsInv' /\ TokenCountInv' /\ RotationInv'
  BY <1>0 DEF FamilyIInv
<1>1. ASSUME NEW r \in Requests, Register(r) \/ Login(r) \/ LoginWithGoogle(r)
      PROVE  SessionsBounds' /\ HandsInv' /\ TokenCountInv' /\ RotationInv'
  <2>1. PICK q : /\ Enters(r, q) /\ q \in AuthFlight /\ HandSound(q) /\ q.family = None
                 /\ q.pc \in {"org", "sign", "link"} /\ rivals' = rivals
    <3>1. ASSUME NEW pc \in {"org", "sign", "link"}, NEW g \in BOOLEAN,
                 NEW a, \/ a = [Away EXCEPT !.google = g, !.pc = pc]
                        \/ g = FALSE /\ a = [Away EXCEPT !.pc = pc]
          PROVE  a \in AuthFlight /\ HandSound(a) /\ a.family = None /\ a.pc = pc
      <4>1. a = [pc |-> pc, google |-> g, org |-> None, family |-> None, doc |-> 0, signed |-> 0]
        BY <3>1 DEF Away
      <4>2. a \in AuthFlight
        BY <4>1 DEF AuthFlight
      <4>3. a.pc = pc /\ a.family = None /\ a.doc = 0 /\ a.signed = 0
        BY <4>1
      <4>4. HandSound(a)
        BY <4>3, SessionsAssumption DEF HandSound
      <4>5. QED
        BY <4>2, <4>3, <4>4
    <3>2. CASE Register(r)
      BY <3>1, <3>2 DEF Register
    <3>3. CASE Login(r)
      BY <3>1, <3>3 DEF Login
    <3>4. CASE LoginWithGoogle(r)
      <4> DEFINE pc == IF ~Registered THEN "org" ELSE IF account.google THEN "sign" ELSE "link"
      <4>1. pc \in {"org", "sign", "link"} /\ rivals' = rivals
        BY <3>4 DEF LoginWithGoogle
      <4>2. Enters(r, [Away EXCEPT !.google = TRUE, !.pc = pc])
        BY <3>4, Zenon DEF LoginWithGoogle
      <4> HIDE DEF pc
      <4>3. QED
        BY <3>1, <4>1, <4>2
    <3>5. QED
      BY <1>1, <3>2, <3>3, <3>4
  <2>2. /\ auth[r].pc = "idle" /\ authCalls < MaxAuthCalls /\ authCalls' = authCalls + 1
        /\ auth' = [auth EXCEPT ![r] = q] /\ tokens' = tokens /\ second' = second
    BY <2>1 DEF Enters
  <2>3. /\ HandsInv' /\ auth'[r] = q /\ \A o \in Requests \ {r} : auth'[o] = auth[o]
        /\ AuthBusy' = AuthBusy \cup {r} /\ r \notin AuthBusy
    BY <1>0, <2>1, <2>2, HandMoves DEF AuthBusy
  <2>4. authCalls' \in 0..MaxAuthCalls
    BY <1>0, <2>2, SessionsAssumption DEF SessionsBounds
  <2>5. SessionsBounds'
    BY <1>0, <2>1, <2>2, <2>4, Zenon DEF SessionsBounds
  <2>6. TokenCountInv'
    BY <1>0, <2>2, <2>3, <2>5, CountMoves
  <2>7. RotationInv'
    BY <1>0, <2>1, <2>2, <2>3, RotationKept
  <2>8. QED
    BY <2>3, <2>5, <2>6, <2>7
<1>2. ASSUME NEW r \in Requests, NEW f \in Families, NEW signed \in Seconds, Refresh(r, f, signed)
      PROVE  SessionsBounds' /\ HandsInv' /\ TokenCountInv' /\ RotationInv'
  <2> DEFINE pc == IF Current(f, signed) THEN "rotate" ELSE "burn"
             q == [Away EXCEPT !.pc = pc, !.family = f, !.doc = Len(tokens[f])]
  <2>1. /\ auth[r].pc = "idle" /\ authCalls < MaxAuthCalls /\ authCalls' = authCalls + 1
        /\ auth' = [auth EXCEPT ![r] = q] /\ tokens' = tokens /\ second' = second
        /\ rivals' = IF Current(f, signed) /\ Rotating(f) # {} THEN rivals \cup {f} ELSE rivals
        /\ signed \in Issued(f)
    BY <1>2 DEF Refresh, Enters
  <2>2. pc \in {"rotate", "burn"} /\ (pc = "rotate" => Current(f, signed))
    OBVIOUS
  <2>3. tokens[f] \in Seq(Token) /\ Len(tokens[f]) \in Nat /\ Len(tokens[f]) <= MaxAuthCalls
    <3>1. Len(tokens[f]) + Cardinality(AuthBusy) <= authCalls /\ Cardinality(AuthBusy) \in Nat
      BY <1>0, FS_CardinalityType DEF TokenCountInv
    <3>2. tokens[f] \in Seq(Token) /\ authCalls \in 0..MaxAuthCalls
      BY <1>0 DEF SessionsBounds
    <3>3. QED
      BY <3>1, <3>2, SessionsAssumption
  <2> HIDE DEF pc
  <2>4. /\ q \in AuthFlight /\ HandSound(q)
        /\ q.pc = pc /\ q.family = f /\ q.doc = Len(tokens[f])
    BY <2>2, <2>3 DEF Away, AuthFlight, HandSound
  <2> HIDE DEF q
  <2>5. /\ HandsInv' /\ auth'[r] = q /\ \A o \in Requests \ {r} : auth'[o] = auth[o]
        /\ AuthBusy' = AuthBusy \cup {r} /\ r \notin AuthBusy
    BY <1>0, <2>1, <2>2, <2>4, HandMoves DEF AuthBusy
  <2>6. SessionsBounds'
    <3>1. authCalls' \in 0..MaxAuthCalls /\ rivals' \subseteq Families
      BY <1>0, <2>1, SessionsAssumption DEF SessionsBounds
    <3>2. QED
      BY <1>0, <2>1, <3>1, Zenon DEF SessionsBounds
  <2>7. TokenCountInv'
    BY <1>0, <2>1, <2>5, <2>6, CountMoves
  <2>8. RotationInv'
    <3>1. CASE pc = "burn"
      BY <1>0, <2>1, <2>4, <2>5, <3>1, RotationKept
    <3>2. CASE pc = "rotate"
      <4>1. Len(tokens[f]) \in Live(f)
        <5>1. tokens[f] # <<>>
          BY <2>1, <2>3 DEF Issued
        <5>2. Len(tokens[f]) \in DOMAIN tokens[f]
          BY <2>3, <5>1
        <5>3. QED
          BY <2>2, <3>2, <5>2 DEF Current, Live
      <4>2. SUFFICES ASSUME NEW g \in Families, g \notin rivals'
                     PROVE  /\ \A i \in Live(g)' : i = Len(tokens'[g])
                            /\ \A s \in InRotation(g)' :
                                 /\ \A o \in InRotation(g)' : o = s
                                 /\ auth'[s].pc = "rotate" => auth'[s].doc = Len(tokens'[g])
                                 /\ auth'[s].pc # "rotate" => Live(g)' = {}
        BY DEF RotationInv
      <4>3. g \notin rivals /\ Live(g)' = Live(g) /\ tokens'[g] = tokens[g]
        BY <2>1, <4>2 DEF Live
      <4>4. CASE g # f
        <5>1. \A o \in InRotation(g)' : o \in InRotation(g) /\ auth'[o] = auth[o]
          BY <2>4, <2>5, <4>4 DEF InRotation
        <5>2. QED
          BY <1>0, <4>3, <5>1 DEF RotationInv
      <4>5. CASE g = f
        <5>1. Rotating(f) = {}
          BY <2>1, <2>2, <3>2, <4>2, <4>5
        <5>2. InRotation(f) = {}
          BY <1>0, <4>1, <4>3, <4>5, <5>1 DEF RotationInv, InRotation, Rotating
        <5>3. \A o \in InRotation(f)' : o = r
          BY <2>5, <5>2 DEF InRotation
        <5>4. QED
          BY <1>0, <2>4, <2>5, <3>2, <4>3, <4>5, <5>3 DEF RotationInv
      <4>6. QED
        BY <4>4, <4>5
    <3>3. QED
      BY <2>2, <3>1, <3>2
  <2>9. QED
    BY <2>5, <2>6, <2>7, <2>8
<1>3. ASSUME NEW r \in Requests,
             \/ \E o \in Orgs : CreateForOwner(r, o)
             \/ CreateUser(r) \/ SetOwner(r) \/ MarkEmailVerified(r) \/ LinkGoogle(r)
      PROVE  SessionsBounds' /\ HandsInv' /\ TokenCountInv' /\ RotationInv'
  <2>0. auth[r] \in AuthFlight /\ HandSound(auth[r])
    BY <1>0 DEF AccountShape, HandsInv
  <2>1. /\ auth[r].pc \in {"org", "user", "owner", "email", "link"}
        /\ tokens' = tokens /\ second' = second /\ authCalls' = authCalls /\ rivals' = rivals
    BY <1>3 DEF CreateForOwner, CreateUser, SetOwner, MarkEmailVerified, LinkGoogle, authHistory
  <2>2. ASSUME NEW pc \in {"user", "owner", "email", "sign"}, NEW o \in Orgs \cup {None},
               NEW q, q = [auth[r] EXCEPT !.pc = pc, !.org = o] \/ q = [auth[r] EXCEPT !.pc = pc]
        PROVE  q \in AuthFlight /\ HandSound(q) /\ q.family = None /\ q.pc = pc
    <3>1. /\ q \in AuthFlight /\ q.pc = pc
          /\ q.family = auth[r].family /\ q.doc = auth[r].doc /\ q.signed = auth[r].signed
      BY <2>0, <2>2 DEF AuthFlight
    <3>2. QED
      BY <2>0, <2>1, <3>1 DEF HandSound
  <2>3. PICK q : /\ auth' = [auth EXCEPT ![r] = q] /\ q \in AuthFlight /\ HandSound(q) /\ q.family = None
                 /\ q.pc \in {"idle", "user", "owner", "email", "sign"}
    <3>1. CASE \E o \in Orgs : CreateForOwner(r, o)
      <4>1. PICK o \in Orgs : CreateForOwner(r, o)
        BY <3>1
      <4>2. auth' = [auth EXCEPT ![r] = [auth[r] EXCEPT !.pc = "user", !.org = o]]
        BY <1>0, <4>1 DEF CreateForOwner, AccountShape, AuthFlight
      <4>3. QED
        BY <2>2, <4>2
    <3>2. CASE CreateUser(r)
      <4>1. auth' = [auth EXCEPT ![r] = Away] \/ auth' = [auth EXCEPT ![r] = [auth[r] EXCEPT !.pc = "owner"]]
        BY <1>0, <3>2 DEF CreateUser, Goes, AccountShape, AuthFlight
      <4>2. CASE auth' = [auth EXCEPT ![r] = Away]
        BY <4>2, AwaySound
      <4>3. CASE auth' = [auth EXCEPT ![r] = [auth[r] EXCEPT !.pc = "owner"]]
        <5>1. PICK a : a = [auth[r] EXCEPT !.pc = "owner"]
          OBVIOUS
        <5>2. a \in AuthFlight /\ HandSound(a) /\ a.family = None /\ a.pc = "owner"
          BY <2>2, <5>1
        <5>3. QED
          BY <4>3, <5>1, <5>2
      <4>4. QED
        BY <4>1, <4>2, <4>3
    <3>3. CASE SetOwner(r) \/ MarkEmailVerified(r) \/ LinkGoogle(r)
      <4>1. \E pc \in {"email", "sign"} : auth' = [auth EXCEPT ![r] = [auth[r] EXCEPT !.pc = pc]]
        BY <1>0, <3>3 DEF SetOwner, MarkEmailVerified, LinkGoogle, Goes, AccountShape, AuthFlight
      <4>2. QED
        BY <2>2, <4>1
    <3>4. QED
      BY <1>3, <3>1, <3>2, <3>3
  <2>4. /\ HandsInv' /\ auth'[r] = q /\ \A o \in Requests \ {r} : auth'[o] = auth[o]
        /\ AuthBusy' = IF q.pc = "idle" THEN AuthBusy \ {r} ELSE AuthBusy \cup {r}
        /\ r \in AuthBusy
    BY <1>0, <2>1, <2>3, HandMoves DEF AuthBusy
  <2>5. SessionsBounds'
    BY <1>0, <2>1, Zenon DEF SessionsBounds
  <2>6. TokenCountInv'
    <3>1. \A f \in Families : Len(tokens'[f]) \in Nat /\ Len(tokens[f]) \in Nat /\ tokens'[f] = tokens[f]
      BY <1>0, <2>1 DEF SessionsBounds
    <3>2. \A f \in Families : Len(tokens'[f]) = Len(tokens[f]) /\ Len(tokens'[f]) <= Len(tokens[f]) + 1
      BY <3>1
    <3>3. AuthBusy' = AuthBusy \/ AuthBusy' = AuthBusy \ {r}
      BY <2>4
    <3>4. QED
      BY <1>0, <2>1, <2>4, <2>5, <3>2, <3>3, CountMoves
  <2>7. RotationInv'
    BY <1>0, <2>1, <2>3, <2>4, RotationKept
  <2>8. QED
    BY <2>4, <2>5, <2>6, <2>7
<1>4. ASSUME NEW r \in Requests, AuthDies(r)
      PROVE  SessionsBounds' /\ HandsInv' /\ TokenCountInv' /\ RotationInv'
  <2>1. /\ auth[r].pc # "idle" /\ auth' = [auth EXCEPT ![r] = Away]
        /\ tokens' = tokens /\ second' = second /\ authCalls' = authCalls /\ rivals' = rivals
    BY <1>4 DEF AuthDies
  <2>2. /\ HandsInv' /\ auth'[r] = Away /\ \A o \in Requests \ {r} : auth'[o] = auth[o]
        /\ AuthBusy' = AuthBusy \ {r} /\ r \in AuthBusy
    BY <1>0, <2>1, AwaySound, HandMoves DEF AuthBusy
  <2>3. SessionsBounds'
    BY <1>0, <2>1, Zenon DEF SessionsBounds
  <2>4. \A f \in Families : Len(tokens'[f]) <= Len(tokens[f]) + 1
    BY <1>0, <2>1 DEF SessionsBounds
  <2>5. TokenCountInv'
    BY <1>0, <2>1, <2>2, <2>3, <2>4, CountMoves
  <2>6. RotationInv'
    BY <1>0, <2>1, <2>2, AwaySound, RotationKept
  <2>7. QED
    BY <2>2, <2>3, <2>5, <2>6
<1>5. ASSUME Tick \/ UNCHANGED authVars
      PROVE  SessionsBounds' /\ HandsInv' /\ TokenCountInv' /\ RotationInv'
  <2>1. /\ tokens' = tokens /\ auth' = auth /\ authCalls' = authCalls /\ rivals' = rivals
        /\ second' = second \/ (second < LastSecond /\ second' = second + 1)
    BY <1>5 DEF Tick, authVars, authHistory
  <2>2. second' \in Seconds
    BY <1>0, <2>1, SessionsAssumption DEF SessionsBounds, Seconds
  <2>3. SessionsBounds'
    BY <1>0, <2>1, <2>2, Zenon DEF SessionsBounds
  <2>4. HandsInv' /\ AuthBusy' = AuthBusy
    BY <1>0, <2>1 DEF HandsInv, AuthBusy
  <2>5. TokenCountInv'
    BY <1>0, <2>1, <2>4 DEF TokenCountInv
  <2>6. RotationInv'
    BY <1>0, <2>1, RotationKept
  <2>7. QED
    BY <2>3, <2>4, <2>5, <2>6
<1>6. ASSUME NEW r \in Requests, RevokeFamily(r)
      PROVE  SessionsBounds' /\ HandsInv' /\ TokenCountInv' /\ RotationInv'
  <2>0. PICK f : f = auth[r].family
    OBVIOUS
  <2>1. /\ auth[r].pc = "burn" /\ f \in Families
        /\ auth' = [auth EXCEPT ![r] = Away] /\ tokens' = [tokens EXCEPT ![f] = Revoked(f)]
        /\ second' = second /\ authCalls' = authCalls /\ rivals' = rivals
    BY <1>0, <1>6, <2>0 DEF RevokeFamily, HandsInv, HandSound, authHistory
  <2>2. /\ HandsInv' /\ auth'[r] = Away /\ \A o \in Requests \ {r} : auth'[o] = auth[o]
        /\ AuthBusy' = AuthBusy \ {r} /\ r \in AuthBusy
    BY <1>0, <2>1, AwaySound, HandMoves DEF AuthBusy
  <2>3. /\ Revoked(f) \in Seq(Token) /\ Len(Revoked(f)) = Len(tokens[f])
        /\ \A i \in DOMAIN Revoked(f) : Revoked(f)[i].revoked
    BY <1>0, <2>1, RevokedTokens
  <2>4. PICK new : new = Revoked(f)
    OBVIOUS
  <2>5. /\ tokens' = [tokens EXCEPT ![f] = new] /\ new \in Seq(Token) /\ Len(new) = Len(tokens[f])
        /\ \A i \in DOMAIN new : new[i].revoked
    BY <2>1, <2>3, <2>4
  <2>6. /\ tokens' \in [Families -> Seq(Token)] /\ tokens'[f] = new
        /\ \A g \in Families \ {f} : tokens'[g] = tokens[g]
    BY <1>0, <2>1, <2>5 DEF SessionsBounds
  <2>7. SessionsBounds'
    BY <1>0, <2>1, <2>6, Zenon DEF SessionsBounds
  <2>8. \A g \in Families : Len(tokens'[g]) <= Len(tokens[g]) + 1
    <3>1. \A g \in Families : Len(tokens[g]) \in Nat /\ Len(tokens'[g]) = Len(tokens[g])
      BY <1>0, <2>5, <2>6 DEF SessionsBounds
    <3>2. QED
      BY <3>1
  <2>9. TokenCountInv'
    BY <1>0, <2>1, <2>2, <2>7, <2>8, CountMoves
  <2>10. RotationInv'
    <3>1. Live(f)' = {}
      BY <2>5, <2>6 DEF Live
    <3>2. \A g \in Families \ {f} : Live(g)' = Live(g)
      BY <2>6 DEF Live
    <3>3. \A g \in Families : \A o \in InRotation(g)' : o \in InRotation(g) /\ auth'[o] = auth[o]
      BY <2>2, AwaySound DEF InRotation
    <3>4. Len(tokens'[f]) = Len(tokens[f])
      BY <2>5, <2>6
    <3>5. QED
      BY <1>0, <2>1, <2>6, <3>1, <3>2, <3>3, <3>4 DEF RotationInv
  <2>11. QED
    BY <2>2, <2>7, <2>9, <2>10
<1>7. ASSUME Logout
      PROVE  SessionsBounds' /\ HandsInv' /\ TokenCountInv' /\ RotationInv'
  <2>1. /\ tokens' = [f \in Families |-> Revoked(f)] /\ auth' = auth
        /\ second' = second /\ authCalls' = authCalls /\ rivals' = rivals
    BY <1>7 DEF Logout, authHistory
  <2>2. \A f \in Families : /\ tokens'[f] \in Seq(Token) /\ Len(tokens'[f]) = Len(tokens[f])
                            /\ \A i \in DOMAIN tokens'[f] : tokens'[f][i].revoked
    BY <1>0, <2>1, RevokedTokens
  <2>3. tokens' \in [Families -> Seq(Token)]
    BY <2>1, <2>2
  <2>4. SessionsBounds'
    BY <1>0, <2>1, <2>3, Zenon DEF SessionsBounds
  <2>5. HandsInv' /\ AuthBusy' = AuthBusy
    BY <1>0, <2>1 DEF HandsInv, AuthBusy
  <2>6. TokenCountInv'
    BY <1>0, <2>1, <2>2, <2>5 DEF TokenCountInv
  <2>7. \A f \in Families : Live(f)' = {} /\ InRotation(f)' = InRotation(f)
    BY <2>1, <2>2 DEF Live, InRotation
  <2>8. RotationInv'
    BY <1>0, <2>1, <2>2, <2>7 DEF RotationInv
  <2>9. QED
    BY <2>4, <2>5, <2>6, <2>8
<1>8. ASSUME NEW r \in Requests, Rotate(r)
      PROVE  SessionsBounds' /\ HandsInv' /\ TokenCountInv' /\ RotationInv'
  <2>0. auth[r] \in AuthFlight /\ HandSound(auth[r])
    BY <1>0 DEF AccountShape, HandsInv
  <2>1. PICK f, d : f = auth[r].family /\ d = auth[r].doc
    OBVIOUS
  <2>2. /\ auth[r].pc = "rotate" /\ f \in Families /\ auth' = [auth EXCEPT ![r].pc = "sign"]
        /\ second' = second /\ authCalls' = authCalls /\ rivals' = rivals
    BY <1>0, <1>8, <2>0, <2>1 DEF Rotate, Goes, HandSound, authHistory
  <2>3. PICK q : q = [auth[r] EXCEPT !.pc = "sign"]
    OBVIOUS
  <2>4. /\ q \in AuthFlight /\ q.pc = "sign" /\ q.family = f /\ q.doc = auth[r].doc /\ q.signed = auth[r].signed
    BY <2>0, <2>1, <2>3 DEF AuthFlight
  <2>5. HandSound(q)
    BY <2>0, <2>4 DEF HandSound
  <2>6. auth' = [auth EXCEPT ![r] = q]
    BY <1>0, <2>2, <2>3 DEF AccountShape, AuthFlight
  <2>7. /\ HandsInv' /\ auth'[r] = q /\ \A o \in Requests \ {r} : auth'[o] = auth[o]
        /\ AuthBusy' = AuthBusy
    BY <1>0, <2>2, <2>4, <2>5, <2>6, HandMoves DEF AuthBusy
  <2>8. PICK new : new = [tokens[f] EXCEPT ![d] = [signed |-> tokens[f][d].signed, revoked |-> TRUE]]
    OBVIOUS
  <2>9. tokens' = [tokens EXCEPT ![f] = new]
    BY <1>8, <2>1, <2>8 DEF Rotate
  <2>10. tokens[f] \in Seq(Token)
    BY <1>0, <2>2 DEF SessionsBounds
  <2>11. /\ new \in Seq(Token) /\ Len(new) = Len(tokens[f]) /\ DOMAIN new = DOMAIN tokens[f]
         /\ \A i \in DOMAIN new : i # d => new[i] = tokens[f][i]
         /\ d \in DOMAIN new => new[d].revoked
    <3>1. CASE d \in DOMAIN tokens[f]
      <4>1. PICK t : t = [signed |-> tokens[f][d].signed, revoked |-> TRUE]
        OBVIOUS
      <4>2. t \in Token /\ t.revoked
        <5>1. tokens[f][d] \in Token
          BY <2>10, <3>1
        <5>2. tokens[f][d].signed \in Seconds
          BY <5>1 DEF Token
        <5>3. QED
          BY <4>1, <5>2 DEF Token
      <4>3. new = [tokens[f] EXCEPT ![d] = t]
        BY <2>8, <4>1
      <4>4. QED
        BY <2>10, <3>1, <4>2, <4>3
    <3>2. CASE d \notin DOMAIN tokens[f]
      <4>1. new = tokens[f]
        BY <2>8, <2>10, <3>2
      <4>2. QED
        BY <2>10, <3>2, <4>1
    <3>3. QED
      BY <3>1, <3>2
  <2>12. /\ tokens' \in [Families -> Seq(Token)] /\ tokens'[f] = new
         /\ \A g \in Families \ {f} : tokens'[g] = tokens[g]
    BY <1>0, <2>2, <2>9, <2>11 DEF SessionsBounds
  <2>13. SessionsBounds'
    BY <1>0, <2>2, <2>12, Zenon DEF SessionsBounds
  <2>14. TokenCountInv'
    <3>1. \A g \in Families : Len(tokens'[g]) = Len(tokens[g])
      BY <2>11, <2>12
    <3>2. QED
      BY <1>0, <2>2, <2>7, <2>13, <3>1, CountMoves
  <2>15. RotationInv'
    <3>1. f \notin rivals => /\ \A i \in Live(f) : i = d
                             /\ \A o \in InRotation(f) : o = r
      BY <1>0, <2>1, <2>2 DEF RotationInv, InRotation
    <3>2. f \notin rivals => Live(f)' = {}
      BY <2>11, <2>12, <3>1 DEF Live
    <3>3. \A g \in Families \ {f} : Live(g)' = Live(g) /\ InRotation(g)' = InRotation(g)
      BY <2>1, <2>4, <2>7, <2>12 DEF Live, InRotation
    <3>4. InRotation(f)' = InRotation(f)
      BY <2>1, <2>2, <2>4, <2>7 DEF InRotation
    <3>5. \A g \in Families \ {f} : \A o \in InRotation(g) : auth'[o] = auth[o]
      BY <2>1, <2>7 DEF InRotation
    <3>6. ASSUME NEW g \in Families \ rivals, g = f PROVE \A o \in InRotation(g)' : o = r
      BY <3>1, <3>4, <3>6
    <3>7. ASSUME NEW g \in Families \ rivals'
          PROVE  /\ \A i \in Live(g)' : i = Len(tokens'[g])
                 /\ \A s \in InRotation(g)' :
                      /\ \A o \in InRotation(g)' : o = s
                      /\ auth'[s].pc = "rotate" => auth'[s].doc = Len(tokens'[g])
                      /\ auth'[s].pc # "rotate" => Live(g)' = {}
      <4>1. g \notin rivals
        BY <2>2
      <4>2. CASE g = f
        BY <2>4, <2>7, <3>2, <3>6, <4>1, <4>2
      <4>3. CASE g # f
        BY <1>0, <2>12, <3>3, <3>5, <4>1, <4>3 DEF RotationInv
      <4>4. QED
        BY <4>2, <4>3
    <3>8. QED
      BY <3>7 DEF RotationInv
  <2>16. QED
    BY <2>7, <2>13, <2>14, <2>15
<1>9. ASSUME NEW r \in Requests, SignRefresh(r)
      PROVE  SessionsBounds' /\ HandsInv' /\ TokenCountInv' /\ RotationInv'
  <2>0. auth[r] \in AuthFlight /\ HandSound(auth[r])
    BY <1>0 DEF AccountShape, HandsInv
  <2>1. PICK f \in Families :
          /\ (auth[r].family = None /\ f \in Unstarted) \/ auth[r].family = f
          /\ auth' = [auth EXCEPT ![r].pc = "insert", ![r].family = f, ![r].signed = second]
    <3>1. auth[r].family \in Families \cup {None}
      BY <2>0 DEF AuthFlight
    <3>2. QED
      BY <1>9, <3>1, SessionsAssumption DEF SignRefresh, Unstarted
  <2>2. /\ auth[r].pc = "sign" /\ tokens' = tokens
        /\ second' = second /\ authCalls' = authCalls /\ rivals' = rivals
    BY <1>9 DEF SignRefresh, authHistory
  <2>3. PICK q : q = [auth[r] EXCEPT !.pc = "insert", !.family = f, !.signed = second]
    OBVIOUS
  <2>4. second \in Seconds /\ second \in Nat
    BY <1>0 DEF SessionsBounds, Seconds
  <2>5. q \in AuthFlight /\ q.pc = "insert" /\ q.family = f /\ q.doc = auth[r].doc /\ q.signed = second
    BY <2>0, <2>3, <2>4 DEF AuthFlight
  <2>6. HandSound(q)
    BY <2>0, <2>4, <2>5 DEF HandSound
  <2>7. auth' = [auth EXCEPT ![r] = q]
    BY <1>0, <2>1, <2>3 DEF AccountShape, AuthFlight
  <2>8. /\ HandsInv' /\ auth'[r] = q /\ \A o \in Requests \ {r} : auth'[o] = auth[o]
        /\ AuthBusy' = AuthBusy
    BY <1>0, <2>2, <2>5, <2>6, <2>7, HandMoves DEF AuthBusy
  <2>9. SessionsBounds'
    BY <1>0, <2>2, Zenon DEF SessionsBounds
  <2>10. TokenCountInv'
    BY <1>0, <2>2, <2>8, <2>9 DEF TokenCountInv
  <2>11. RotationInv'
    <3>1. \A g \in Families : Live(g)' = Live(g)
      BY <2>2 DEF Live
    <3>2. ASSUME NEW g \in Families \ rivals'
          PROVE  /\ \A i \in Live(g)' : i = Len(tokens'[g])
                 /\ \A s \in InRotation(g)' :
                      /\ \A o \in InRotation(g)' : o = s
                      /\ auth'[s].pc = "rotate" => auth'[s].doc = Len(tokens'[g])
                      /\ auth'[s].pc # "rotate" => Live(g)' = {}
      <4>1. g \in Families \ rivals
        BY <2>2
      <4>2. CASE g # f
        <5>1. \A o \in InRotation(g)' : o \in InRotation(g) /\ auth'[o] = auth[o]
          BY <2>5, <2>8, <4>2 DEF InRotation
        <5>2. QED
          BY <1>0, <2>2, <3>1, <4>1, <5>1 DEF RotationInv
      <4>3. CASE g = f /\ auth[r].family = f
        <5>1. r \in InRotation(f) /\ \A o \in InRotation(f) : o = r
          BY <1>0, <2>2, <4>1, <4>3 DEF RotationInv, InRotation
        <5>2. Live(f) = {}
          BY <1>0, <2>2, <4>1, <4>3, <5>1 DEF RotationInv
        <5>3. \A o \in InRotation(f)' : o = r
          BY <2>8, <5>1 DEF InRotation
        <5>4. QED
          BY <2>5, <2>8, <3>1, <4>3, <5>2, <5>3
      <4>4. CASE g = f /\ f \in Unstarted
        <5>1. tokens[f] = <<>> /\ InRotation(f) = {}
          BY <4>4 DEF Unstarted, InRotation
        <5>2. Live(f) = {} /\ \A o \in InRotation(f)' : o = r
          BY <2>8, <5>1 DEF Live, InRotation
        <5>3. QED
          BY <2>5, <2>8, <3>1, <4>4, <5>2
      <4>5. QED
        BY <2>1, <4>2, <4>3, <4>4
    <3>3. QED
      BY <3>2 DEF RotationInv
  <2>12. QED
    BY <2>8, <2>9, <2>10, <2>11
<1>10. ASSUME NEW r \in Requests, InsertToken(r)
       PROVE  SessionsBounds' /\ HandsInv' /\ TokenCountInv' /\ RotationInv'
  <2>0. auth[r] \in AuthFlight /\ HandSound(auth[r])
    BY <1>0 DEF AccountShape, HandsInv
  <2>1. PICK f, t : f = auth[r].family /\ t = [signed |-> auth[r].signed, revoked |-> FALSE]
    OBVIOUS
  <2>2. /\ auth[r].pc = "insert" /\ f \in Families /\ t \in Token /\ ~t.revoked
        /\ auth' = [auth EXCEPT ![r] = Away]
        /\ second' = second /\ authCalls' = authCalls /\ rivals' = rivals
    BY <1>10, <2>0, <2>1 DEF InsertToken, HandSound, Token, authHistory
  <2>3. /\ HandsInv' /\ auth'[r] = Away /\ \A o \in Requests \ {r} : auth'[o] = auth[o]
        /\ AuthBusy' = AuthBusy \ {r} /\ r \in AuthBusy
    BY <1>0, <2>2, AwaySound, HandMoves DEF AuthBusy
  <2>4. tokens[f] \in Seq(Token) /\ Len(tokens[f]) \in Nat
    BY <1>0, <2>2 DEF SessionsBounds
  <2>5. PICK new : new = Append(tokens[f], t)
    OBVIOUS
  <2>6. /\ new \in Seq(Token) /\ Len(new) = Len(tokens[f]) + 1 /\ new[Len(new)] = t
        /\ \A i \in 1..Len(tokens[f]) : new[i] = tokens[f][i]
    BY <2>2, <2>4, <2>5
  <2>7. tokens' = [tokens EXCEPT ![f] = new]
    BY <1>10, <2>1, <2>5 DEF InsertToken
  <2>8. /\ tokens' \in [Families -> Seq(Token)] /\ tokens'[f] = new
        /\ \A g \in Families \ {f} : tokens'[g] = tokens[g]
    BY <1>0, <2>2, <2>6, <2>7 DEF SessionsBounds
  <2>9. SessionsBounds'
    BY <1>0, <2>2, <2>8, Zenon DEF SessionsBounds
  <2>10. TokenCountInv'
    <3>1. \A g \in Families : Len(tokens[g]) \in Nat
      BY <1>0 DEF SessionsBounds
    <3>2. \A g \in Families : Len(tokens'[g]) <= Len(tokens[g]) + 1
      BY <2>6, <2>8, <3>1
    <3>3. QED
      BY <1>0, <2>2, <2>3, <2>9, <3>2, CountMoves
  <2>11. RotationInv'
    <3>1. ASSUME NEW g \in Families \ rivals'
          PROVE  /\ \A i \in Live(g)' : i = Len(tokens'[g])
                 /\ \A s \in InRotation(g)' :
                      /\ \A o \in InRotation(g)' : o = s
                      /\ auth'[s].pc = "rotate" => auth'[s].doc = Len(tokens'[g])
                      /\ auth'[s].pc # "rotate" => Live(g)' = {}
      <4>1. g \in Families \ rivals
        BY <2>2
      <4>2. \A o \in InRotation(g)' : o \in InRotation(g) /\ o # r /\ auth'[o] = auth[o]
        BY <2>3, AwaySound DEF InRotation
      <4>3. CASE g # f
        <5>1. Live(g)' = Live(g) /\ tokens'[g] = tokens[g]
          BY <2>8, <4>3 DEF Live
        <5>2. QED
          BY <1>0, <4>1, <4>2, <5>1 DEF RotationInv
      <4>4. CASE g = f
        <5>1. r \in InRotation(f)
          BY <2>1, <2>2 DEF InRotation
        <5>2. Live(f) = {} /\ \A o \in InRotation(f) : o = r
          BY <1>0, <2>2, <4>1, <4>4, <5>1 DEF RotationInv
        <5>3. InRotation(f)' = {}
          BY <4>2, <4>4, <5>2
        <5>4. \A i \in 1..Len(tokens[f]) : new[i].revoked
          BY <2>4, <2>6, <5>2 DEF Live
        <5>5. \A i \in Live(f)' : i = Len(tokens'[f])
          BY <2>4, <2>6, <2>8, <5>4 DEF Live
        <5>6. QED
          BY <4>4, <5>3, <5>5
      <4>5. QED
        BY <4>3, <4>4
    <3>2. QED
      BY <3>1 DEF RotationInv
  <2>12. QED
    BY <2>3, <2>9, <2>10, <2>11
<1>11. QED
  BY <1>1, <1>2, <1>3, <1>4, <1>5, <1>6, <1>7, <1>8, <1>9, <1>10, Zenon DEF SessionsNext
\* The invariant of the rotation holds in every state: one token of a family works
\* at most, none while the next is on its way, and never more were issued than
\* requests begun (auth.service.ts 104-131).
THEOREM FamilyInvariance == SessionsSpec => []FamilyIInv
<1>1. QED
  BY FamilyInitInv, FamilyNextInv, PTL DEF SessionsSpec

\* Every variable of Sessions keeps its type, its bounds on the tokens of a family
\* included.
THEOREM SessionsTypes == SessionsSpec => []SessionsTypeOK
<1>1. FamilyIInv => SessionsTypeOK
  <2> SUFFICES ASSUME FamilyIInv PROVE SessionsTypeOK
    OBVIOUS
  <2>0. SessionsIInv /\ AccountShape /\ SessionsBounds /\ HandsInv /\ TokenCountInv
    BY DEF FamilyIInv, SessionsIInv
  <2>1. auth \in [Requests -> AuthRequest]
    <3>1. ASSUME NEW r \in Requests PROVE auth[r] \in AuthRequest
      <4>1. auth[r] \in AuthFlight /\ auth[r].signed \in Seconds \cup {0} /\ auth[r].doc <= MaxAuthCalls
        BY <2>0 DEF AccountShape, HandsInv, HandSound
      <4>2. auth[r].doc \in 0..MaxAuthCalls
        BY <4>1, SessionsAssumption DEF AuthFlight
      <4>3. QED
        BY <4>1, <4>2 DEF AuthFlight, AuthRequest
    <3>2. QED
      BY <2>0, <3>1 DEF AccountShape
  <2>2. \A f \in Families : Len(tokens[f]) <= MaxAuthCalls
    <3>1. ASSUME NEW f \in Families PROVE Len(tokens[f]) <= MaxAuthCalls
      <4>1. /\ tokens[f] \in Seq(Token) /\ Cardinality(AuthBusy) \in Nat /\ authCalls \in 0..MaxAuthCalls
            /\ Len(tokens[f]) + Cardinality(AuthBusy) <= authCalls
        BY <2>0, FS_CardinalityType DEF TokenCountInv, SessionsBounds
      <4>2. QED
        BY <4>1, SessionsAssumption
    <3>2. QED
      BY <3>1
  <2>3. QED
    BY <2>0, <2>1, <2>2, Zenon DEF SessionsTypeOK, SessionsBounds, AccountShape
<1>2. QED
  BY FamilyInvariance, <1>1, PTL

\* A family that works for nobody stays so.
LEMMA DeadStays ==
  ASSUME FamilyIInv, FamilyIInv', [SessionsNext]_authVars, NEW f \in Families, Dead(f)
  PROVE  Dead(f)'
<1>0. /\ AccountShape /\ SessionsBounds /\ SessionsBounds' /\ HandsInv
      /\ tokens[f] # <<>> /\ Live(f) = {} /\ InRotation(f) = {} /\ f # None
  BY SessionsAssumption DEF FamilyIInv, SessionsIInv, Dead
<1>1. /\ tokens[f] \in Seq(Token) /\ tokens'[f] \in Seq(Token) /\ Len(tokens[f]) \in Nat \ {0}
      /\ \A i \in DOMAIN tokens[f] : tokens[f][i].revoked
  BY <1>0 DEF SessionsBounds, Live
<1> SUFFICES /\ tokens'[f] # <<>> /\ \A i \in DOMAIN tokens'[f] : tokens'[f][i].revoked
             /\ \A r \in Requests : ~(auth'[r].family = f /\ auth'[r].pc \in {"rotate", "sign", "insert"})
  BY DEF Dead, Live, InRotation
<1>2. \A r \in Requests : auth[r].family = f => auth[r].pc \notin {"rotate", "sign", "insert"}
  BY <1>0 DEF InRotation
<1> DEFINE Same == tokens'[f] = tokens[f]
           Out == \A r \in Requests : ~(auth'[r].family = f /\ auth'[r].pc \in {"rotate", "sign", "insert"})
<1>3. ASSUME NEW r \in Requests, Register(r) \/ Login(r) \/ LoginWithGoogle(r) PROVE Same /\ Out
  <2>0. ASSUME NEW a, \E pc, g : a = [Away EXCEPT !.google = g, !.pc = pc] \/ a = [Away EXCEPT !.pc = pc]
        PROVE  a.family = None
    BY <2>0 DEF Away
  <2>1. PICK q : Enters(r, q) /\ q.family = None
    <3>1. CASE Register(r) \/ Login(r)
      BY <2>0, <3>1 DEF Register, Login
    <3>2. CASE LoginWithGoogle(r)
      <4>1. PICK pc : Enters(r, [Away EXCEPT !.google = TRUE, !.pc = pc])
        BY <3>2 DEF LoginWithGoogle
      <4>2. QED
        BY <2>0, <4>1
    <3>3. QED
      BY <1>3, <3>1, <3>2
  <2>2. QED
    BY <1>0, <1>2, <2>1 DEF Enters, AccountShape
<1>4. ASSUME NEW r \in Requests, NEW g \in Families, NEW signed \in Seconds, Refresh(r, g, signed) PROVE Same /\ Out
  <2>1. PICK q : /\ Enters(r, q) /\ q.family = g /\ (q.pc = "burn" \/ Current(g, signed))
    <3>0. ASSUME NEW a, NEW pc, NEW n, a = [Away EXCEPT !.pc = pc, !.family = g, !.doc = n]
          PROVE  a.family = g /\ a.pc = pc
      BY <3>0 DEF Away
    <3>1. PICK pc : /\ Enters(r, [Away EXCEPT !.pc = pc, !.family = g, !.doc = Len(tokens[g])])
                    /\ pc = "burn" \/ Current(g, signed)
      BY <1>4 DEF Refresh
    <3>2. PICK a : a = [Away EXCEPT !.pc = pc, !.family = g, !.doc = Len(tokens[g])]
      OBVIOUS
    <3>3. a.family = g /\ a.pc = pc
      BY <3>0, <3>2
    <3>4. Enters(r, a)
      BY <3>1, <3>2, Zenon
    <3>5. QED
      BY <3>1, <3>3, <3>4
  <2>2. ~Current(f, signed)
    BY <1>1 DEF Current
  <2>3. QED
    BY <1>0, <1>2, <2>1, <2>2 DEF Enters, AccountShape
<1>5. ASSUME NEW r \in Requests,
             \/ \E o \in Orgs : CreateForOwner(r, o)
             \/ CreateUser(r) \/ SetOwner(r) \/ MarkEmailVerified(r) \/ LinkGoogle(r)
      PROVE  Same /\ Out
  <2>1. auth[r].family = None
    BY <1>0, <1>5 DEF HandsInv, HandSound, CreateForOwner, CreateUser, SetOwner, MarkEmailVerified, LinkGoogle
  <2>2. tokens' = tokens /\ auth'[r].family = None /\ \A o \in Requests \ {r} : auth'[o] = auth[o]
    BY <1>0, <1>5, <2>1 DEF CreateForOwner, CreateUser, SetOwner, MarkEmailVerified, LinkGoogle, Goes, Away,
          AccountShape, AuthFlight
  <2>3. QED
    BY <1>0, <1>2, <2>2
<1>6. ASSUME NEW r \in Requests, AuthDies(r) PROVE Same /\ Out
  BY <1>0, <1>2, <1>6 DEF AuthDies, Away, AccountShape
<1>7. ASSUME Tick \/ UNCHANGED authVars PROVE Same /\ Out
  BY <1>2, <1>7 DEF Tick, authVars
<1>8. ASSUME NEW r \in Requests, SignRefresh(r) PROVE Same /\ Out
  <2>1. PICK g : /\ g \in Families => g \in Unstarted \/ auth[r].family = g
                 /\ auth[r].pc = "sign" /\ tokens' = tokens
                 /\ auth' = [auth EXCEPT ![r].pc = "insert", ![r].family = g, ![r].signed = second]
    BY <1>8 DEF SignRefresh
  <2>2. g # f
    BY <1>0, <1>2, <2>1 DEF Unstarted
  <2>3. auth'[r].family = g /\ \A o \in Requests \ {r} : auth'[o] = auth[o]
    BY <1>0, <2>1 DEF AccountShape, AuthFlight
  <2>4. QED
    BY <1>2, <2>1, <2>2, <2>3
<1>9. ASSUME NEW r \in Requests, NEW g, NEW new, g # f,
             tokens' = [tokens EXCEPT ![g] = new], \A o \in Requests \ {r} : auth'[o] = auth[o],
             auth'[r].family # f
      PROVE  Same /\ Out
  BY <1>0, <1>2, <1>9 DEF SessionsBounds
<1>10. ASSUME NEW r \in Requests, Rotate(r) \/ InsertToken(r) PROVE Same /\ Out
  <2>1. auth[r].family # f
    BY <1>2, <1>10 DEF Rotate, InsertToken
  <2>2. auth'[r].family # f /\ \A o \in Requests \ {r} : auth'[o] = auth[o]
    BY <1>0, <1>10, <2>1 DEF Rotate, InsertToken, Goes, Away, AccountShape, AuthFlight
  <2>3. \E new : tokens' = [tokens EXCEPT ![auth[r].family] = new]
    <3>1. CASE Rotate(r)
      BY <3>1, Zenon DEF Rotate
    <3>2. CASE InsertToken(r)
      <4>1. PICK new : new = Append(tokens[auth[r].family], [signed |-> auth[r].signed, revoked |-> FALSE])
        OBVIOUS
      <4>2. tokens' = [tokens EXCEPT ![auth[r].family] = new]
        BY <3>2, <4>1 DEF InsertToken
      <4>3. QED
        BY <4>2
    <3>3. QED
      BY <1>10, <3>1, <3>2
  <2>4. PICK g, new : g = auth[r].family /\ tokens' = [tokens EXCEPT ![g] = new]
    BY <2>3
  <2>5. QED
    BY <1>9, <2>1, <2>2, <2>4
<1>11. Revoked(f) # <<>> /\ \A i \in DOMAIN Revoked(f) : Revoked(f)[i].revoked
  BY <1>0, <1>1, RevokedTokens
<1>12. ASSUME NEW r \in Requests, RevokeFamily(r)
       PROVE  tokens'[f] \in {tokens[f], Revoked(f)} /\ Out
  BY <1>0, <1>2, <1>12 DEF RevokeFamily, Away, AccountShape, SessionsBounds
<1>13. ASSUME Logout PROVE tokens'[f] = Revoked(f) /\ Out
  BY <1>2, <1>13 DEF Logout
<1>14. tokens'[f] \in {tokens[f], Revoked(f)} /\ Out
  BY <1>3, <1>4, <1>5, <1>6, <1>7, <1>8, <1>10, <1>12, <1>13, Zenon DEF SessionsNext
<1>15. QED
  BY <1>0, <1>1, <1>11, <1>14

\* The refresh tokens of a family take turns: whatever step comes, at most one of
\* them works unless two requests passed the test before either had revoked, and a
\* family that is burnt or logged out never works again (auth.service.ts 104-131).
THEOREM OneTokenRotates == SessionsSpec => FamilyRotates
<1> DEFINE Turn == \A f \in Families :
       /\ f \notin rivals' => \A i, j \in Live(f)' : i = j
       /\ Dead(f) => Dead(f)'
<1>1. FamilyIInv /\ FamilyIInv' /\ [SessionsNext]_authVars => Turn
  <2> SUFFICES ASSUME FamilyIInv, FamilyIInv', [SessionsNext]_authVars, NEW f \in Families
               PROVE  /\ f \notin rivals' => \A i, j \in Live(f)' : i = j
                      /\ Dead(f) => Dead(f)'
    OBVIOUS
  <2>1. f \notin rivals' => \A i, j \in Live(f)' : i = j
    BY DEF FamilyIInv, RotationInv
  <2>2. Dead(f) => Dead(f)'
    BY DeadStays
  <2>3. QED
    BY <2>1, <2>2
<1> HIDE DEF Turn
<1>2. SessionsSpec => [][Turn]_authVars
  BY <1>1, FamilyInvariance, PTL DEF SessionsSpec
<1>3. QED
  BY <1>2 DEF FamilyRotates, Turn

(***************************************************************************)
(* The portal and the document of an e-invoice.                            *)
(***************************************************************************)

IrpGenerated == einvoice.status = "generated"
IrpHolding == {r \in Requests : irp[r].pc \in {"record", "revoke", "mark"}}
IrpRecording == {r \in Requests : irp[r].pc = "record"}
IrpMarking == {r \in Requests : irp[r].pc = "mark"}

\* The numbers a request holds, the document has or the portal keeps were issued.
IrpIssuedInv ==
  /\ \A r \in Requests : r \in irpStale => irp[r].pc # "idle"
  /\ \A r \in IrpHolding : irp[r].irn \in issued
  /\ IrpGenerated => einvoice.irn \in issued
  /\ live \subseteq issued

\* Whose document nobody has written knows it; whose document somebody has
\* written holds a number that is no longer in force.
IrpViewInv ==
  \A r \in Requests :
    /\ r \notin irpStale =>
         /\ irp[r].pc \in {"register", "record"} => ~IrpGenerated
         /\ irp[r].pc \in {"revoke", "mark"} => IrpGenerated /\ irp[r].irn = einvoice.irn
    /\ r \in irpStale /\ irp[r].pc \in {"revoke", "mark"} /\ IrpGenerated => irp[r].irn # einvoice.irn

\* The number a request is to record is its own.
IrpFreshInv ==
  \A r \in IrpRecording :
    /\ \A o \in IrpHolding : o # r => irp[o].irn # irp[r].irn
    /\ IrpGenerated => irp[r].irn # einvoice.irn

\* What is in force at the portal: what the document says, but for what is
\* cancelled and not yet marked, and what is registered and not yet recorded.
IrpLiveInv ==
  \A n \in IRNs :
    n \in live <=>
      \/ IrpGenerated /\ n = einvoice.irn /\ \A r \in IrpMarking : irp[r].irn # n
      \/ \E r \in IrpRecording : irp[r].irn = n

IrpOrderly == ~irpRaced /\ ~unrecorded

IrpIInv ==
  /\ EInvoicingTypeOK
  /\ IrpIssuedInv
  /\ IrpOrderly => IrpViewInv /\ IrpFreshInv /\ IrpLiveInv

LEMMA IrpInitInv == EInvoicingInit => IrpIInv
<1> SUFFICES ASSUME EInvoicingInit PROVE IrpIInv
  OBVIOUS
<1> USE EInvoicingAssumption DEF EInvoicingInit, NoEInvoice, NoCall
<1>1. EInvoicingTypeOK
  <2>1. einvoice \in EInvoice
    BY DEF EInvoice
  <2>2. irp \in [Requests -> IrpRequest]
    BY DEF IrpRequest
  <2>3. irpCalls \in 0..MaxIrpCalls
    OBVIOUS
  <2>4. QED
    BY <2>1, <2>2, <2>3, Zenon DEF EInvoicingTypeOK
<1>2. ~IrpGenerated /\ IrpHolding = {} /\ IrpRecording = {} /\ IrpMarking = {}
  BY DEF IrpGenerated, IrpHolding, IrpRecording, IrpMarking
<1>3. IrpIssuedInv /\ IrpViewInv
  BY <1>2 DEF IrpIssuedInv, IrpViewInv
<1>4. IrpFreshInv /\ IrpLiveInv
  <2>1. live = {}
    OBVIOUS
  <2>2. QED
    BY <1>2, <2>1, Zenon DEF IrpFreshInv, IrpLiveInv
<1>5. QED
  BY <1>1, <1>3, <1>4 DEF IrpIInv

LEMMA IrpNextInv == IrpIInv /\ [EInvoicingNext]_irpVars => IrpIInv'
<1> SUFFICES ASSUME IrpIInv, [EInvoicingNext]_irpVars PROVE IrpIInv'
  OBVIOUS
<1> USE EInvoicingAssumption
    DEF EInvoicingTypeOK, EInvoice, IrpRequest, NoCall, NoEInvoice, irpVars, IrpIInv, IrpIssuedInv,
        IrpOrderly, IrpGenerated, IrpHolding, IrpRecording, IrpMarking
<1>1. ASSUME NEW r \in Requests, Generate(r) PROVE IrpIInv'
  <2>1. EInvoicingTypeOK' /\ IrpIssuedInv'
    BY <1>1 DEF Generate, Calls, NotGenerated
  <2>2. IrpOrderly' => IrpViewInv' /\ IrpFreshInv' /\ IrpLiveInv'
    BY <1>1 DEF Generate, Calls, NotGenerated, IrpViewInv, IrpFreshInv, IrpLiveInv
  <2>3. QED
    BY <2>1, <2>2
<1>2. ASSUME NEW r \in Requests, PortalRegisters(r) PROVE IrpIInv'
  <2>1. EInvoicingTypeOK' /\ IrpIssuedInv'
    BY <1>2 DEF PortalRegisters
  <2>2. IrpOrderly' => IrpViewInv'
    BY <1>2 DEF PortalRegisters, IrpViewInv
  <2>3. IrpOrderly' => IrpFreshInv' /\ IrpLiveInv'
    BY <1>2 DEF PortalRegisters, IrpFreshInv, IrpLiveInv
  <2>4. QED
    BY <2>1, <2>2, <2>3
<1>3. ASSUME NEW r \in Requests, RecordIrn(r) PROVE IrpIInv'
  <2>1. EInvoicingTypeOK' /\ IrpIssuedInv'
    BY <1>3 DEF RecordIrn, WritesEInvoice
  <2>2. IrpOrderly' => IrpViewInv' /\ IrpFreshInv'
    BY <1>3 DEF RecordIrn, WritesEInvoice, IrpViewInv, IrpFreshInv
  <2>3. IrpOrderly' => IrpLiveInv'
    <3>1. SUFFICES ASSUME IrpOrderly', NEW n \in IRNs
                   PROVE  n \in live' <=> \/ IrpGenerated' /\ n = einvoice'.irn /\ \A o \in IrpMarking' : irp'[o].irn # n
                                          \/ \E o \in IrpRecording' : irp'[o].irn = n
      BY DEF IrpLiveInv
    <3>2. /\ IrpOrderly /\ ~IrpGenerated /\ r \in IrpRecording
          /\ IrpGenerated' /\ einvoice'.irn = irp[r].irn /\ live' = live
          /\ IrpMarking' = IrpMarking /\ IrpRecording' = IrpRecording \ {r}
          /\ \A o \in Requests \ {r} : irp'[o] = irp[o]
      BY <1>3, <3>1 DEF RecordIrn, WritesEInvoice, IrpViewInv
    <3>3. n \in live <=> \E o \in IrpRecording : irp[o].irn = n
      BY <3>2 DEF IrpLiveInv
    <3>4. \A o \in IrpMarking : irp[o].irn # irp[r].irn /\ irp'[o] = irp[o]
      BY <3>2 DEF IrpFreshInv
    <3>5. QED
      BY <3>2, <3>3, <3>4
  <2>4. QED
    BY <2>1, <2>2, <2>3
<1>4. ASSUME NEW r \in Requests, CancelIrn(r) PROVE IrpIInv'
  <2>1. EInvoicingTypeOK' /\ IrpIssuedInv'
    BY <1>4 DEF CancelIrn, Calls
  <2>2. IrpOrderly' => IrpViewInv' /\ IrpFreshInv' /\ IrpLiveInv'
    BY <1>4 DEF CancelIrn, Calls, IrpViewInv, IrpFreshInv, IrpLiveInv
  <2>3. QED
    BY <2>1, <2>2
<1>5. ASSUME NEW r \in Requests, PortalCancels(r) PROVE IrpIInv'
  <2>1. EInvoicingTypeOK' /\ IrpIssuedInv'
    BY <1>5 DEF PortalCancels
  <2>2. IrpOrderly' => IrpViewInv' /\ IrpFreshInv'
    BY <1>5 DEF PortalCancels, IrpViewInv, IrpFreshInv
  <2>3. IrpOrderly' => IrpLiveInv'
    BY <1>5 DEF PortalCancels, IrpViewInv, IrpFreshInv, IrpLiveInv
  <2>4. QED
    BY <2>1, <2>2, <2>3
<1>6. ASSUME NEW r \in Requests, MarkCancelled(r) PROVE IrpIInv'
  <2>1. EInvoicingTypeOK' /\ IrpIssuedInv'
    BY <1>6 DEF MarkCancelled, WritesEInvoice, KeepsReference
  <2>2. IrpOrderly' => IrpViewInv' /\ IrpFreshInv'
    BY <1>6 DEF MarkCancelled, WritesEInvoice, KeepsReference, IrpViewInv, IrpFreshInv
  <2>3. IrpOrderly' => IrpLiveInv'
    <3>1. SUFFICES ASSUME IrpOrderly', NEW n \in IRNs
                   PROVE  n \in live' <=> \/ IrpGenerated' /\ n = einvoice'.irn /\ \A o \in IrpMarking' : irp'[o].irn # n
                                          \/ \E o \in IrpRecording' : irp'[o].irn = n
      BY DEF IrpLiveInv
    <3>2. /\ IrpOrderly /\ r \in IrpMarking /\ einvoice.irn = irp[r].irn
          /\ ~IrpGenerated' /\ live' = live /\ IrpRecording' = IrpRecording
          /\ \A o \in IrpRecording : irp'[o] = irp[o]
      BY <1>6, <3>1 DEF MarkCancelled, WritesEInvoice, KeepsReference, IrpViewInv
    <3>3. n \in live <=> \E o \in IrpRecording : irp[o].irn = n
      BY <3>2 DEF IrpLiveInv
    <3>4. QED
      BY <3>2, <3>3
  <2>4. QED
    BY <2>1, <2>2, <2>3
<1>7. ASSUME NEW r \in Requests, IrpDies(r) PROVE IrpIInv'
  <2>1. EInvoicingTypeOK' /\ IrpIssuedInv'
    BY <1>7 DEF IrpDies
  <2>2. IrpOrderly' => IrpViewInv' /\ IrpFreshInv'
    BY <1>7 DEF IrpDies, IrpViewInv, IrpFreshInv
  <2>3. IrpOrderly' => IrpLiveInv'
    <3>1. IrpOrderly' => IrpOrderly /\ irp[r].pc \notin {"record", "mark"}
      BY <1>7 DEF IrpDies
    <3>2. IrpOrderly' => IrpRecording' = IrpRecording /\ IrpMarking' = IrpMarking
      BY <1>7, <3>1 DEF IrpDies
    <3>3. QED
      BY <1>7, <3>1, <3>2 DEF IrpDies, IrpLiveInv
  <2>4. QED
    BY <2>1, <2>2, <2>3
<1>8. ASSUME WindowCloses \/ UNCHANGED irpVars PROVE IrpIInv'
  <2>1. /\ UNCHANGED <<einvoice, issued, live, irp, irpCalls, irpStale, irpRaced, unrecorded>>
        /\ aged' \in BOOLEAN
    BY <1>8 DEF WindowCloses
  <2>2. EInvoicingTypeOK' /\ IrpIssuedInv'
    BY <2>1
  <2>3. IrpOrderly' => IrpViewInv' /\ IrpFreshInv'
    BY <2>1 DEF IrpViewInv, IrpFreshInv
  <2>4. IrpOrderly' => IrpLiveInv'
    BY <2>1 DEF IrpLiveInv
  <2>5. QED
    BY <2>2, <2>3, <2>4
<1>9. QED
  BY <1>1, <1>2, <1>3, <1>4, <1>5, <1>6, <1>7, <1>8 DEF EInvoicingNext

\* The invariant holds in every reachable state.
THEOREM EInvoicingInvariance == EInvoicingSpec => []IrpIInv
  BY IrpInitInv, IrpNextInv, PTL DEF EInvoicingSpec

\* Every variable keeps its type.
THEOREM EInvoicingTypes == EInvoicingSpec => []EInvoicingTypeOK
<1>1. IrpIInv => EInvoicingTypeOK
  BY DEF IrpIInv
<1>2. QED
  BY EInvoicingInvariance, <1>1, PTL

\* einvoicing.service.ts 58-153: between requests the portal has in force what
\* the document says, if no write was overtaken and no answer was lost.
THEOREM PortalAgreement == EInvoicingSpec => []PortalAgrees
<1>1. IrpIInv => PortalAgrees
  BY DEF IrpIInv, IrpIssuedInv, EInvoicingTypeOK, EInvoice, IrpOrderly, IrpLiveInv, IrpGenerated, IrpRecording, IrpMarking, PortalAgrees
<1>2. QED
  BY EInvoicingInvariance, <1>1, PTL

(***************************************************************************)
(* The file, the link and the metadata of a remittance.                    *)
(***************************************************************************)

\* The upload has removed the old file, if any, and has not linked its own.
FircWorking(r) == upload[r].pc \in {"write", "link"}

FircShapeInv ==
  \A r \in Requests :
    /\ r \in fircStale => upload[r].pc # "idle"
    /\ upload[r].pc \in {"remove", "collect"} => upload[r].old # None
    /\ upload[r].pc \in {"remove", "write", "link", "meta"} => upload[r].name \in Names

\* What a request that nobody has overtaken knows of the key and the directory.
FircViewInv ==
  \A r \in Requests \ fircStale :
    /\ upload[r].pc \in {"remove", "write", "link", "collect"} => upload[r].old = key
    /\ upload[r].pc = "write" => files = {}
    /\ upload[r].pc = "link" => files = {upload[r].name}

\* Whoever is at work has overtaken everybody else.
FircAloneInv ==
  \A r, o \in Requests \ fircStale :
    FircWorking(r) /\ upload[o].pc \in {"remove", "write", "link", "collect"} => r = o

\* With nobody at work but those who have been overtaken, the directory holds
\* the linked file.
FircRestInv == (\A r \in Requests \ fircStale : ~FircWorking(r)) => files = {key} \ {None}

FircMetaInv == key # None => key \in metas \/ \E r \in Requests : upload[r].pc = "meta" /\ upload[r].name = key

FircOrderly == ~fircRaced /\ ~cut

FircIInv ==
  /\ FircTypeOK
  /\ FircShapeInv
  /\ FircOrderly => FircViewInv /\ FircAloneInv /\ FircRestInv /\ FircMetaInv /\ ~missed

LEMMA FircInitInv == FircInit => FircIInv
<1> SUFFICES ASSUME FircInit PROVE FircIInv
  OBVIOUS
<1> USE FircAssumption DEF FircInit, NoUpload
<1>1. upload \in [Requests -> Upload]
  BY DEF Upload
<1>2. uploads \in 0..MaxUploads
  OBVIOUS
<1>3. FircTypeOK
  BY <1>1, <1>2, Zenon DEF FircTypeOK
<1>4. FircShapeInv /\ FircViewInv /\ FircAloneInv
  BY DEF FircShapeInv, FircViewInv, FircAloneInv, FircWorking
<1>5. FircRestInv /\ FircMetaInv
  BY DEF FircRestInv, FircMetaInv
<1>6. QED
  BY <1>3, <1>4, <1>5, Zenon DEF FircIInv

LEMMA FircNextInv == FircIInv /\ [FircNext]_fircVars => FircIInv'
<1> SUFFICES ASSUME FircIInv, [FircNext]_fircVars PROVE FircIInv'
  OBVIOUS
<1> USE FircAssumption
    DEF FircTypeOK, Upload, NoUpload, fircVars, FircIInv, FircShapeInv, FircOrderly, FircWorking
<1>1. ASSUME NEW r \in Requests, NEW n \in Names, AttachFirc(r, n) PROVE FircIInv'
  <2>1. FircTypeOK' /\ FircShapeInv'
    BY <1>1 DEF AttachFirc, Starts, FirstStep
  <2>2. ASSUME FircOrderly' PROVE FircViewInv' /\ FircAloneInv' /\ FircRestInv' /\ FircMetaInv' /\ ~missed'
    <3>1. FircOrderly /\ FircViewInv /\ FircAloneInv /\ FircRestInv /\ FircMetaInv /\ ~missed
      BY <1>1, <2>2 DEF AttachFirc, Starts
    <3>2. FircViewInv'
      BY <1>1, <3>1 DEF AttachFirc, Starts, FirstStep, FircViewInv, FircRestInv
    <3>3. FircAloneInv'
      BY <1>1, <3>1 DEF AttachFirc, Starts, FirstStep, FircViewInv, FircAloneInv
    <3>4. FircRestInv'
      BY <1>1, <3>1 DEF AttachFirc, Starts, FirstStep, FircRestInv
    <3>5. FircMetaInv' /\ ~missed'
      BY <1>1, <3>1 DEF AttachFirc, Starts, FirstStep, FircMetaInv
    <3>6. QED
      BY <3>2, <3>3, <3>4, <3>5
  <2>3. QED
    BY <2>1, <2>2
<1>2. ASSUME NEW r \in Requests, RemoveOld(r) PROVE FircIInv'
  <2>1. FircTypeOK' /\ FircShapeInv'
    BY <1>2 DEF RemoveOld, Disturbs
  <2>2. ASSUME FircOrderly' PROVE FircViewInv' /\ FircAloneInv' /\ FircRestInv' /\ FircMetaInv' /\ ~missed'
    <3>1. /\ FircOrderly /\ FircViewInv /\ FircAloneInv /\ FircRestInv /\ FircMetaInv /\ ~missed
          /\ r \notin fircStale
      BY <1>2, <2>2 DEF RemoveOld, Disturbs
    <3>2. files' = {} /\ key' = key /\ upload[r].old = key
      BY <1>2, <2>2, <3>1 DEF RemoveOld, FircViewInv, FircAloneInv, FircRestInv
    <3>3. \A o \in Requests \ fircStale' : o = r \/ upload'[o].pc = "idle"
      BY <1>2 DEF RemoveOld, Disturbs
    <3>4. FircViewInv' /\ FircAloneInv'
      BY <1>2, <3>2, <3>3 DEF RemoveOld, FircViewInv, FircAloneInv
    <3>5. FircRestInv'
      BY <1>2 DEF RemoveOld, Disturbs, FircRestInv
    <3>6. FircMetaInv' /\ ~missed'
      BY <1>2, <3>1 DEF RemoveOld, FircMetaInv
    <3>7. QED
      BY <3>4, <3>5, <3>6
  <2>3. QED
    BY <2>1, <2>2
<1>3. ASSUME NEW r \in Requests, WriteFile(r) PROVE FircIInv'
  <2>1. FircTypeOK'
    <3>1. upload' \in [Requests -> Upload]
      BY <1>3 DEF WriteFile
    <3>2. files' \subseteq Names
      BY <1>3 DEF WriteFile
    <3>3. fircStale' \subseteq Requests /\ fircRaced' \in BOOLEAN
      BY <1>3 DEF WriteFile, Disturbs
    <3>4. cut' \in BOOLEAN /\ UNCHANGED <<key, metas, uploads, missed>>
      BY <1>3 DEF WriteFile
    <3>5. QED
      BY <3>1, <3>2, <3>3, <3>4
  <2>0. FircShapeInv'
    BY <1>3 DEF WriteFile, Disturbs
  <2>2. ASSUME FircOrderly' PROVE FircViewInv' /\ FircAloneInv' /\ FircRestInv' /\ FircMetaInv' /\ ~missed'
    <3>1. /\ FircOrderly /\ FircViewInv /\ FircMetaInv /\ ~missed
          /\ r \notin fircStale
          /\ files' = files \cup {upload[r].name}
          /\ upload' = [upload EXCEPT ![r].pc = "link"]
          /\ fircStale' = (fircStale \cup {o \in Requests : upload[o].pc # "idle"}) \ {r}
      BY <1>3, <2>2 DEF WriteFile, Disturbs
    <3>2. files' = {upload[r].name} /\ key' = key /\ upload[r].old = key
      BY <1>3, <3>1 DEF WriteFile, FircViewInv
    <3>3. \A o \in Requests \ fircStale' : o = r \/ upload'[o].pc = "idle"
      BY <3>1
    <3>4. FircViewInv' /\ FircAloneInv'
      BY <3>1, <3>2, <3>3 DEF FircViewInv, FircAloneInv
    <3>5. FircRestInv'
      BY <3>1 DEF FircRestInv
    <3>6. FircMetaInv' /\ ~missed'
      BY <1>3, <3>1 DEF WriteFile, FircMetaInv
    <3>7. QED
      BY <3>4, <3>5, <3>6
  <2>3. QED
    BY <2>0, <2>1, <2>2
<1>4. ASSUME NEW r \in Requests, LinkFile(r) PROVE FircIInv'
  <2>1. FircTypeOK' /\ FircShapeInv'
    BY <1>4 DEF LinkFile, Disturbs, Saved
  <2>2. ASSUME FircOrderly' PROVE FircViewInv' /\ FircAloneInv' /\ FircRestInv' /\ FircMetaInv' /\ ~missed'
    <3>1. /\ FircOrderly /\ FircViewInv /\ ~missed
          /\ r \notin fircStale
      BY <1>4, <2>2 DEF LinkFile, Disturbs
    <3>2. files' = {upload[r].name} /\ key' = upload[r].name /\ key' \in Names
      BY <1>4, <3>1 DEF LinkFile, Saved, FircViewInv
    <3>3. \A o \in Requests \ fircStale' : o = r \/ upload'[o].pc = "idle"
      BY <1>4 DEF LinkFile, Disturbs
    <3>4. FircViewInv' /\ FircAloneInv'
      BY <1>4, <3>3 DEF LinkFile, FircViewInv, FircAloneInv
    <3>5. FircRestInv' /\ FircMetaInv' /\ ~missed'
      BY <1>4, <3>1, <3>2 DEF LinkFile, FircRestInv, FircMetaInv
    <3>6. QED
      BY <3>4, <3>5
  <2>3. QED
    BY <2>1, <2>2
<1>5. ASSUME NEW r \in Requests, CreateMeta(r) PROVE FircIInv'
  <2>1. FircTypeOK' /\ FircShapeInv'
    BY <1>5 DEF CreateMeta
  <2>2. ASSUME FircOrderly' PROVE FircViewInv' /\ FircAloneInv' /\ FircRestInv' /\ FircMetaInv' /\ ~missed'
    <3>1. FircOrderly /\ FircViewInv /\ FircAloneInv /\ FircRestInv /\ FircMetaInv /\ ~missed
      BY <1>5, <2>2 DEF CreateMeta
    <3>2. FircViewInv' /\ FircAloneInv' /\ FircRestInv'
      BY <1>5, <3>1 DEF CreateMeta, FircViewInv, FircAloneInv, FircRestInv
    <3>3. FircMetaInv' /\ ~missed'
      BY <1>5, <3>1 DEF CreateMeta, FircMetaInv
    <3>4. QED
      BY <3>2, <3>3
  <2>3. QED
    BY <2>1, <2>2
<1>6. ASSUME NEW r \in Requests, BuildBundle(r) PROVE FircIInv'
  <2>1. FircTypeOK' /\ FircShapeInv'
    BY <1>6 DEF BuildBundle, Starts
  <2>2. ASSUME FircOrderly' PROVE FircViewInv' /\ FircAloneInv' /\ FircRestInv' /\ FircMetaInv' /\ ~missed'
    <3>1. FircOrderly /\ FircViewInv /\ FircAloneInv /\ FircRestInv /\ FircMetaInv /\ ~missed
      BY <1>6, <2>2 DEF BuildBundle, Starts
    <3>2. FircViewInv' /\ FircAloneInv'
      BY <1>6, <3>1 DEF BuildBundle, Starts, FircViewInv, FircAloneInv
    <3>3. FircRestInv'
      BY <1>6, <3>1 DEF BuildBundle, Starts, FircRestInv
    <3>4. FircMetaInv' /\ ~missed'
      BY <1>6, <3>1 DEF BuildBundle, Starts, FircMetaInv
    <3>5. QED
      BY <3>2, <3>3, <3>4
  <2>3. QED
    BY <2>1, <2>2
<1>7. ASSUME NEW r \in Requests, CollectFirc(r) PROVE FircIInv'
  <2>1. FircTypeOK' /\ FircShapeInv'
    BY <1>7 DEF CollectFirc
  <2>2. ASSUME FircOrderly' PROVE FircViewInv' /\ FircAloneInv' /\ FircRestInv' /\ FircMetaInv' /\ ~missed'
    <3>1. FircOrderly /\ FircViewInv /\ FircAloneInv /\ FircRestInv /\ FircMetaInv /\ ~missed
      BY <1>7, <2>2 DEF CollectFirc
    <3>2. r \notin fircStale => upload[r].old \in files
      BY <1>7, <3>1 DEF CollectFirc, FircViewInv, FircAloneInv, FircRestInv
    <3>3. FircViewInv' /\ FircAloneInv'
      BY <1>7, <3>1 DEF CollectFirc, FircViewInv, FircAloneInv
    <3>4. FircRestInv'
      BY <1>7, <3>1 DEF CollectFirc, FircRestInv
    <3>5. FircMetaInv' /\ ~missed'
      BY <1>7, <3>1, <3>2 DEF CollectFirc, FircMetaInv
    <3>6. QED
      BY <3>3, <3>4, <3>5
  <2>3. QED
    BY <2>1, <2>2
<1>8. ASSUME NEW r \in Requests, UploadDies(r) PROVE FircIInv'
  <2>1. FircTypeOK' /\ FircShapeInv'
    BY <1>8 DEF UploadDies
  <2>2. ASSUME FircOrderly' PROVE FircViewInv' /\ FircAloneInv' /\ FircRestInv' /\ FircMetaInv' /\ ~missed'
    <3>1. /\ FircOrderly /\ FircViewInv /\ FircAloneInv /\ FircRestInv /\ FircMetaInv /\ ~missed
          /\ upload[r].pc \in {"remove", "collect"}
      BY <1>8, <2>2 DEF UploadDies
    <3>2. FircViewInv' /\ FircAloneInv'
      BY <1>8, <3>1 DEF UploadDies, FircViewInv, FircAloneInv
    <3>3. FircRestInv'
      BY <1>8, <3>1 DEF UploadDies, FircRestInv
    <3>4. FircMetaInv' /\ ~missed'
      BY <1>8, <3>1 DEF UploadDies, FircMetaInv
    <3>5. QED
      BY <3>2, <3>3, <3>4
  <2>3. QED
    BY <2>1, <2>2
<1>9. ASSUME UNCHANGED fircVars PROVE FircIInv'
  BY <1>9 DEF FircViewInv, FircAloneInv, FircRestInv, FircMetaInv
<1>10. QED
  BY <1>1, <1>2, <1>3, <1>4, <1>5, <1>6, <1>7, <1>8, <1>9 DEF FircNext

\* The invariant holds in every reachable state.
THEOREM FircInvariance == FircSpec => []FircIInv
  BY FircInitInv, FircNextInv, PTL DEF FircSpec

\* Every variable keeps its type.
THEOREM FircTypes == FircSpec => []FircTypeOK
<1>1. FircIInv => FircTypeOK
  BY DEF FircIInv
<1>2. QED
  BY FircInvariance, <1>1, PTL

\* remittances.service.ts 62-117: the directory, the link, the metadata and the
\* bundles agree, if uploads did not overlap and none was cut short.
THEOREM FircAlwaysKept == FircSpec => []FircKept
<1>1. ASSUME FircIInv PROVE FircKept
  <2>1. SUFFICES ASSUME ~fircRaced, ~cut
                 PROVE  /\ ~missed
                        /\ (\A r \in Requests : upload[r].pc \in {"idle", "remove", "collect"}) =>
                             files = {key} \ {None} /\ files \subseteq metas
    BY DEF FircKept
  <2>2. FircRestInv /\ FircMetaInv /\ ~missed
    BY <1>1, <2>1 DEF FircIInv, FircOrderly
  <2>3. QED
    BY <2>2 DEF FircRestInv, FircMetaInv, FircWorking
<1>2. QED
  BY FircInvariance, <1>1, PTL
=============================================================================
