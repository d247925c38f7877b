----------------------------- MODULE AadhaarGate -----------------------------
(***************************************************************************)
(* One Aadhaar verification: the document that counts the attempts and     *)
(* the one-time password that waits at the provider (the sandbox, whose    *)
(* table is in memory).  A guess is right or wrong; which one it is, is    *)
(* the caller's choice.                                                    *)
(*                                                                         *)
(* StaysPending is a fault that no action uses.                            *)
(***************************************************************************)
EXTENDS Handlers

CONSTANTS
  MaxAttempts, \* the attempt that makes a verification 'failed': 5 in the code
  MaxGuesses   \* bound: requests to verify that are begun

ASSUME AadhaarAssumption == MaxAttempts \in Nat \ {0} /\ MaxGuesses \in Nat

VARIABLES
  verification, \* the aadhaar_verifications document
  pending,      \* at the provider: the password can still be used
  guess,        \* requests in flight
  guesses,      \* requests to verify begun so far
  answered,     \* history: guesses the provider has answered
  confirmed,    \* history: right ones among them
  guessStale,   \* history: requests whose document another one has saved
  guessRaced,   \* history: one of them has saved it
  unsaved       \* history: a request died with the provider's answer

aadhaarHistory == <<answered, confirmed, guessStale, guessRaced, unsaved>>
aadhaarVars == <<verification, pending, guess, guesses, aadhaarHistory>>

VerificationStatus == {"otp_sent", "verified", "failed"}
Verification == [status : VerificationStatus \cup {"none"}, attempts : 0..MaxGuesses]
NoVerification == [status |-> "none", attempts |-> 0]
Guess == [pc : {"idle", "send", "ask", "save"}, right : BOOLEAN,
          old : Verification, new : Verification]
NoGuess == [pc |-> "idle", right |-> FALSE, old |-> NoVerification, new |-> NoVerification]

AadhaarTypeOK ==
  /\ verification \in Verification /\ pending \in BOOLEAN
  /\ guess \in [Requests -> Guess]
  /\ guesses \in 0..MaxGuesses /\ answered \in 0..MaxGuesses /\ confirmed \in 0..MaxGuesses
  /\ guessStale \subseteq Requests /\ guessRaced \in BOOLEAN /\ unsaved \in BOOLEAN

AadhaarInit ==
  /\ verification = NoVerification /\ pending = FALSE
  /\ guess = [r \in Requests |-> NoGuess]
  /\ guesses = 0 /\ answered = 0 /\ confirmed = 0
  /\ guessStale = {} /\ guessRaced = FALSE /\ unsaved = FALSE

Sending == \E r \in Requests : guess[r].pc = "send"

\* A resend is another verification with a reference of its own.
Initiate(r) ==
  /\ verification.status = "none" /\ ~pending /\ ~Sending
  /\ guess[r].pc = "idle"
  /\ pending' = TRUE
  /\ guess' = [guess EXCEPT ![r].pc = "send"]
  /\ UNCHANGED <<verification, guesses, aadhaarHistory>>

CreateVerification(r) ==
  /\ guess[r].pc = "send"
  /\ verification' = [status |-> "otp_sent", attempts |-> 0]
  /\ guess' = [guess EXCEPT ![r] = NoGuess]
  /\ UNCHANGED <<pending, guesses, aadhaarHistory>>

\* 'failed' is not asked for: such a verification can still be answered.
Verify(r, right) ==
  /\ verification.status \notin {"none", "verified"}
  /\ guess[r].pc = "idle"
  /\ guesses < MaxGuesses
  /\ guesses' = guesses + 1
  /\ guess' = [guess EXCEPT ![r] =
       [pc |-> "ask", right |-> right, old |-> verification,
        new |-> [verification EXCEPT !.attempts = @ + 1]]]
  /\ UNCHANGED <<verification, pending, aadhaarHistory>>

StatusAfter(v, ok) == IF ok THEN "verified" ELSE IF v.attempts >= MaxAttempts THEN "failed" ELSE v.status

StaysPending(ok) == pending
\* A right guess uses the password up.
PendingAfter(ok) == pending /\ ~ok

ProviderVerifies(r) ==
  LET q  == guess[r]
      ok == pending /\ q.right
  IN
  /\ q.pc = "ask"
  /\ pending' = PendingAfter(ok)
  /\ guess' = [guess EXCEPT ![r] = [pc |-> "save", right |-> ok, old |-> q.old,
                 new |-> [status |-> StatusAfter(q.new, ok), attempts |-> q.new.attempts]]]
  /\ answered' = answered + 1
  /\ confirmed' = IF ok THEN confirmed + 1 ELSE confirmed
  /\ UNCHANGED <<verification, guesses, guessStale, guessRaced, unsaved>>

\* Ten minutes pass, or the process that holds the table restarts.
PasswordLost ==
  /\ pending
  /\ pending' = FALSE
  /\ UNCHANGED <<verification, guess, guesses, aadhaarHistory>>

SaveVerification(r) ==
  LET q == guess[r] IN
  /\ q.pc = "save"
  /\ verification' = [status   |-> Saved(verification.status, q.old.status, q.new.status),
                      attempts |-> Saved(verification.attempts, q.old.attempts, q.new.attempts)]
  /\ guess' = [guess EXCEPT ![r] = NoGuess]
  /\ guessStale' = (guessStale \cup {o \in Requests : guess[o].pc \in {"ask", "save"}}) \ {r}
  /\ guessRaced' = (guessRaced \/ r \in guessStale)
  /\ UNCHANGED <<pending, guesses, answered, confirmed, unsaved>>

GuessDies(r) ==
  /\ guess[r].pc # "idle"
  /\ unsaved' = (unsaved \/ guess[r].pc = "save")
  /\ guess' = [guess EXCEPT ![r] = NoGuess]
  /\ guessStale' = guessStale \ {r}
  /\ UNCHANGED <<verification, pending, guesses, answered, confirmed, guessRaced>>

AadhaarNext ==
  \/ PasswordLost
  \/ \E r \in Requests :
       \/ Initiate(r) \/ CreateVerification(r)
       \/ \E right \in BOOLEAN : Verify(r, right)
       \/ ProviderVerifies(r) \/ SaveVerification(r) \/ GuessDies(r)

AadhaarSpec == AadhaarInit /\ [][AadhaarNext]_aadhaarVars
---------------------------------------------------------------------------
(***************************************************************************)
(* Property.                                                               *)
(***************************************************************************)

\* aadhaar.service.ts 37-55, with the sandbox: however guesses overlap, at most
\* one is confirmed and no verification is 'verified' without it; and unless one
\* was saved over another or died unsaved, once none is being saved the attempts
\* are those the provider answered, and the status is what they make it.
AttemptsCounted ==
  /\ confirmed <= 1
  /\ verification.status = "verified" => confirmed = 1
  /\ ~guessRaced /\ ~unsaved /\ (\A r \in Requests : guess[r].pc # "save") =>
       /\ verification.attempts = answered
       /\ confirmed = 1 => verification.status = "verified"
       /\ confirmed = 0 /\ answered > 0 =>
            (verification.status = "failed" <=> answered >= MaxAttempts)
===========================================================================
