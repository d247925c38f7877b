------------------------------ MODULE Sessions ------------------------------
(***************************************************************************)
(* Registration of an account and the refresh tokens of its sessions.      *)
(*                                                                         *)
(* A refresh token is a signed string: two of the same family that are     *)
(* signed within a second are the same string, so a token is named by its  *)
(* family and that second.  Every login starts a family; refreshing tests  *)
(* the newest document of the family, revokes it, and inserts the next.    *)
(* One e-mail address is modelled; passwords, the access token and the     *)
(* expiry of a refresh token, which change no state, are left out.         *)
(*                                                                         *)
(* NoIndexOnEmail and NotRevoked are faults that no action uses.           *)
(***************************************************************************)
EXTENDS Handlers, Sequences

CONSTANTS
  Orgs,       \* organisations that may be created
  Families,   \* token families that may be started
  LastSecond, \* bound: the clock of the signatures
  MaxAuthCalls \* bound: requests that are begun

ASSUME SessionsAssumption ==
  None \notin Orgs \cup Families /\ LastSecond \in Nat \ {0} /\ MaxAuthCalls \in Nat

VARIABLES
  orgs,      \* organizations: "none", "made", or "owned" once ownerId is set
  account,   \* the user with the address
  tokens,    \* refresh_tokens of each family, oldest first
  second,
  auth,      \* requests in flight
  authCalls, \* requests begun so far
  losers,    \* history: organisations whose user was refused by the unique index
  authDied,  \* history: a request died between its organisation and the owner
  rivals     \* history: families two requests were about to rotate at one time

authHistory == <<losers, authDied, rivals>>
authVars == <<orgs, account, tokens, second, auth, authCalls, authHistory>>

Seconds == 1..LastSecond
Token == [signed : Seconds, revoked : BOOLEAN]
Account == [org : Orgs \cup {None}, google : BOOLEAN, emailVerified : BOOLEAN]
NoAccount == [org |-> None, google |-> FALSE, emailVerified |-> FALSE]

AuthRequest == [pc     : {"idle", "org", "user", "owner", "email", "link",
                          "burn", "rotate", "sign", "insert"},
                google : BOOLEAN,
                org    : Orgs \cup {None},
                family : Families \cup {None},   \* None: the token starts a family
                doc    : 0..MaxAuthCalls,        \* the document it has read
                signed : Seconds \cup {0}]
Away == [pc |-> "idle", google |-> FALSE, org |-> None, family |-> None, doc |-> 0, signed |-> 0]

SessionsTypeOK ==
  /\ orgs \in [Orgs -> {"none", "made", "owned"}]
  /\ account \in Account
  /\ tokens \in [Families -> Seq(Token)]
  /\ \A f \in Families : Len(tokens[f]) <= MaxAuthCalls
  /\ second \in Seconds
  /\ auth \in [Requests -> AuthRequest]
  /\ authCalls \in 0..MaxAuthCalls
  /\ losers \subseteq Orgs /\ authDied \in BOOLEAN /\ rivals \subseteq Families

SessionsInit ==
  /\ orgs = [o \in Orgs |-> "none"]
  /\ account = NoAccount
  /\ tokens = [f \in Families |-> <<>>]
  /\ second = 1
  /\ auth = [r \in Requests |-> Away]
  /\ authCalls = 0
  /\ losers = {} /\ authDied = FALSE /\ rivals = {}

Registered == account # NoAccount
Issued(f) == {tokens[f][i].signed : i \in DOMAIN tokens[f]}

Enters(r, q) ==
  /\ auth[r].pc = "idle"
  /\ authCalls < MaxAuthCalls
  /\ authCalls' = authCalls + 1
  /\ auth' = [auth EXCEPT ![r] = q]
  /\ UNCHANGED <<orgs, account, tokens, second, losers, authDied>>

Goes(r, pc) == auth' = [auth EXCEPT ![r].pc = pc]

(***************************************************************************)
(* Accounts.                                                               *)
(***************************************************************************)
Register(r) ==
  /\ ~Registered
  /\ Enters(r, [Away EXCEPT !.pc = "org"])
  /\ UNCHANGED rivals

Login(r) ==
  /\ Registered
  /\ Enters(r, [Away EXCEPT !.pc = "sign"])
  /\ UNCHANGED rivals

LoginWithGoogle(r) ==
  /\ Enters(r, [Away EXCEPT !.google = TRUE,
                            !.pc = IF ~Registered THEN "org" ELSE IF account.google THEN "sign" ELSE "link"])
  /\ UNCHANGED rivals

CreateForOwner(r, o) ==
  /\ auth[r].pc = "org" /\ orgs[o] = "none"
  /\ orgs' = [orgs EXCEPT ![o] = "made"]
  /\ auth' = [auth EXCEPT ![r].pc = "user", ![r].org = o]
  /\ UNCHANGED <<account, tokens, second, authCalls, authHistory>>

NoIndexOnEmail == FALSE
\* The unique index on the address.
EmailTaken == Registered

CreateUser(r) ==
  LET q == auth[r] IN
  /\ q.pc = "user"
  /\ \/ /\ EmailTaken
        /\ auth' = [auth EXCEPT ![r] = Away]
        /\ losers' = losers \cup {q.org}
        /\ UNCHANGED account
     \/ /\ ~EmailTaken
        /\ account' = [org |-> q.org, google |-> q.google, emailVerified |-> FALSE]
        /\ Goes(r, "owner")
        /\ UNCHANGED losers
  /\ UNCHANGED <<orgs, tokens, second, authCalls, authDied, rivals>>

SetOwner(r) ==
  /\ auth[r].pc = "owner"
  /\ orgs' = [orgs EXCEPT ![auth[r].org] = "owned"]
  /\ Goes(r, IF auth[r].google THEN "email" ELSE "sign")
  /\ UNCHANGED <<account, tokens, second, authCalls, authHistory>>

MarkEmailVerified(r) ==
  /\ auth[r].pc = "email"
  /\ account' = [account EXCEPT !.emailVerified = TRUE]
  /\ Goes(r, "sign")
  /\ UNCHANGED <<orgs, tokens, second, authCalls, authHistory>>

LinkGoogle(r) ==
  /\ auth[r].pc = "link"
  /\ account' = [account EXCEPT !.google = TRUE, !.emailVerified = TRUE]
  /\ Goes(r, "sign")
  /\ UNCHANGED <<orgs, tokens, second, authCalls, authHistory>>

(***************************************************************************)
(* Tokens.                                                                 *)
(***************************************************************************)
NotRevoked(f, signed) == tokens[f][Len(tokens[f])].signed = signed
\* The presented token is the newest of its family and has not been revoked.
Current(f, signed) ==
  LET newest == tokens[f][Len(tokens[f])] IN ~newest.revoked /\ newest.signed = signed

Rotating(f) == {r \in Requests : auth[r].family = f /\ auth[r].pc = "rotate"}

\* Whoever presents a token has been issued it at some time.
Refresh(r, f, signed) ==
  /\ signed \in Issued(f)
  /\ Enters(r, [Away EXCEPT !.pc = IF Current(f, signed) THEN "rotate" ELSE "burn",
                            !.family = f, !.doc = Len(tokens[f])])
  /\ rivals' = IF Current(f, signed) /\ Rotating(f) # {} THEN rivals \cup {f} ELSE rivals

Revoked(f) == [i \in DOMAIN tokens[f] |-> [tokens[f][i] EXCEPT !.revoked = TRUE]]

RevokeFamily(r) ==
  /\ auth[r].pc = "burn"
  /\ tokens' = [tokens EXCEPT ![auth[r].family] = Revoked(auth[r].family)]
  /\ auth' = [auth EXCEPT ![r] = Away]
  /\ UNCHANGED <<orgs, account, second, authCalls, authHistory>>

\* save() of the document that was read; the next token may still come to nothing.
Rotate(r) ==
  LET q == auth[r] IN
  /\ q.pc = "rotate"
  /\ tokens' = [tokens EXCEPT ![q.family] =
                  [tokens[q.family] EXCEPT ![q.doc] = [signed |-> tokens[q.family][q.doc].signed,
                                                       revoked |-> TRUE]]]
  /\ Goes(r, "sign")
  /\ UNCHANGED <<orgs, account, second, authCalls, authHistory>>

Unstarted == {f \in Families : tokens[f] = <<>> /\ \A r \in Requests : auth[r].family # f}

SignRefresh(r) ==
  /\ auth[r].pc = "sign"
  /\ \E f \in IF auth[r].family = None THEN Unstarted ELSE {auth[r].family} :
       auth' = [auth EXCEPT ![r].pc = "insert", ![r].family = f, ![r].signed = second]
  /\ UNCHANGED <<orgs, account, tokens, second, authCalls, authHistory>>

InsertToken(r) ==
  LET q == auth[r] IN
  /\ q.pc = "insert"
  /\ tokens' = [tokens EXCEPT ![q.family] = Append(@, [signed |-> q.signed, revoked |-> FALSE])]
  /\ auth' = [auth EXCEPT ![r] = Away]
  /\ UNCHANGED <<orgs, account, second, authCalls, authHistory>>

\* The controller names no family, so every document of the user is revoked.
Logout ==
  /\ \E f \in Families : \E i \in DOMAIN tokens[f] : ~tokens[f][i].revoked
  /\ tokens' = [f \in Families |-> Revoked(f)]
  /\ UNCHANGED <<orgs, account, second, auth, authCalls, authHistory>>

Tick ==
  /\ second < LastSecond
  /\ second' = second + 1
  /\ UNCHANGED <<orgs, account, tokens, auth, authCalls, authHistory>>

AuthDies(r) ==
  /\ auth[r].pc # "idle"
  /\ auth' = [auth EXCEPT ![r] = Away]
  /\ authDied' = (authDied \/ auth[r].pc \in {"user", "owner"})
  /\ UNCHANGED <<orgs, account, tokens, second, authCalls, losers, rivals>>

SessionsNext ==
  \/ Logout
  \/ Tick
  \/ \E r \in Requests :
       \/ Register(r) \/ Login(r) \/ LoginWithGoogle(r)
       \/ \E o \in Orgs : CreateForOwner(r, o)
       \/ CreateUser(r) \/ SetOwner(r) \/ MarkEmailVerified(r) \/ LinkGoogle(r)
       \/ \E f \in Families, signed \in Seconds : Refresh(r, f, signed)
       \/ RevokeFamily(r) \/ Rotate(r) \/ SignRefresh(r) \/ InsertToken(r)
       \/ AuthDies(r)

SessionsSpec == SessionsInit /\ [][SessionsNext]_authVars
---------------------------------------------------------------------------
(***************************************************************************)
(* Properties.                                                             *)
(***************************************************************************)
Live(f) == {i \in DOMAIN tokens[f] : ~tokens[f][i].revoked}

\* Past the test, with the next token still to be inserted.
InRotation(f) == {r \in Requests : auth[r].family = f /\ auth[r].pc \in {"rotate", "sign", "insert"}}
Dead(f) == tokens[f] # <<>> /\ Live(f) = {} /\ InRotation(f) = {}

\* auth.service.ts 104-131: a family has at most one token that works, however
\* many requests present whichever of its tokens, unless two of them pass the test
\* before either has revoked; and a family that was burnt or logged out works
\* again for nobody, once no request that passed the test before is still running.
FamilyRotates ==
  [][\A f \in Families :
       /\ f \notin rivals' => \A i, j \in Live(f)' : i = j
       /\ Dead(f) => Dead(f)']_authVars

\* Lines 41-53, 74-81: without a death every organisation that is owned is the
\* account's, the account's own has its owner once the handler returns, and the
\* only ownerless ones are those whose registration lost to another one.
AccountOwned ==
  ~authDied =>
    /\ \A o \in Orgs : orgs[o] = "owned" => account.org = o
    /\ \A o \in Orgs : orgs[o] = "made" /\ o \notin losers =>
         \E r \in Requests : auth[r].org = o /\ auth[r].pc \in {"user", "owner"}
===========================================================================
