---------------------------- MODULE Registration ----------------------------
(***************************************************************************)
(* Accounts and invites on the server: invites that expire, and the        *)
(* transactions of register, which lock an invite, insert an account and   *)
(* use the invite up.  Each statement of a transaction is a step, between  *)
(* two of which others run or the transaction is rolled back.              *)
(***************************************************************************)
EXTENDS Integers

CONSTANTS
  Registrant,  \* calls of register that can be under way at once
  Nickname,
  Invite,
  InviteLife,  \* the two days for which an invite is good
  LastDay,     \* bound of the model: the clock of the database
  Nobody       \* no account, no invite

ASSUME RegistrationAssumption ==
  /\ Nobody \notin Nickname \union Invite
  /\ InviteLife \in Nat \ {0} /\ LastDay \in Nat

VARIABLES
  day,          \* the clock of the database
  invites,      \* table registration_invites: expires_at, used_by_user_id
  accounts,     \* table users: which invite made the account, and when it was asked for
  registration  \* the calls of register

registrationVars == <<day, invites, accounts, registration>>

NoInvite == [expires |-> 0, usedBy |-> Nobody]  \* generate_invite has not made it yet
NoAccount == [invite |-> Nobody, asked |-> 0]

\* What register is called with: the secret is that of the invite, or is not.
RegisterRequest == [name : Nickname, invite : Invite, secret : BOOLEAN]
NoRegistration == [at |-> "idle"]
\* A transaction remembers NOW(), which is the time it began.
Transaction == [at : {"begun", "locked", "created"}, request : RegisterRequest, now : 0 .. LastDay]

RegistrationTypeOK ==
  /\ day \in 0 .. LastDay
  /\ invites \in [Invite -> [expires : 0 .. LastDay + InviteLife, usedBy : Nickname \union {Nobody}]]
  /\ accounts \in [Nickname -> [invite : Invite, asked : 0 .. LastDay] \union {NoAccount}]
  /\ registration \in [Registrant -> Transaction \union {NoRegistration}]

RegistrationInit ==
  /\ day = 0
  /\ invites = [i \in Invite |-> NoInvite]
  /\ accounts = [u \in Nickname |-> NoAccount]
  /\ registration = [r \in Registrant |-> NoRegistration]

-----------------------------------------------------------------------------
\* The calls other than r that hold the row lock of an invite.
InviteLocked(r, i) ==
  \E other \in Registrant \ {r} :
    registration[other].at \in {"locked", "created"} /\ registration[other].request.invite = i

\* The calls other than r that have inserted a nickname and not committed it.
NicknamePending(r, u) ==
  \E other \in Registrant \ {r} :
    registration[other].at = "created" /\ registration[other].request.name = u

\* insert_invite
NewInvite == [expires |-> day + InviteLife, usedBy |-> Nobody]

GenerateInvite(i) ==
  /\ invites[i] = NoInvite
  /\ invites' = [invites EXCEPT ![i] = NewInvite]
  /\ UNCHANGED <<day, accounts, registration>>

RegisterBegin(r, request) ==
  /\ registration[r] = NoRegistration
  /\ registration' = [registration EXCEPT ![r] = [at |-> "begun", request |-> request, now |-> day]]
  /\ UNCHANGED <<day, invites, accounts>>

\* The invite admits the request of a transaction.
Admitted(call) ==
  LET stored == invites[call.request.invite]
  IN  /\ stored # NoInvite
      /\ stored.usedBy = Nobody
      /\ stored.expires > call.now
      /\ call.request.secret

\* The call goes on if a condition holds; otherwise it is refused and rolled back.
NextIf(r, condition, at) ==
  registration' = [registration EXCEPT ![r] = IF condition THEN [@ EXCEPT !.at = at] ELSE NoRegistration]

\* Mutant of FindInvite: the lookup does not lock the row.
FindInviteUnlocked(r) ==
  /\ registration[r].at = "begun"
  /\ NextIf(r, Admitted(registration[r]), "locked")
  /\ UNCHANGED <<day, invites, accounts>>

\* find_invite waits for the row lock, takes it and reads what was committed before.
FindInvite(r) ==
  /\ registration[r].at = "begun"
  /\ ~InviteLocked(r, registration[r].request.invite)
  /\ NextIf(r, Admitted(registration[r]), "locked")
  /\ UNCHANGED <<day, invites, accounts>>

\* create_user_tx: an insert of the same nickname that is not committed is waited for.
CreateUser(r) ==
  /\ registration[r].at = "locked"
  /\ ~NicknamePending(r, registration[r].request.name)
  /\ NextIf(r, accounts[registration[r].request.name] = NoAccount, "created")
  /\ UNCHANGED <<day, invites, accounts>>

\* mark_used: a row that is used already stays as it is.
MarkUsed(i, u) == invites' = [invites EXCEPT ![i].usedBy = IF @ = Nobody THEN u ELSE @]

\* mark_used, whose row count is not looked at, and the commit.
RegisterCommit(r) ==
  /\ registration[r].at = "created"
  /\ LET call == registration[r]
         u == call.request.name
         i == call.request.invite
     IN  /\ accounts' = [accounts EXCEPT ![u] = [invite |-> i, asked |-> call.now]]
         /\ MarkUsed(i, u)
  /\ registration' = [registration EXCEPT ![r] = NoRegistration]
  /\ UNCHANGED day

\* A statement fails, the connection breaks or the server ends: rollback.
RegisterFails(r) ==
  /\ registration[r] # NoRegistration
  /\ registration' = [registration EXCEPT ![r] = NoRegistration]
  /\ UNCHANGED <<day, invites, accounts>>

NextDay == day < LastDay /\ day' = day + 1 /\ UNCHANGED <<invites, accounts, registration>>

RegistrationNext ==
  \/ \E i \in Invite : GenerateInvite(i)
  \/ \E r \in Registrant :
       \/ \E request \in RegisterRequest : RegisterBegin(r, request)
       \/ FindInvite(r) \/ CreateUser(r) \/ RegisterCommit(r) \/ RegisterFails(r)
  \/ NextDay

-----------------------------------------------------------------------------
\* Every account was made by an invite of its own, which was good when the registration
\* began, and every used invite names the account it made: no registration that fails
\* half-way uses up an invite or leaves an account behind, and two that use one invite
\* at the same time make one account.
OneInviteOneAccount ==
  /\ \A u \in Nickname : accounts[u] # NoAccount =>
       LET i == accounts[u].invite
       IN  invites[i].usedBy = u /\ accounts[u].asked < invites[i].expires
  /\ \A i \in Invite : invites[i].usedBy # Nobody => accounts[invites[i].usedBy].invite = i
=============================================================================
