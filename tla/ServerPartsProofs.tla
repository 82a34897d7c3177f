-------------------------- MODULE ServerPartsProofs --------------------------
(***************************************************************************)
(* Proofs about the parts of the server that share no state: accounts and  *)
(* invites (Registration), devices and tokens (DevicePresence), the queue  *)
(* of call signals (CallSignaling), one-time prekeys (BundlePool) and the  *)
(* limit on logins (LoginRateLimit).                                       *)
(***************************************************************************)
EXTENDS Registration, DevicePresence, CallSignaling, BundlePool, LoginRateLimit,
        SignalQueueProofs

(***************************************************************************)
(* Registration: every account has an invite of its own.                   *)
(***************************************************************************)
RegistrationSpec == RegistrationInit /\ [][RegistrationNext]_registrationVars

\* The calls that hold the row lock of their invite.
Holding == {r \in Registrant : registration[r].at \in {"locked", "created"}}

\* A call that holds the lock alone does so, of an invite that is still good for it.
HoldersAlone ==
  \A r \in Holding :
    LET call == registration[r]
        i    == call.request.invite
    IN  /\ invites[i].usedBy = Nobody
        /\ call.now < invites[i].expires
        /\ \A other \in Holding \ {r} : registration[other].request.invite # i

\* A call that has inserted its nickname is alone in that, and nobody has an account
\* of that name.
NamesAlone ==
  \A r \in Registrant : registration[r].at = "created" =>
    /\ accounts[registration[r].request.name] = NoAccount
    /\ \A other \in Registrant \ {r} : registration[other].at = "created" =>
         registration[other].request.name # registration[r].request.name

RegistrationInv ==
  RegistrationTypeOK /\ OneInviteOneAccount /\ HoldersAlone /\ NamesAlone

-----------------------------------------------------------------------------
\* Initially there is no account, no invite and no call.
LEMMA RegistrationInitial == RegistrationInit => RegistrationInv
BY RegistrationAssumption
DEF RegistrationInit, RegistrationInv, RegistrationTypeOK, OneInviteOneAccount, HoldersAlone,
    NamesAlone, Holding, NoInvite, NoAccount, NoRegistration

\* A call in a transaction is one of the set of transactions.
LEMMA CallType ==
  ASSUME RegistrationTypeOK, NEW r \in Registrant, registration[r].at # "idle"
  PROVE  /\ registration[r] \in Transaction
         /\ registration[r].request \in RegisterRequest
         /\ registration[r].request.name \in Nickname
         /\ registration[r].request.invite \in Invite
         /\ registration[r].now \in Nat
BY RegistrationAssumption
DEF RegistrationTypeOK, NoRegistration, Transaction, RegisterRequest

\* A call that ends without a commit leaves the others what they have.
LEMMA CallEnds ==
  ASSUME RegistrationInv, NEW r \in Registrant,
         registration' = [registration EXCEPT ![r] = NoRegistration],
         UNCHANGED <<day, invites, accounts>>
  PROVE  RegistrationInv'
BY DEF RegistrationInv, RegistrationTypeOK, OneInviteOneAccount, HoldersAlone, NamesAlone, Holding,
       NoRegistration

-----------------------------------------------------------------------------
\* An invite that is generated was not there, so no call holds it and no account has it.
LEMMA GenerateInviteStep ==
  ASSUME RegistrationInv, NEW i \in Invite, GenerateInvite(i)
  PROVE  RegistrationInv'
<1> USE RegistrationAssumption DEF GenerateInvite, RegistrationInv
<1>1. RegistrationTypeOK'
  BY DEF RegistrationTypeOK, NewInvite
<1>2. OneInviteOneAccount'
  BY DEF RegistrationTypeOK, OneInviteOneAccount, NewInvite, NoInvite, NoAccount
<1>3. HoldersAlone'
  <2>1. \A r \in Holding : registration[r].request.invite \in Invite \ {i}
    BY CallType DEF HoldersAlone, Holding, RegistrationTypeOK, NoInvite
  <2> QED
    BY <2>1, CallType DEF HoldersAlone, Holding, RegistrationTypeOK
<1>4. NamesAlone'
  BY DEF NamesAlone
<1> QED
  BY <1>1, <1>2, <1>3, <1>4

\* A call that begins holds nothing yet.
LEMMA RegisterBeginStep ==
  ASSUME RegistrationInv, NEW r \in Registrant, NEW request \in RegisterRequest,
         RegisterBegin(r, request)
  PROVE  RegistrationInv'
<1> USE DEF RegisterBegin, RegistrationInv
<1>1. RegistrationTypeOK'
  BY DEF RegistrationTypeOK, Transaction
<1>2. OneInviteOneAccount'
  BY DEF OneInviteOneAccount
<1>3. HoldersAlone' /\ NamesAlone'
  BY DEF HoldersAlone, NamesAlone, Holding, RegistrationTypeOK
<1> QED
  BY <1>1, <1>2, <1>3

\* The lock is waited for, and the invite is looked at under the lock.
LEMMA FindInviteStep ==
  ASSUME RegistrationInv, NEW r \in Registrant, FindInvite(r)
  PROVE  RegistrationInv'
<1>1. CASE ~Admitted(registration[r])
  BY <1>1, CallEnds DEF FindInvite, NextIf
<1>2. CASE Admitted(registration[r])
  <2>1. /\ registration[r].at = "begun"
        /\ registration' = [registration EXCEPT ![r] = [@ EXCEPT !.at = "locked"]]
        /\ UNCHANGED <<day, invites, accounts>>
    BY <1>2 DEF FindInvite, NextIf
  <2>2. registration[r] \in Transaction
    BY <2>1, CallType DEF RegistrationInv
  <2>3. RegistrationTypeOK'
    BY <2>1, <2>2 DEF RegistrationInv, RegistrationTypeOK, Transaction
  <2>4. OneInviteOneAccount'
    BY <2>1 DEF RegistrationInv, OneInviteOneAccount
  <2>5. HoldersAlone'
    <3>1. \A other \in Holding \ {r} :
            registration[other].request.invite # registration[r].request.invite
      BY DEF FindInvite, InviteLocked, Holding
    <3>2. LET i == registration[r].request.invite
          IN  invites[i].usedBy = Nobody /\ registration[r].now < invites[i].expires
      <4>1. /\ registration[r].now \in Nat
            /\ invites[registration[r].request.invite].expires \in Int
        BY <2>1, CallType, RegistrationAssumption DEF RegistrationInv, RegistrationTypeOK
      <4> QED
        BY <1>2, <4>1 DEF Admitted
    <3> QED
      BY <2>1, <2>2, <3>1, <3>2
      DEF RegistrationInv, RegistrationTypeOK, HoldersAlone, Holding, Transaction
  <2>6. NamesAlone'
    BY <2>1, <2>2 DEF RegistrationInv, RegistrationTypeOK, NamesAlone, Transaction
  <2> QED
    BY <2>3, <2>4, <2>5, <2>6 DEF RegistrationInv
<1> QED
  BY <1>1, <1>2

\* The nickname is waited for as well.
LEMMA CreateUserStep ==
  ASSUME RegistrationInv, NEW r \in Registrant, CreateUser(r)
  PROVE  RegistrationInv'
<1> DEFINE free == accounts[registration[r].request.name] = NoAccount
<1>1. CASE ~free
  BY <1>1, CallEnds DEF CreateUser, NextIf
<1>2. CASE free
  <2>1. /\ registration[r].at = "locked"
        /\ registration' = [registration EXCEPT ![r] = [@ EXCEPT !.at = "created"]]
        /\ UNCHANGED <<day, invites, accounts>>
    BY <1>2 DEF CreateUser, NextIf
  <2>2. registration[r] \in Transaction
    BY <2>1, CallType DEF RegistrationInv
  <2>3. RegistrationTypeOK'
    BY <2>1, <2>2 DEF RegistrationInv, RegistrationTypeOK, Transaction
  <2>4. OneInviteOneAccount'
    BY <2>1 DEF RegistrationInv, OneInviteOneAccount
  <2>5. HoldersAlone'
    BY <2>1, <2>2 DEF RegistrationInv, RegistrationTypeOK, HoldersAlone, Holding, Transaction
  <2>6. NamesAlone'
    <3>1. \A other \in Registrant \ {r} : registration[other].at = "created" =>
            registration[other].request.name # registration[r].request.name
      BY DEF CreateUser, NicknamePending
    <3> QED
      BY <1>2, <2>1, <2>2, <3>1
      DEF RegistrationInv, RegistrationTypeOK, NamesAlone, Transaction
  <2> QED
    BY <2>3, <2>4, <2>5, <2>6 DEF RegistrationInv
<1> QED
  BY <1>1, <1>2

\* The commit makes the account and uses the invite, which the call alone has locked.
LEMMA RegisterCommitStep ==
  ASSUME RegistrationInv, NEW r \in Registrant, RegisterCommit(r)
  PROVE  RegistrationInv'
<1> DEFINE u == registration[r].request.name
           i == registration[r].request.invite
           made == [invite |-> i, asked |-> registration[r].now]
<1>1. /\ registration[r].at = "created"
      /\ r \in Holding
      /\ u \in Nickname /\ i \in Invite
      /\ registration[r].now \in 0 .. LastDay
  BY CallType DEF RegistrationInv, RegisterCommit, Holding, Transaction
<1>2. /\ invites[i].usedBy = Nobody
      /\ registration[r].now < invites[i].expires
      /\ accounts[u] = NoAccount
  BY <1>1 DEF RegistrationInv, HoldersAlone, NamesAlone
<1>3. /\ accounts' = [accounts EXCEPT ![u] = made]
      /\ invites' = [invites EXCEPT ![i].usedBy = u]
      /\ registration' = [registration EXCEPT ![r] = NoRegistration]
      /\ UNCHANGED day
  BY <1>1, <1>2 DEF RegisterCommit, MarkUsed, RegistrationInv, RegistrationTypeOK
<1>4. RegistrationTypeOK'
  BY <1>1, <1>3 DEF RegistrationInv, RegistrationTypeOK
<1>5. OneInviteOneAccount'
  <2>1. \A v \in Nickname \ {u} : accounts'[v] = accounts[v]
    BY <1>3 DEF RegistrationInv, RegistrationTypeOK
  <2>2. accounts'[u] = made /\ invites'[i].usedBy = u /\ invites'[i].expires = invites[i].expires
    BY <1>1, <1>3 DEF RegistrationInv, RegistrationTypeOK
  <2>3. \A j \in Invite \ {i} : invites'[j] = invites[j]
    BY <1>3 DEF RegistrationInv, RegistrationTypeOK
  <2>4. \A v \in Nickname \ {u} : accounts[v] # NoAccount => accounts[v].invite # i
    BY <1>1, <1>2, RegistrationAssumption DEF RegistrationInv, OneInviteOneAccount
  <2>5. \A v \in Nickname \ {u} : accounts[v] # NoAccount => accounts[v].invite \in Invite
    BY RegistrationAssumption
    DEF RegistrationInv, RegistrationTypeOK, OneInviteOneAccount, NoAccount
  <2>6. \A j \in Invite \ {i} : invites[j].usedBy # u
    BY <1>1, <1>2, RegistrationAssumption DEF RegistrationInv, OneInviteOneAccount, NoAccount
  <2>7. \A j \in Invite : invites'[j].usedBy \in Nickname \union {Nobody}
    BY <1>4 DEF RegistrationTypeOK
  <2> QED
    BY <1>1, <1>2, <2>1, <2>2, <2>3, <2>4, <2>5, <2>6, <2>7
    DEF RegistrationInv, OneInviteOneAccount
<1>6. HoldersAlone'
  <2>1. /\ \A other \in Holding' : other \in Holding \ {r} /\ registration'[other] = registration[other]
        /\ \A other \in Holding \ {r} : registration[other].request.invite # i
    BY <1>1, <1>3 DEF RegistrationInv, RegistrationTypeOK, Holding, HoldersAlone, NoRegistration
  <2>2. \A other \in Holding \ {r} :
          invites'[registration[other].request.invite] = invites[registration[other].request.invite]
    BY <1>3, <2>1, CallType DEF RegistrationInv, RegistrationTypeOK, Holding
  <2> QED
    BY <2>1, <2>2 DEF RegistrationInv, HoldersAlone
<1>7. NamesAlone'
  <2>1. \A other \in Registrant \ {r} : registration[other].at = "created" =>
          /\ registration[other].request.name # u
          /\ registration[other].request.name \in Nickname
    BY <1>1, CallType DEF RegistrationInv, NamesAlone
  <2>2. \A v \in Nickname \ {u} : accounts'[v] = accounts[v]
    BY <1>3 DEF RegistrationInv, RegistrationTypeOK
  <2>3. /\ registration'[r].at = "idle"
        /\ \A other \in Registrant \ {r} : registration'[other] = registration[other]
    BY <1>3 DEF RegistrationInv, RegistrationTypeOK, NoRegistration
  <2> QED
    BY <2>1, <2>2, <2>3 DEF RegistrationInv, NamesAlone
<1> QED
  BY <1>4, <1>5, <1>6, <1>7 DEF RegistrationInv

-----------------------------------------------------------------------------
\* Every step keeps the invariant.
LEMMA RegistrationPreserved ==
  RegistrationInv /\ [RegistrationNext]_registrationVars => RegistrationInv'
<1> SUFFICES ASSUME RegistrationInv, [RegistrationNext]_registrationVars
             PROVE  RegistrationInv'
  OBVIOUS
<1>1. CASE \E i \in Invite : GenerateInvite(i)
  BY <1>1, GenerateInviteStep
<1>2. ASSUME NEW r \in Registrant, \E request \in RegisterRequest : RegisterBegin(r, request)
      PROVE  RegistrationInv'
  BY <1>2, RegisterBeginStep
<1>3. ASSUME NEW r \in Registrant, FindInvite(r) PROVE RegistrationInv'
  BY <1>3, FindInviteStep
<1>4. ASSUME NEW r \in Registrant, CreateUser(r) PROVE RegistrationInv'
  BY <1>4, CreateUserStep
<1>5. ASSUME NEW r \in Registrant, RegisterCommit(r) PROVE RegistrationInv'
  BY <1>5, RegisterCommitStep
<1>6. ASSUME NEW r \in Registrant, RegisterFails(r) PROVE RegistrationInv'
  BY <1>6, CallEnds DEF RegisterFails
<1>7. CASE NextDay
  BY <1>7, RegistrationAssumption
  DEF NextDay, RegistrationInv, RegistrationTypeOK, OneInviteOneAccount, HoldersAlone, NamesAlone,
      Holding
<1>8. CASE UNCHANGED registrationVars
  BY <1>8
  DEF registrationVars, RegistrationInv, RegistrationTypeOK, OneInviteOneAccount, HoldersAlone,
      NamesAlone, Holding
<1> QED
  BY <1>1, <1>2, <1>3, <1>4, <1>5, <1>6, <1>7, <1>8 DEF RegistrationNext

\* The inductive invariant of the registration.
LEMMA RegistrationInvariant == RegistrationSpec => []RegistrationInv
  BY RegistrationInitial, RegistrationPreserved, PTL DEF RegistrationSpec

\* Two registrations with one invite make one account, and one that fails half-way leaves
\* neither an account nor a used invite: for any number of calls, invites and nicknames.
THEOREM OneInviteOneAccountHolds == RegistrationSpec => []OneInviteOneAccount
  <1>1. RegistrationInv => OneInviteOneAccount
    BY DEF RegistrationInv
  <1>2. QED
    BY <1>1, RegistrationInvariant, PTL

(***************************************************************************)
(* DevicePresence: who is connected is online, who logs in stays so.       *)
(***************************************************************************)
PresenceSpec == PresenceInit /\ [][PresenceNext]_presenceVars

\* The device was seen since each open websocket was heard of last.
SeenWithSockets == \A w \in Websocket : socket[w].at # "closed" => seenAgo <= socket[w].silent

\* A token is with one client or on its way to be revoked, and was given out before.
TokensApart ==
  /\ \A c \in Client : auth[c] # NoToken => tokens[auth[c]] # "none"
  /\ \A c, d \in Client : auth[c] # NoToken /\ auth[c] = auth[d] => c = d
  /\ \A request \in logouts :
       /\ tokens[request.token] # "none"
       /\ \A c \in Client : auth[c] # request.token

TokenInv == PresenceTypeOK /\ TokensApart /\ LateLogoutHarmless

SocketInv == PresenceTypeOK /\ SeenWithSockets

-----------------------------------------------------------------------------
\* Two variables are Boolean; the others have types that the steps compute with.
Booleans == registered \in BOOLEAN /\ onlineSet \in BOOLEAN

OtherTypes ==
  /\ tokens \in [Token -> {"none", "active", "revoked", "expired"}]
  /\ auth \in [Client -> Token \union {NoToken}]
  /\ logouts \subseteq [token : Token, at : {"sent", "authorized"}]
  /\ socket \in [Websocket -> [at : {"closed", "authorized", "inserted", "running"},
                               silent : 0 .. PollPeriod]]
  /\ seenAgo \in 0 .. OnlineTTL + 1

LEMMA TypesTogether == PresenceTypeOK <=> Booleans /\ OtherTypes
BY Zenon DEF PresenceTypeOK, Booleans, OtherTypes

LEMMA BooleansPreserved == Booleans /\ [PresenceNext]_presenceVars => Booleans'
<1> SUFFICES ASSUME Booleans, [PresenceNext]_presenceVars PROVE Booleans'
  OBVIOUS
<1>1. registered' \in {TRUE, registered}
  BY DEF PresenceNext, presenceVars, RegisterDevice, ClientRequest, Logout, DeviceLogin,
         LogoutAuthorize, LogoutRevoke, LogoutFails, TokenExpires, SocketOpen, SocketInsert,
         SocketMark, SocketStep, SocketClose, SocketFails, TimePasses, PresenceRestart
<1>2. onlineSet' \in {TRUE, FALSE, onlineSet}
  BY DEF PresenceNext, presenceVars, RegisterDevice, ClientRequest, Logout, DeviceLogin,
         LogoutAuthorize, LogoutRevoke, LogoutFails, TokenExpires, SocketOpen, SocketInsert,
         SocketMark, SocketStep, SocketClose, SocketFails, TimePasses, PresenceRestart
<1> QED
  BY <1>1, <1>2, Zenon DEF Booleans

LEMMA OtherTypesPreserved == OtherTypes /\ [PresenceNext]_presenceVars => OtherTypes'
<1> SUFFICES ASSUME OtherTypes, [PresenceNext]_presenceVars PROVE OtherTypes'
  OBVIOUS
<1> USE PresenceAssumption DEF OtherTypes
<1>1. ASSUME NEW c \in Client,
             \/ RegisterDevice(c) \/ ClientRequest(c) \/ Logout(c)
             \/ \E t \in Token, answered \in BOOLEAN : DeviceLogin(c, t, answered)
      PROVE  OtherTypes'
  BY <1>1 DEF RegisterDevice, ClientRequest, Authorized, Logout, DeviceLogin, CreateToken
<1>2. ASSUME NEW request \in logouts,
             LogoutAuthorize(request) \/ LogoutRevoke(request) \/ LogoutFails(request)
      PROVE  OtherTypes'
  BY <1>2 DEF LogoutAuthorize, Authorized, LogoutRevoke, RevokeToken, LogoutFails
<1>3. ASSUME NEW t \in Token, TokenExpires(t) PROVE OtherTypes'
  BY <1>3 DEF TokenExpires
<1>4. ASSUME NEW w \in Websocket,
             \/ \E t \in Token : SocketOpen(w, t)
             \/ SocketInsert(w) \/ SocketMark(w) \/ SocketClose(w) \/ SocketFails(w)
      PROVE  OtherTypes'
  BY <1>4 DEF SocketOpen, Authorized, SocketInsert, SocketMark, SocketStep, SocketClose,
              SocketFails, NoSocket
<1>5. CASE TimePasses
  BY <1>5 DEF TimePasses, NoSocket
<1>6. CASE PresenceRestart
  BY <1>6 DEF PresenceRestart, NoSocket
<1>7. CASE UNCHANGED presenceVars
  BY <1>7 DEF presenceVars
<1> QED
  BY <1>1, <1>2, <1>3, <1>4, <1>5, <1>6, <1>7 DEF PresenceNext

\* Every variable has its type.
LEMMA PresenceTypeInitial == PresenceInit => PresenceTypeOK
<1>1. PresenceInit => OtherTypes
  BY PresenceAssumption DEF PresenceInit, OtherTypes, NoSocket
<1>2. PresenceInit => Booleans
  BY Zenon DEF PresenceInit, Booleans
<1> QED
  BY <1>1, <1>2, TypesTogether

LEMMA PresenceTypePreserved ==
  PresenceTypeOK /\ [PresenceNext]_presenceVars => PresenceTypeOK'
<1> SUFFICES ASSUME Booleans, OtherTypes, [PresenceNext]_presenceVars PROVE Booleans' /\ OtherTypes'
  BY Zenon, TypesTogether DEF PresenceTypeOK, Booleans, OtherTypes
<1> QED
  BY BooleansPreserved, OtherTypesPreserved

-----------------------------------------------------------------------------
\* The steps of the websockets and of the clock keep what is known of the last mark; all
\* other steps leave the websockets alone, and can only make the mark younger.
LEMMA SeenWithSocketsPreserved ==
  SocketInv /\ [PresenceNext]_presenceVars => SeenWithSockets'
<1> SUFFICES ASSUME SocketInv, [PresenceNext]_presenceVars PROVE SeenWithSockets'
  OBVIOUS
<1> USE PresenceAssumption DEF SocketInv, PresenceTypeOK, SeenWithSockets
<1>1. ASSUME UNCHANGED socket, seenAgo' \in {0, seenAgo} PROVE SeenWithSockets'
  BY <1>1
<1>2. ASSUME NEW c \in Client,
             \/ RegisterDevice(c) \/ ClientRequest(c) \/ Logout(c)
             \/ \E t \in Token, answered \in BOOLEAN : DeviceLogin(c, t, answered)
      PROVE  SeenWithSockets'
  BY <1>1, <1>2 DEF RegisterDevice, ClientRequest, Authorized, Logout, DeviceLogin
<1>3. ASSUME NEW request \in logouts,
             LogoutAuthorize(request) \/ LogoutRevoke(request) \/ LogoutFails(request)
      PROVE  SeenWithSockets'
  BY <1>1, <1>3 DEF LogoutAuthorize, Authorized, LogoutRevoke, LogoutFails
<1>4. ASSUME NEW t \in Token, TokenExpires(t) PROVE SeenWithSockets'
  BY <1>1, <1>4 DEF TokenExpires
<1>5. ASSUME NEW w \in Websocket,
             \/ \E t \in Token : SocketOpen(w, t)
             \/ SocketInsert(w) \/ SocketMark(w) \/ SocketClose(w) \/ SocketFails(w)
      PROVE  SeenWithSockets'
  BY <1>5 DEF SocketOpen, Authorized, SocketInsert, SocketMark, SocketStep, SocketClose,
              SocketFails, NoSocket
<1>6. CASE TimePasses
  BY <1>6 DEF TimePasses, NoSocket
<1>7. CASE PresenceRestart
  BY <1>7 DEF PresenceRestart, NoSocket
<1>8. CASE UNCHANGED presenceVars
  BY <1>8 DEF presenceVars
<1> QED
  BY <1>2, <1>3, <1>4, <1>5, <1>6, <1>7, <1>8 DEF PresenceNext

\* The inductive invariant of the marks and the websockets.
LEMMA SocketInvariant == PresenceSpec => []SocketInv
  <1>1. PresenceInit => SocketInv
    BY PresenceTypeInitial DEF PresenceInit, SocketInv, SeenWithSockets, NoSocket
  <1>2. SocketInv /\ [PresenceNext]_presenceVars => SocketInv'
    BY PresenceTypePreserved, SeenWithSocketsPreserved DEF SocketInv
  <1>3. QED
    BY <1>1, <1>2, PTL DEF PresenceSpec

\* A device with an open websocket is online, whatever other websockets of it end, as long
\* as a loop comes round within the time for which a mark is good.
THEOREM ConnectedIsOnlineHolds == PresenceSpec => []ConnectedIsOnline
  <1>1. SocketInv => ConnectedIsOnline
    BY PresenceAssumption
    DEF SocketInv, PresenceTypeOK, SeenWithSockets, ConnectedIsOnline, IsOnline
  <1>2. QED
    BY <1>1, SocketInvariant, PTL

-----------------------------------------------------------------------------
\* What clients and their logouts do with tokens.
LEMMA TokensPreserved ==
  TokenInv /\ [PresenceNext]_presenceVars => (TokensApart /\ LateLogoutHarmless)'
<1> SUFFICES ASSUME TokenInv, [PresenceNext]_presenceVars
             PROVE  (TokensApart /\ LateLogoutHarmless)'
  OBVIOUS
<1> USE PresenceAssumption DEF TokenInv, PresenceTypeOK, TokensApart, LateLogoutHarmless
<1>1. ASSUME UNCHANGED <<tokens, auth>>, logouts' \subseteq logouts
      PROVE  (TokensApart /\ LateLogoutHarmless)'
  BY <1>1
<1>2. ASSUME NEW c \in Client, RegisterDevice(c) \/ ClientRequest(c)
      PROVE  (TokensApart /\ LateLogoutHarmless)'
  BY <1>1, <1>2 DEF RegisterDevice, ClientRequest
<1>3. ASSUME NEW c \in Client, Logout(c)
      PROVE  (TokensApart /\ LateLogoutHarmless)'
  BY <1>3 DEF Logout
<1>4. ASSUME NEW c \in Client, NEW t \in Token, NEW answered \in BOOLEAN,
             DeviceLogin(c, t, answered)
      PROVE  (TokensApart /\ LateLogoutHarmless)'
  <2>1. /\ tokens[t] = "none" /\ tokens' = [tokens EXCEPT ![t] = "active"]
        /\ \A d \in Client : auth[d] # t
        /\ \A request \in logouts : request.token # t
    BY <1>4 DEF DeviceLogin, CreateToken
  <2> QED
    BY <1>4, <2>1 DEF DeviceLogin
<1>5. ASSUME NEW request \in logouts, LogoutAuthorize(request)
      PROVE  (TokensApart /\ LateLogoutHarmless)'
  BY <1>5 DEF LogoutAuthorize
<1>6. ASSUME NEW request \in logouts, LogoutRevoke(request)
      PROVE  (TokensApart /\ LateLogoutHarmless)'
  BY <1>6 DEF LogoutRevoke, RevokeToken
<1>7. ASSUME NEW request \in logouts, LogoutFails(request)
      PROVE  (TokensApart /\ LateLogoutHarmless)'
  BY <1>1, <1>7 DEF LogoutFails
<1>8. ASSUME NEW t \in Token, TokenExpires(t)
      PROVE  (TokensApart /\ LateLogoutHarmless)'
  BY <1>8 DEF TokenExpires
<1>9. ASSUME NEW w \in Websocket,
             \/ \E t \in Token : SocketOpen(w, t)
             \/ SocketInsert(w) \/ SocketMark(w) \/ SocketClose(w) \/ SocketFails(w)
      PROVE  (TokensApart /\ LateLogoutHarmless)'
  BY <1>1, <1>9 DEF SocketOpen, SocketInsert, SocketMark, SocketStep, SocketClose, SocketFails
<1>10. CASE TimePasses \/ PresenceRestart \/ UNCHANGED presenceVars
  BY <1>1, <1>10 DEF TimePasses, PresenceRestart, presenceVars
<1> QED
  BY <1>2, <1>3, <1>4, <1>5, <1>6, <1>7, <1>8, <1>9, <1>10 DEF PresenceNext

\* A late logout takes away no other login, for any number of clients and tokens.
THEOREM LateLogoutHarmlessHolds == PresenceSpec => []LateLogoutHarmless
<1>1. PresenceInit => TokenInv
  BY PresenceTypeInitial, PresenceAssumption
  DEF PresenceInit, TokenInv, TokensApart, LateLogoutHarmless
<1>2. TokenInv /\ [PresenceNext]_presenceVars => TokenInv'
  BY PresenceTypePreserved, TokensPreserved DEF TokenInv
<1>3. TokenInv => LateLogoutHarmless
  BY DEF TokenInv
<1> QED
  BY <1>1, <1>2, <1>3, PTL DEF PresenceSpec

(***************************************************************************)
(* CallSignaling: no signal is lost, repeated or overtaken but as stated.  *)
(***************************************************************************)
SignalingSpec == SignalingInit /\ [][SignalingNext]_signalingVars

Increasing(signals) == \A i, j \in DOMAIN signals : i < j => signals[i].n < signals[j].n

\* What a device has received of a call is older than what waits for it.
ReceivedFirst ==
  \A d \in Device : \A i \in DOMAIN got[d] : \A s \in ToSet(queue) :
    s.to = d /\ s.call = got[d][i].call => got[d][i].n < s.n

SignalingInv ==
  SignalingTypeOK /\ SignalsConserved /\ SignalsInOrder /\ Increasing(queue) /\ ReceivedFirst

\* Signals at some places of an increasing queue: increasing as well, each once.
LEMMA AtIncreasing ==
  ASSUME NEW signals \in Seq(Signal), Increasing(signals), NEW places \in SUBSET DOMAIN signals
  PROVE  /\ At(signals, places) \in Seq(Signal)
         /\ Increasing(At(signals, places))
         /\ ToSet(At(signals, places)) = {signals[i] : i \in places}
  <1>1. PICK place \in [1 .. Cardinality(places) -> places] :
          /\ At(signals, places) = [k \in 1 .. Cardinality(places) |-> signals[place[k]]]
          /\ \A k, l \in 1 .. Cardinality(places) : k < l => place[k] < place[l]
    BY AtInOrder
  <1>2. \A k, l \in 1 .. Cardinality(places) : k < l => signals[place[k]].n < signals[place[l]].n
    BY <1>1 DEF Increasing
  <1>3. Increasing(At(signals, places))
    BY <1>1, <1>2 DEF Increasing
  <1>4. QED
    BY <1>3, AtPlaces

LEMMA IncreasingIsInjective ==
  ASSUME NEW signals \in Seq(Signal), Increasing(signals)
  PROVE  IsInjective(signals)
  <1> SUFFICES ASSUME NEW i \in DOMAIN signals, NEW j \in DOMAIN signals, signals[i] = signals[j]
               PROVE  i = j
    BY DEF IsInjective
  <1>1. i \in Nat /\ j \in Nat /\ signals[i].n \in Nat /\ signals[j].n \in Nat
    <2>1. i \in Nat /\ j \in Nat /\ signals[i] \in Signal /\ signals[j] \in Signal
      OBVIOUS
    <2>2. \A s \in Signal : s.n \in Nat
      BY SignalingAssumption DEF Signal
    <2>3. QED
      BY <2>1, <2>2
  <1>2. ~(i < j) /\ ~(j < i)
    BY <1>1 DEF Increasing
  <1>3. QED
    BY <1>1, <1>2

\* A fetch divides the queue; what it leaves for its device and call came later.
LEMMA FetchDivides ==
  ASSUME NEW signals \in Seq(Signal), Increasing(signals), NEW device, NEW call, NEW limit \in Nat,
         NEW batch, batch = Fetched(signals, device, call, limit),
         NEW rest, rest = Retained(signals, device, call, limit)
  PROVE  /\ batch \in Seq(Signal) /\ rest \in Seq(Signal) /\ Len(rest) <= Len(signals)
         /\ Increasing(batch) /\ Increasing(rest)
         /\ ToSet(signals) = ToSet(batch) \union ToSet(rest)
         /\ ToSet(batch) \intersect ToSet(rest) = {}
         /\ \A s \in ToSet(batch) : s.to = device
         /\ \A s \in ToSet(batch), t \in ToSet(rest) :
              t.to = device /\ t.call = s.call => s.n < t.n
  <1> DEFINE taken == Taken(signals, device, call, limit)
             wanted == Wanted(signals, device, call)
             left == DOMAIN signals \ taken
  <1>1. taken \in SUBSET DOMAIN signals /\ left \in SUBSET DOMAIN signals
    BY DEF Taken, Wanted
  <1>2. batch = At(signals, taken) /\ rest = At(signals, left)
    BY DEF Fetched, Retained
  <1>3. \A i \in taken, j \in left :
          signals[j].to = device /\ signals[j].call = signals[i].call => j \in wanted \ taken
    BY DEF Taken, Wanted
  <1>4. \A i \in taken, j \in wanted \ taken : i < j
    BY TakenFirst
  <1>5. \A i \in taken, j \in left :
          signals[j].to = device /\ signals[j].call = signals[i].call => signals[i].n < signals[j].n
    BY <1>1, <1>3, <1>4 DEF Increasing
  <1>6. \A i \in taken, j \in left : signals[i] # signals[j]
    BY <1>1, IncreasingIsInjective DEF IsInjective
  <1> HIDE DEF taken, wanted, left
  <1>7. /\ ToSet(batch) = {signals[i] : i \in taken}
        /\ ToSet(rest) = {signals[j] : j \in left}
        /\ Increasing(batch) /\ Increasing(rest)
    BY <1>1, <1>2, AtIncreasing
  <1>8. \A s \in ToSet(batch), t \in ToSet(rest) :
          s # t /\ (t.to = device /\ t.call = s.call => s.n < t.n)
    BY <1>5, <1>6, <1>7
  <1>9. /\ batch \in Seq(Signal) /\ rest \in Seq(Signal) /\ Len(rest) <= Len(signals)
        /\ ToSet(signals) = ToSet(batch) \union ToSet(rest)
        /\ \A s \in ToSet(batch) : s.to = device
    BY FetchedSignals
  <1>10. ToSet(batch) \intersect ToSet(rest) = {}
    BY <1>8
  <1>11. QED
    BY <1>7, <1>8, <1>9, <1>10

\* A signal with a number above all that wait: the one that makes room is the oldest.
LEMMA SendAppends ==
  ASSUME NEW signals \in Seq(Signal), Increasing(signals), Len(signals) <= MaxQueue,
         NEW signal \in Signal, \A s \in ToSet(signals) : s.n < signal.n,
         NEW longer, longer = Queued(signals, signal)
  PROVE  /\ longer \in Seq(Signal) /\ Len(longer) <= MaxQueue
         /\ Increasing(longer)
         /\ signal \in ToSet(longer)
         /\ ToSet(longer) \subseteq ToSet(signals) \union {signal}
         /\ \A s \in ToSet(signals) \ ToSet(longer), t \in ToSet(longer) : s.n < t.n
  <1>1. /\ longer \in Seq(Signal) /\ Len(longer) <= MaxQueue
        /\ signal \in ToSet(longer)
        /\ ToSet(longer) \subseteq ToSet(signals) \union {signal}
        /\ \A s \in ToSet(signals) \ ToSet(longer) : Len(signals) >= MaxQueue /\ s = Head(signals)
    BY QueuedSignals, QueueAssumption
  <1>2. CASE Len(signals) >= MaxQueue
    <2>1. signals # <<>> /\ Len(signals) \in Nat \ {0}
      BY <1>2, QueueAssumption
    <2>2. longer = Append(Tail(signals), signal)
      BY <1>2 DEF Queued
    <2>3. /\ Len(longer) = Len(signals)
          /\ longer[Len(signals)] = signal
          /\ \A k \in 1 .. Len(signals) - 1 : longer[k] = signals[k + 1]
      BY <2>1, <2>2
    <2>4. \A k \in 1 .. Len(signals) : signals[k] \in ToSet(signals)
      BY DEF ToSet
    <2>5. Increasing(longer)
      <3> SUFFICES ASSUME NEW i \in 1 .. Len(signals), NEW j \in 1 .. Len(signals), i < j
                   PROVE  longer[i].n < longer[j].n
        BY <1>1, <2>3 DEF Increasing
      <3>1. i \in 1 .. Len(signals) - 1 /\ longer[i] = signals[i + 1] /\ i + 1 \in 1 .. Len(signals)
        BY <2>1, <2>3
      <3>2. CASE j = Len(signals)
        BY <2>3, <2>4, <3>1, <3>2
      <3>3. CASE j # Len(signals)
        <4>1. longer[j] = signals[j + 1] /\ j + 1 \in 1 .. Len(signals) /\ i + 1 < j + 1
          BY <2>1, <2>3, <3>3
        <4>2. QED
          BY <3>1, <4>1 DEF Increasing
      <3>4. QED
        BY <3>2, <3>3
    <2>6. \A t \in ToSet(longer) : Head(signals).n < t.n
      <3>1. Head(signals) = signals[1] /\ 1 \in 1 .. Len(signals)
        BY <2>1
      <3>2. ASSUME NEW k \in 1 .. Len(longer)
            PROVE  Head(signals).n < longer[k].n
        <4>1. CASE k = Len(signals)
          BY <2>3, <2>4, <3>1, <4>1
        <4>2. CASE k # Len(signals)
          <5>1. longer[k] = signals[k + 1] /\ k + 1 \in 1 .. Len(signals) /\ 1 < k + 1
            BY <2>1, <2>3, <4>2
          <5>2. QED
            BY <3>1, <5>1 DEF Increasing
        <4>3. QED
          BY <4>1, <4>2
      <3>3. QED
        BY <1>1, <3>2 DEF ToSet
    <2>7. QED
      BY <1>1, <2>5, <2>6
  <1>3. CASE ~(Len(signals) >= MaxQueue)
    <2>1. longer = Append(signals, signal)
      BY <1>3 DEF Queued
    <2>2. Increasing(longer)
      BY <2>1 DEF Increasing, ToSet
    <2>3. QED
      BY <1>1, <1>3, <2>2
  <1>4. QED
    BY <1>2, <1>3

\* The signals that were accepted, wherever they are.
Accepted == ToSet(queue) \union Received \union (dropped \union lost)

LEMMA AcceptedNumbers ==
  ASSUME SignalingInv
  PROVE  /\ sent \in Nat
         /\ ToSet(queue) \subseteq Signal /\ Received \subseteq Signal
         /\ \A s \in Accepted : s \in Signal /\ s.n \in 1 .. sent
         /\ 1 .. sent = Numbers(Accepted)
  <1>1. ToSet(queue) \subseteq Signal
    BY DEF SignalingInv, SignalingTypeOK, ToSet
  <1>2. \A d \in Device : ToSet(got[d]) \subseteq Signal
    BY DEF SignalingInv, SignalingTypeOK, ToSet
  <1>3. Received \subseteq Signal
    BY <1>2 DEF Received
  <1>4. 1 .. sent = Numbers(Accepted)
    BY DEF SignalingInv, SignalsConserved, Accepted
  <1>5. \A s \in Accepted : s \in Signal
    BY <1>1, <1>3 DEF Accepted, SignalingInv, SignalingTypeOK
  <1>6. \A s \in Accepted : s.n \in Numbers(Accepted)
    BY DEF Numbers
  <1>7. sent \in Nat
    BY SignalingAssumption DEF SignalingInv, SignalingTypeOK
  <1>8. QED
    BY <1>1, <1>3, <1>4, <1>5, <1>6, <1>7

\* A signal gets the next number, and a place at the end of the queue.
LEMMA SendSignalStep ==
  ASSUME SignalingInv, NEW d \in Device, NEW c \in Call, SendSignal(d, c)
  PROVE  SignalingInv'
  <1> DEFINE new == [to |-> d, call |-> c, n |-> sent']
  <1>1. /\ sent \in Nat /\ sent' = sent + 1 /\ sent' \in 0 .. MaxSent
        /\ new \in Signal /\ new.n = sent'
        /\ UNCHANGED <<got, lost>> /\ Received' = Received
    BY SignalingAssumption
    DEF SendSignal, SignalingInv, SignalingTypeOK, Signal, Received
  <1>2. \A s \in Accepted : s \in Signal /\ s.n \in 1 .. sent /\ s.n < new.n
    BY <1>1, AcceptedNumbers
  <1>3. queue \in Seq(Signal) /\ Increasing(queue) /\ Len(queue) <= MaxQueue
    BY DEF SignalingInv, SignalingTypeOK
  <1>4. /\ queue' = Queued(queue, new)
        /\ dropped' = dropped \union (ToSet(queue) \ ToSet(queue'))
    BY DEF SendSignal
  <1> HIDE DEF new
  <1>5. /\ queue' \in Seq(Signal) /\ Len(queue') <= MaxQueue
        /\ Increasing(queue')
        /\ new \in ToSet(queue')
        /\ ToSet(queue') \subseteq ToSet(queue) \union {new}
        /\ \A s \in ToSet(queue) \ ToSet(queue'), t \in ToSet(queue') : s.n < t.n
    BY <1>1, <1>2, <1>3, <1>4, SendAppends DEF Accepted
  <1>6. ToSet(queue) \subseteq Signal /\ dropped' \subseteq Signal
    BY <1>4, AcceptedNumbers DEF SignalingInv, SignalingTypeOK
  <1>7. SignalingTypeOK'
    BY <1>1, <1>5, <1>6 DEF SignalingInv, SignalingTypeOK
  <1>8. Accepted' = Accepted \union {new}
    BY <1>1, <1>4, <1>5 DEF Accepted
  <1>9. 1 .. sent' = Numbers(Accepted')
    <2>1. 1 .. sent' = (1 .. sent) \union {new.n}
      BY <1>1
    <2>2. Numbers(Accepted \union {new}) = Numbers(Accepted) \union {new.n}
      BY DEF Numbers
    <2>3. QED
      BY <1>8, <2>1, <2>2, AcceptedNumbers
  <1>10. \A s, t \in Accepted' : s.n = t.n => s = t
    <2>1. \A s, t \in Accepted : s.n = t.n => s = t
      BY DEF SignalingInv, SignalsConserved, Accepted
    <2>2. \A s \in Accepted : s.n # new.n
      BY <1>1, <1>2
    <2>3. QED
      BY <1>8, <2>1, <2>2
  <1>11. new \notin Accepted
    BY <1>1, <1>2
  <1>12. SignalsConserved'
    <2>1. /\ ToSet(queue') \intersect (Received' \union (dropped' \union lost')) = {}
          /\ Received' \intersect (dropped' \union lost') = {}
          /\ dropped' \intersect lost' = {}
      BY <1>1, <1>4, <1>5, <1>11 DEF SignalingInv, SignalsConserved, Accepted
    <2>2. IsInjective(queue')
      BY <1>5, IncreasingIsInjective
    <2>3. \A e \in Device : IsInjective(got'[e]) /\ \A i \in DOMAIN got'[e] : got'[e][i].to = e
      BY <1>1 DEF SignalingInv, SignalsConserved
    <2>4. \A old \in dropped', s \in ToSet(queue') : old.n < s.n
      <3>1. \A old \in dropped, s \in ToSet(queue) : old.n < s.n
        BY DEF SignalingInv, SignalsConserved
      <3>2. \A old \in dropped : old.n < new.n
        BY <1>2 DEF Accepted
      <3>3. QED
        BY <1>4, <1>5, <3>1, <3>2
    <2>5. 1 .. sent' = Numbers(ToSet(queue') \union Received' \union (dropped' \union lost'))
      BY <1>9 DEF Accepted
    <2>6. \A s, t \in ToSet(queue') \union Received' \union (dropped' \union lost') : s.n = t.n => s = t
      BY <1>10 DEF Accepted
    <2>7. QED
      BY <2>1, <2>2, <2>3, <2>4, <2>5, <2>6 DEF SignalsConserved
  <1>13. SignalsInOrder'
    BY <1>1 DEF SignalingInv, SignalsInOrder
  <1>14. ReceivedFirst'
    <2>1. \A e \in Device : \A i \in DOMAIN got[e] : got[e][i] \in Accepted
      BY DEF Accepted, Received, ToSet
    <2>2. \A e \in Device : \A i \in DOMAIN got[e] : got[e][i].n < new.n
      BY <1>2, <2>1
    <2>3. QED
      BY <1>1, <1>5, <2>2 DEF SignalingInv, ReceivedFirst
  <1>15. QED
    BY <1>5, <1>7, <1>12, <1>13, <1>14 DEF SignalingInv

\* An answer, taken from the queue, arrives or is lost.
LEMMA FetchSignalsStep ==
  ASSUME SignalingInv, NEW d \in Device, NEW c, NEW asked \in AskedLimit, FetchSignals(d, c, asked)
  PROVE  SignalingInv'
  <1> DEFINE limit == ClampSignals(asked)
             batch == Fetched(queue, d, c, limit)
  <1>1. /\ queue' = Retained(queue, d, c, limit)
        /\ \/ got' = [got EXCEPT ![d] = @ \o batch] /\ UNCHANGED lost
           \/ lost' = lost \union ToSet(batch) /\ UNCHANGED got
        /\ UNCHANGED <<sent, dropped>>
    BY DEF FetchSignals
  <1>2. limit \in Nat
    BY SignalingAssumption DEF ClampSignals
  <1>3. queue \in Seq(Signal) /\ Increasing(queue) /\ Len(queue) <= MaxQueue /\ MaxQueue \in Nat
    BY QueueAssumption DEF SignalingInv, SignalingTypeOK
  <1> HIDE DEF limit
  <1>a. /\ batch \in Seq(Signal) /\ queue' \in Seq(Signal) /\ Len(queue') <= Len(queue)
        /\ Increasing(batch) /\ Increasing(queue')
        /\ ToSet(queue) = ToSet(batch) \union ToSet(queue')
        /\ ToSet(batch) \intersect ToSet(queue') = {}
        /\ \A s \in ToSet(batch) : s.to = d
        /\ \A s \in ToSet(batch), t \in ToSet(queue') :
             t.to = d /\ t.call = s.call => s.n < t.n
    BY <1>1, <1>2, <1>3, FetchDivides
  <1> HIDE DEF batch
  <1>4. /\ Len(queue') <= MaxQueue
        /\ IsInjective(batch) /\ IsInjective(queue')
        /\ ToSet(batch) \subseteq Signal
    <2>1. Len(queue') \in Nat /\ Len(queue) \in Nat
      BY <1>3, <1>a
    <2>2. Len(queue') <= MaxQueue
      BY <1>3, <1>a, <2>1
    <2>3. QED
      BY <1>a, <2>2, IncreasingIsInjective, AcceptedNumbers
  <1>c. /\ ToSet(queue) \intersect (Received \union (dropped \union lost)) = {}
        /\ Received \intersect (dropped \union lost) = {}
        /\ dropped \intersect lost = {}
        /\ \A e \in Device : IsInjective(got[e]) /\ \A i \in DOMAIN got[e] : got[e][i].to = e
        /\ \A old \in dropped, s \in ToSet(queue) : old.n < s.n
        /\ 1 .. sent = Numbers(Accepted)
        /\ \A s, t \in Accepted : s.n = t.n => s = t
    BY DEF SignalingInv, SignalsConserved, Accepted
  <1>5. CASE lost' = lost \union ToSet(batch) /\ UNCHANGED got
    <2>1. Received' = Received
      BY <1>5 DEF Received
    <2>2. Accepted' = Accepted
      BY <1>1, <1>5, <1>a, <2>1 DEF Accepted
    <2>3. SignalingTypeOK'
      BY <1>1, <1>4, <1>5, <1>a DEF SignalingInv, SignalingTypeOK
    <2>4. SignalsConserved'
      <3>1. /\ ToSet(queue') \intersect (Received' \union (dropped' \union lost')) = {}
            /\ Received' \intersect (dropped' \union lost') = {}
            /\ dropped' \intersect lost' = {}
        BY <1>1, <1>5, <1>a, <1>c, <2>1
      <3>2. /\ \A e \in Device : IsInjective(got'[e]) /\ \A i \in DOMAIN got'[e] : got'[e][i].to = e
            /\ \A old \in dropped', s \in ToSet(queue') : old.n < s.n
        BY <1>1, <1>5, <1>a, <1>c
      <3>3. /\ 1 .. sent' = Numbers(ToSet(queue') \union Received' \union (dropped' \union lost'))
            /\ \A s, t \in ToSet(queue') \union Received' \union (dropped' \union lost') :
                 s.n = t.n => s = t
        BY <1>1, <1>c, <2>2 DEF Accepted
      <3>4. QED
        BY <1>4, <3>1, <3>2, <3>3 DEF SignalsConserved
    <2>5. SignalsInOrder' /\ ReceivedFirst'
      BY <1>5, <1>a DEF SignalingInv, SignalsInOrder, ReceivedFirst
    <2>6. QED
      BY <1>a, <2>3, <2>4, <2>5 DEF SignalingInv
  <1>6. CASE got' = [got EXCEPT ![d] = @ \o batch] /\ UNCHANGED lost
    <2> DEFINE old == got[d]
               both == old \o batch
    <2>1. /\ old \in Seq(Signal) /\ both \in Seq(Signal)
          /\ got' \in [Device -> Seq(Signal)]
          /\ got'[d] = both /\ \A e \in Device \ {d} : got'[e] = got[e]
      BY <1>6, <1>a DEF SignalingInv, SignalingTypeOK
    <2>2. \A i \in DOMAIN both :
            \/ i \in DOMAIN old /\ both[i] = old[i]
            \/ \E k \in DOMAIN batch : i = Len(old) + k /\ both[i] = batch[k]
      <3>1. \A i \in DOMAIN both : i \in DOMAIN old \/ i - Len(old) \in DOMAIN batch
        BY <1>a, <2>1
      <3>2. QED
        BY <1>a, <2>1, <3>1
    <2>3. /\ \A i \in DOMAIN old : i \in DOMAIN both /\ both[i] = old[i]
          /\ \A k \in DOMAIN batch : Len(old) + k \in DOMAIN both /\ both[Len(old) + k] = batch[k]
      BY <1>a, <2>1
    <2>4. ToSet(both) = ToSet(old) \union ToSet(batch)
      <3>1. ToSet(both) \subseteq ToSet(old) \union ToSet(batch)
        <4> HIDE DEF both, old
        <4>1. QED
          BY <2>2 DEF ToSet
      <3>2. ToSet(old) \subseteq ToSet(both) /\ ToSet(batch) \subseteq ToSet(both)
        <4> HIDE DEF both, old
        <4>1. QED
          BY <2>3 DEF ToSet
      <3>3. QED
        BY <3>1, <3>2
    <2>5. Received' = Received \union ToSet(batch)
      <3> HIDE DEF both
      <3>1. ToSet(got'[d]) = ToSet(got[d]) \union ToSet(batch)
        BY <2>1, <2>4
      <3>2. \A e \in Device \ {d} : ToSet(got'[e]) = ToSet(got[e])
        BY <2>1
      <3>3. \A s : s \in Received' <=> \E e \in Device : s \in ToSet(got'[e])
        BY DEF Received
      <3>4. \A s : s \in Received <=> \E e \in Device : s \in ToSet(got[e])
        BY DEF Received
      <3>5. ASSUME NEW s, s \in Received'
            PROVE  s \in Received \union ToSet(batch)
        <4>1. PICK e \in Device : s \in ToSet(got'[e])
          BY <3>3, <3>5
        <4>2. QED
          BY <3>1, <3>2, <3>4, <4>1
      <3>6. ASSUME NEW s, s \in Received \union ToSet(batch)
            PROVE  s \in Received'
        <4>1. CASE s \in ToSet(batch)
          BY <3>1, <3>3, <4>1
        <4>2. CASE s \in Received
          <5>1. PICK e \in Device : s \in ToSet(got[e])
            BY <3>4, <4>2
          <5>2. QED
            BY <3>1, <3>2, <3>3, <5>1
        <4>3. QED
          BY <3>6, <4>1, <4>2
      <3>7. QED
        BY <3>5, <3>6
    <2>6. Accepted' = Accepted
      BY <1>1, <1>6, <1>a, <2>5 DEF Accepted
    <2>7. SignalingTypeOK'
      BY <1>1, <1>4, <1>6, <1>a, <2>1 DEF SignalingInv, SignalingTypeOK
    <2>8. \A i \in DOMAIN old : old[i] \in Received /\ old[i] \notin ToSet(batch)
      <3>1. \A i \in DOMAIN old : old[i] \in Received
        BY DEF Received, ToSet
      <3>2. QED
        BY <1>a, <1>c, <3>1
    <2>9. IsInjective(both)
      <3> SUFFICES ASSUME NEW i \in DOMAIN both, NEW j \in DOMAIN both, both[i] = both[j]
                   PROVE  i = j
        BY DEF IsInjective
      <3>1. IsInjective(old) /\ IsInjective(batch)
        BY <1>4, <1>c
      <3>2. \A k \in DOMAIN batch : batch[k] \in ToSet(batch)
        BY DEF ToSet
      <3> HIDE DEF both, old
      <3>3. QED
        BY <2>2, <2>8, <3>1, <3>2 DEF IsInjective
    <2>10. \A i \in DOMAIN both : both[i].to = d
      <3>1. \A k \in DOMAIN batch : batch[k].to = d
        BY <1>a DEF ToSet
      <3>2. \A i \in DOMAIN old : old[i].to = d
        BY <1>c
      <3> HIDE DEF both, old
      <3>3. QED
        BY <2>2, <3>1, <3>2
    <2>11. SignalsConserved'
      <3>1. /\ ToSet(queue') \intersect (Received' \union (dropped' \union lost')) = {}
            /\ Received' \intersect (dropped' \union lost') = {}
            /\ dropped' \intersect lost' = {}
        BY <1>1, <1>6, <1>a, <1>c, <2>5
      <3>2. \A e \in Device : IsInjective(got'[e]) /\ \A i \in DOMAIN got'[e] : got'[e][i].to = e
        <4> HIDE DEF both, old
        <4>1. QED
          BY <1>c, <2>1, <2>9, <2>10
      <3>3. \A gone \in dropped', s \in ToSet(queue') : gone.n < s.n
        BY <1>1, <1>a, <1>c
      <3>4. /\ 1 .. sent' = Numbers(ToSet(queue') \union Received' \union (dropped' \union lost'))
            /\ \A s, t \in ToSet(queue') \union Received' \union (dropped' \union lost') :
                 s.n = t.n => s = t
        BY <1>1, <1>c, <2>6 DEF Accepted
      <3>5. QED
        BY <1>4, <3>1, <3>2, <3>3, <3>4 DEF SignalsConserved
    <2>12. SignalsInOrder'
      <3>1. \A i, j \in DOMAIN both : i < j /\ both[i].call = both[j].call => both[i].n < both[j].n
        <4> SUFFICES ASSUME NEW i \in DOMAIN both, NEW j \in DOMAIN both,
                            i < j, both[i].call = both[j].call
                     PROVE  both[i].n < both[j].n
          OBVIOUS
        <4>n. Len(old) \in Nat /\ DOMAIN old = 1 .. Len(old) /\ DOMAIN batch \subseteq Nat
          BY <1>a, <2>1
        <4>1. CASE i \in DOMAIN old /\ both[i] = old[i] /\ j \in DOMAIN old /\ both[j] = old[j]
          BY <4>1 DEF SignalingInv, SignalsInOrder
        <4>2. ASSUME i \in DOMAIN old, both[i] = old[i], NEW k \in DOMAIN batch, both[j] = batch[k]
              PROVE  both[i].n < both[j].n
          <5>1. batch[k] \in ToSet(queue) /\ batch[k].to = d
            BY <1>a DEF ToSet
          <5>2. QED
            BY <4>2, <5>1 DEF SignalingInv, ReceivedFirst
        <4>3. ASSUME NEW k \in DOMAIN batch, NEW l \in DOMAIN batch,
                     i = Len(old) + k, j = Len(old) + l, both[i] = batch[k], both[j] = batch[l]
              PROVE  both[i].n < both[j].n
          <5>1. k < l
            BY <4>3, <4>n
          <5>2. QED
            BY <1>a, <4>3, <5>1 DEF Increasing
        <4>4. ASSUME NEW k \in DOMAIN batch, i = Len(old) + k, j \in DOMAIN old
              PROVE  FALSE
          BY <1>a, <4>4, <4>n
        <4> HIDE DEF both, old
        <4>5. QED
          BY <2>2, <4>1, <4>2, <4>3, <4>4
      <3> HIDE DEF both
      <3>2. QED
        BY <2>1, <3>1 DEF SignalingInv, SignalsInOrder
    <2>13. ReceivedFirst'
      <3>1. ASSUME NEW k \in DOMAIN batch, NEW s \in ToSet(queue'), s.to = d, s.call = batch[k].call
            PROVE  batch[k].n < s.n
        BY <1>a, <3>1 DEF ToSet
      <3>2. ASSUME NEW i \in DOMAIN both, NEW s \in ToSet(queue'), s.to = d, s.call = both[i].call
            PROVE  both[i].n < s.n
        <4>1. CASE i \in DOMAIN old /\ both[i] = old[i]
          BY <1>a, <3>2, <4>1 DEF SignalingInv, ReceivedFirst
        <4> HIDE DEF both, old
        <4>2. QED
          BY <2>2, <3>1, <3>2, <4>1
      <3> HIDE DEF both
      <3>3. QED
        BY <1>a, <2>1, <3>2 DEF SignalingInv, ReceivedFirst
    <2>14. QED
      BY <1>a, <2>7, <2>11, <2>12, <2>13 DEF SignalingInv
  <1>7. QED
    BY <1>1, <1>5, <1>6

\* What waited is lost with the server.
LEMMA SignalingRestartStep ==
  ASSUME SignalingInv, SignalingRestart
  PROVE  SignalingInv'
  <1>1. queue' = <<>> /\ ToSet(queue') = {} /\ lost' = lost \union ToSet(queue)
        /\ UNCHANGED <<sent, got, dropped>> /\ Received' = Received
    BY DEF SignalingRestart, ToSet, Received
  <1>2. ToSet(queue) \subseteq Signal
    BY AcceptedNumbers
  <1>3. SignalingTypeOK'
    BY <1>1, <1>2, QueueAssumption DEF SignalingInv, SignalingTypeOK
  <1>4. IsInjective(queue') /\ Increasing(queue') /\ ReceivedFirst' /\ SignalsInOrder'
    BY <1>1 DEF IsInjective, Increasing, ReceivedFirst, SignalsInOrder, SignalingInv
  <1>5. ToSet(queue') \union Received' \union (dropped' \union lost')
          = ToSet(queue) \union Received \union (dropped \union lost)
    BY <1>1
  <1>6. SignalsConserved'
    <2>1. /\ 1 .. sent = Numbers(Accepted) /\ \A s, t \in Accepted : s.n = t.n => s = t
          /\ ToSet(queue) \intersect (Received \union (dropped \union lost)) = {}
          /\ Received \intersect (dropped \union lost) = {} /\ dropped \intersect lost = {}
          /\ \A e \in Device : IsInjective(got[e]) /\ \A i \in DOMAIN got[e] : got[e][i].to = e
          /\ \A old \in dropped, s \in ToSet(queue) : old.n < s.n
      BY DEF SignalingInv, SignalsConserved, Accepted
    <2>2. dropped \intersect ToSet(queue) = {} /\ Received \intersect ToSet(queue) = {}
      BY <2>1
    <2>3. Accepted' = Accepted
      BY <1>5 DEF Accepted
    <2>4. /\ 1 .. sent' = Numbers(ToSet(queue') \union Received' \union (dropped' \union lost'))
          /\ \A s, t \in ToSet(queue') \union Received' \union (dropped' \union lost') :
               s.n = t.n => s = t
      <3>1. ToSet(queue') \union Received' \union (dropped' \union lost') = Accepted'
        BY DEF Accepted
      <3>2. QED
        BY <1>1, <2>1, <2>3, <3>1
    <2>5. /\ ToSet(queue') \intersect (Received' \union (dropped' \union lost')) = {}
          /\ Received' \intersect (dropped' \union lost') = {} /\ dropped' \intersect lost' = {}
      BY <1>1, <2>1, <2>2
    <2>6. \A e \in Device : IsInjective(got'[e]) /\ \A i \in DOMAIN got'[e] : got'[e][i].to = e
      BY <1>1, <2>1
    <2>7. \A old \in dropped', s \in ToSet(queue') : old.n < s.n
      BY <1>1
    <2>8. QED
      BY <1>4, <2>4, <2>5, <2>6, <2>7 DEF SignalsConserved
  <1>7. QED
    BY <1>3, <1>4, <1>6 DEF SignalingInv

LEMMA SignalingPreserved == SignalingInv /\ [SignalingNext]_signalingVars => SignalingInv'
  <1> SUFFICES ASSUME SignalingInv, [SignalingNext]_signalingVars
               PROVE  SignalingInv'
    OBVIOUS
  <1>1. CASE UNCHANGED signalingVars
    BY <1>1 DEF signalingVars, SignalingInv, SignalingTypeOK, SignalsConserved, SignalsInOrder,
                Increasing, ReceivedFirst, Received
  <1>2. QED
    BY <1>1, SendSignalStep, FetchSignalsStep, SignalingRestartStep DEF SignalingNext

LEMMA SignalingInitial == SignalingInit => SignalingInv
  <1> SUFFICES ASSUME SignalingInit
               PROVE  SignalingInv
    OBVIOUS
  <1>1. ToSet(queue) = {} /\ Received = {} /\ dropped = {} /\ lost = {} /\ sent = 0
        /\ queue = <<>> /\ \A d \in Device : got[d] = <<>>
    BY DEF SignalingInit, ToSet, Received
  <1>2. SignalingTypeOK
    BY QueueAssumption, SignalingAssumption DEF SignalingInit, SignalingTypeOK
  <1>3. Numbers({}) = {} /\ 1 .. 0 = {}
    BY DEF Numbers
  <1>4. SignalsConserved
    BY <1>1, <1>3 DEF SignalsConserved, IsInjective
  <1>5. QED
    BY <1>1, <1>2, <1>4 DEF SignalingInv, SignalsInOrder, Increasing, ReceivedFirst

\* The inductive invariant of the queue of signals.
LEMMA SignalingInvariant == SignalingSpec => []SignalingInv
  BY SignalingInitial, SignalingPreserved, PTL DEF SignalingSpec

\* For any number of devices and calls and any bounds: every accepted signal waits, was
\* received by its recipient, or is gone, once; only the oldest ever makes room.
THEOREM SignalsConservedHolds == SignalingSpec => []SignalsConserved
  <1>1. SignalingInv => SignalsConserved
    BY DEF SignalingInv
  <1>2. QED
    BY <1>1, SignalingInvariant, PTL

\* The signals of a call reach a device in their order, however its fetches take turns.
THEOREM SignalsInOrderHolds == SignalingSpec => []SignalsInOrder
  <1>1. SignalingInv => SignalsInOrder
    BY DEF SignalingInv
  <1>2. QED
    BY <1>1, SignalingInvariant, PTL

(***************************************************************************)
(* BundlePool: a one-time prekey is handed out once.                       *)
(***************************************************************************)
BundleSpec == BundleInit /\ [][BundleNext]_bundleVars

\* The row that a transaction has locked is not consumed, and locked by no other one.
LocksApart ==
  \A r \in BundleCall : bundle[r].at = "picked" /\ bundle[r].prekey # NoPrekey =>
    /\ bundle[r].prekey \in Uploaded \ consumed
    /\ \A q \in BundleCall \ {r} : bundle[q].at = "picked" => bundle[q].prekey # bundle[r].prekey

PoolInv == BundleTypeOK /\ LocksApart /\ PrekeyOnce

Stage == {"idle", "waits", "begun", "found", "picked"}
Asking == [at : Stage, prekey : Prekey \union {NoPrekey}]

\* The rows of an upload are new, each once.
LEMMA InsertedOnce ==
  ASSUME BundleTypeOK, NEW keys \in Upload, InsertPrekeys(keys)
  PROVE  /\ prekeys' \in Seq(Prekey)
         /\ \A i, j \in DOMAIN prekeys' : prekeys'[i] = prekeys'[j] => i = j
         /\ Uploaded \subseteq Uploaded'
  <1> DEFINE new == {i \in DOMAIN keys : keys[i] \notin Uploaded /\ \A j \in 1 .. i - 1 : keys[j] # keys[i]}
             rows == At(keys, new)
             n == Cardinality(new)
  <1>1. keys \in Seq(Prekey) /\ prekeys \in Seq(Prekey)
    BY PoolAssumption DEF BundleTypeOK
  <1>2. prekeys' = prekeys \o rows
    BY DEF InsertPrekeys
  <1>3. /\ n \in Nat
        /\ \E place \in [1 .. n -> new] :
             /\ rows = [k \in 1 .. n |-> keys[place[k]]]
             /\ \A k, l \in 1 .. n : k < l => place[k] < place[l]
    <2>1. new \in SUBSET DOMAIN keys
      OBVIOUS
    <2> HIDE DEF new
    <2>2. QED
      BY <1>1, <2>1, AtInOrder
  <1>4. PICK place \in [1 .. n -> new] :
          /\ rows = [k \in 1 .. n |-> keys[place[k]]]
          /\ \A k, l \in 1 .. n : k < l => place[k] < place[l]
    BY <1>3
  <1>5. \A i \in new : i \in DOMAIN keys /\ keys[i] \in Prekey /\ keys[i] \notin Uploaded
    BY <1>1
  <1>6. \A i, j \in new : i < j => keys[i] # keys[j]
    BY <1>1
  <1> HIDE DEF new, rows, n
  <1>7. rows \in Seq(Prekey) /\ Len(rows) = n /\ \A k \in 1 .. n : rows[k] = keys[place[k]]
    <2>1. \A k \in 1 .. n : place[k] \in new /\ keys[place[k]] \in Prekey
      BY <1>4, <1>5
    <2>2. rows \in [1 .. n -> Prekey]
      BY <1>4, <2>1
    <2>3. QED
      BY <1>3, <1>4, <2>2
  <1>8. \A k, l \in 1 .. n : rows[k] = rows[l] => k = l
    <2> SUFFICES ASSUME NEW k \in 1 .. n, NEW l \in 1 .. n, k < l
                 PROVE  rows[k] # rows[l]
      BY <1>3
    <2>1. QED
      BY <1>4, <1>6, <1>7
  <1>9. \A k \in 1 .. n : rows[k] \notin Uploaded
    BY <1>4, <1>5, <1>7
  <1>10. /\ DOMAIN prekeys' = 1 .. Len(prekeys) + n /\ Len(prekeys) \in Nat
         /\ \A i \in 1 .. Len(prekeys) : prekeys'[i] = prekeys[i]
         /\ \A i \in 1 .. Len(prekeys) + n : i > Len(prekeys) =>
              i - Len(prekeys) \in 1 .. n /\ prekeys'[i] = rows[i - Len(prekeys)]
    BY <1>1, <1>2, <1>3, <1>7
  <1>11. \A i \in 1 .. Len(prekeys) : prekeys[i] \in Uploaded
    BY <1>1 DEF Uploaded
  <1>12. prekeys' \in Seq(Prekey)
    BY <1>1, <1>2, <1>7
  <1>13. \A i, j \in DOMAIN prekeys' : prekeys'[i] = prekeys'[j] => i = j
    <2> SUFFICES ASSUME NEW i \in 1 .. Len(prekeys) + n, NEW j \in 1 .. Len(prekeys) + n, i < j
                 PROVE  prekeys'[i] # prekeys'[j]
      BY <1>3, <1>10
    <2>1. CASE j <= Len(prekeys)
      <3>1. i \in DOMAIN prekeys /\ j \in DOMAIN prekeys
        BY <1>1, <1>3, <1>10, <2>1
      <3>2. prekeys[i] # prekeys[j]
        BY <3>1 DEF BundleTypeOK
      <3>3. prekeys'[i] = prekeys[i] /\ prekeys'[j] = prekeys[j]
        BY <1>1, <1>10, <3>1
      <3>4. QED
        BY <3>2, <3>3
    <2>2. CASE j > Len(prekeys) /\ i <= Len(prekeys)
      BY <1>9, <1>10, <1>11, <2>2
    <2>3. CASE i > Len(prekeys)
      <3>1. i - Len(prekeys) # j - Len(prekeys)
        BY <1>3, <1>10
      <3>2. QED
        BY <1>3, <1>8, <1>10, <2>3, <3>1
    <2>4. QED
      BY <1>3, <1>10, <2>1, <2>2, <2>3
  <1>14. Uploaded \subseteq Uploaded'
    <2>1. DOMAIN prekeys = 1 .. Len(prekeys)
      BY <1>1
    <2>2. 1 .. Len(prekeys) \subseteq 1 .. Len(prekeys) + n
      BY <1>3, <1>10
    <2>3. \A i \in DOMAIN prekeys : i \in DOMAIN prekeys' /\ prekeys'[i] = prekeys[i]
      BY <1>10, <2>1, <2>2
    <2>4. QED
      BY <2>3 DEF Uploaded
  <1>15. QED
    BY <1>12, <1>13, <1>14

\* The step of one call that picks no row.
LEMMA UnpickedStep ==
  ASSUME PoolInv, NEW r \in BundleCall, NEW asking \in Asking, asking.at # "picked",
         bundle' = [bundle EXCEPT ![r] = asking], UNCHANGED <<prekeys, consumed, handedOut>>
  PROVE  PoolInv'
  <1>1. bundle' \in [BundleCall -> Asking] /\ Uploaded' = Uploaded
    BY DEF PoolInv, BundleTypeOK, Asking, Stage, Uploaded
  <1>2. BundleTypeOK'
    BY <1>1 DEF PoolInv, BundleTypeOK, Asking, Stage
  <1>3. bundle'[r] = asking /\ \A q \in BundleCall \ {r} : bundle'[q] = bundle[q]
    BY DEF PoolInv, BundleTypeOK
  <1>4. LocksApart'
    BY <1>1, <1>3 DEF PoolInv, LocksApart
  <1>5. PrekeyOnce'
    BY DEF PoolInv, PrekeyOnce
  <1>6. QED
    BY <1>2, <1>4, <1>5 DEF PoolInv

LEMMA BundleStepped ==
  ASSUME PoolInv, NEW r \in BundleCall, NEW from, NEW to \in Stage \ {"picked"}, BundleStep(r, from, to)
  PROVE  PoolInv'
  <1> DEFINE asking == [bundle[r] EXCEPT !.at = to]
  <1>1. bundle[r] \in Asking
    BY DEF PoolInv, BundleTypeOK, Asking, Stage
  <1>2. asking \in Asking /\ asking.at = to
    BY <1>1 DEF Asking
  <1>3. bundle' = [bundle EXCEPT ![r] = asking] /\ UNCHANGED <<prekeys, consumed, handedOut>>
    BY DEF BundleStep
  <1> HIDE DEF asking
  <1>4. QED
    BY <1>2, <1>3, UnpickedStep

LEMMA BundleEnds ==
  ASSUME PoolInv, NEW r \in BundleCall, BundleEnd(r), UNCHANGED <<prekeys, consumed, handedOut>>
  PROVE  PoolInv'
  <1>1. [at |-> "idle", prekey |-> NoPrekey] \in Asking
    BY DEF Asking, Stage
  <1>2. QED
    BY <1>1, UnpickedStep DEF BundleEnd

\* The picked row is one that no transaction has locked.
LEMMA ConsumePrekeyStep ==
  ASSUME PoolInv, NEW r \in BundleCall, ConsumePrekey(r)
  PROVE  PoolInv'
  <1>1. PICK k \in Prekey \union {NoPrekey} :
          Picks(k) /\ bundle' = [bundle EXCEPT ![r] = [at |-> "picked", prekey |-> k]]
    BY DEF ConsumePrekey
  <1>2. UNCHANGED <<prekeys, consumed, handedOut>> /\ Uploaded' = Uploaded
    BY DEF ConsumePrekey, Uploaded
  <1>3. k # NoPrekey => k \in Uploaded /\ k \notin consumed \union PrekeyLocked
    BY <1>1 DEF Picks, Available, Uploaded
  <1>4. [at |-> "picked", prekey |-> k] \in Asking
    BY DEF Asking, Stage
  <1>5. /\ bundle' \in [BundleCall -> Asking]
        /\ bundle'[r].at = "picked" /\ bundle'[r].prekey = k
        /\ \A q \in BundleCall \ {r} : bundle'[q] = bundle[q]
    BY <1>1, <1>4 DEF PoolInv, BundleTypeOK, Asking, Stage
  <1>6. BundleTypeOK'
    BY <1>2, <1>5 DEF PoolInv, BundleTypeOK, Asking, Stage
  <1>7. k # NoPrekey => \A q \in BundleCall : bundle[q].at = "picked" => bundle[q].prekey # k
    BY <1>3 DEF PrekeyLocked
  <1>8. LocksApart'
    <2> SUFFICES ASSUME NEW p \in BundleCall, bundle'[p].at = "picked", bundle'[p].prekey # NoPrekey
                 PROVE  /\ bundle'[p].prekey \in Uploaded \ consumed
                        /\ \A q \in BundleCall \ {p} :
                             bundle'[q].at = "picked" => bundle'[q].prekey # bundle'[p].prekey
      BY <1>2 DEF LocksApart
    <2>1. CASE p = r
      BY <1>3, <1>5, <1>7, <2>1
    <2>2. CASE p # r
      BY <1>5, <1>7, <2>2 DEF PoolInv, LocksApart
    <2>3. QED
      BY <2>1, <2>2
  <1>9. PrekeyOnce'
    BY <1>2 DEF PoolInv, PrekeyOnce
  <1>10. QED
    BY <1>6, <1>8, <1>9 DEF PoolInv

\* The committed answer is the first that hands the prekey out.
LEMMA BundleCommitStep ==
  ASSUME PoolInv, NEW r \in BundleCall, BundleCommit(r)
  PROVE  PoolInv'
  <1> DEFINE k == bundle[r].prekey
             over == [at |-> "idle", prekey |-> NoPrekey]
  <1>1. CASE k = NoPrekey
    BY <1>1, BundleEnds DEF BundleCommit
  <1>2. CASE k # NoPrekey
    <2>1. /\ bundle[r].at = "picked" /\ consumed' = consumed \union {k}
          /\ handedOut' = [handedOut EXCEPT ![k] = @ + 1]
          /\ bundle' = [bundle EXCEPT ![r] = over] /\ UNCHANGED prekeys /\ Uploaded' = Uploaded
      BY <1>2 DEF BundleCommit, BundleEnd, Uploaded
    <2>2. k \in Prekey /\ k \in Uploaded \ consumed /\ over \in Asking
      BY <1>2, <2>1 DEF PoolInv, BundleTypeOK, LocksApart, Asking, Stage
    <2>3. /\ bundle' \in [BundleCall -> Asking]
          /\ bundle'[r] = over /\ \A q \in BundleCall \ {r} : bundle'[q] = bundle[q]
      BY <2>1, <2>2 DEF PoolInv, BundleTypeOK, Asking, Stage
    <2>4. /\ handedOut' \in [Prekey -> Nat] /\ handedOut'[k] = handedOut[k] + 1
          /\ \A l \in Prekey \ {k} : handedOut'[l] = handedOut[l]
      BY <2>1, <2>2 DEF PoolInv, BundleTypeOK
    <2>5. BundleTypeOK'
      BY <2>1, <2>2, <2>3, <2>4 DEF PoolInv, BundleTypeOK, Asking, Stage
    <2>6. \A q \in BundleCall \ {r} : bundle[q].at = "picked" => bundle[q].prekey # k
      BY <1>2, <2>1 DEF PoolInv, LocksApart
    <2>7. LocksApart'
      <3> SUFFICES ASSUME NEW p \in BundleCall, bundle'[p].at = "picked", bundle'[p].prekey # NoPrekey
                   PROVE  /\ bundle'[p].prekey \in Uploaded \ consumed'
                          /\ \A q \in BundleCall \ {p} :
                               bundle'[q].at = "picked" => bundle'[q].prekey # bundle'[p].prekey
        BY <2>1 DEF LocksApart
      <3>1. p # r
        BY <2>3
      <3>2. QED
        BY <2>1, <2>3, <2>6, <3>1 DEF PoolInv, LocksApart
    <2>8. PrekeyOnce'
      <3>1. handedOut[k] = 0
        BY <2>2 DEF PoolInv, PrekeyOnce
      <3>2. QED
        BY <2>1, <2>4, <3>1 DEF PoolInv, PrekeyOnce
    <2>9. QED
      BY <2>5, <2>7, <2>8 DEF PoolInv
  <1>3. QED
    BY <1>1, <1>2

LEMMA PoolPreserved == PoolInv /\ [BundleNext]_bundleVars => PoolInv'
  <1> SUFFICES ASSUME PoolInv, [BundleNext]_bundleVars
               PROVE  PoolInv'
    OBVIOUS
  <1>1. ASSUME NEW keys \in Upload, UploadPrekeys(keys)
        PROVE  PoolInv'
    <2>1. UNCHANGED <<consumed, bundle, handedOut>> /\ InsertPrekeys(keys)
      BY <1>1 DEF UploadPrekeys
    <2>2. BundleTypeOK'
      BY <2>1, InsertedOnce DEF PoolInv, BundleTypeOK
    <2>3. LocksApart' /\ PrekeyOnce'
      BY <2>1, InsertedOnce DEF PoolInv, LocksApart, PrekeyOnce
    <2>4. QED
      BY <2>2, <2>3 DEF PoolInv
  <1>2. ASSUME NEW r \in BundleCall, BundleArrive(r) \/ BundleBegin(r) \/ FindDevice(r)
        PROVE  PoolInv'
    <2>1. \E from, to \in Stage \ {"picked"} : BundleStep(r, from, to)
      BY <1>2 DEF BundleArrive, BundleBegin, FindDevice, Stage
    <2>2. QED
      BY <2>1, BundleStepped
  <1>3. ASSUME NEW r \in BundleCall, BundleFails(r) \/ BundleTimeout(r)
        PROVE  PoolInv'
    BY <1>3, BundleEnds DEF BundleFails, BundleTimeout
  <1>4. CASE UNCHANGED bundleVars
    BY <1>4 DEF bundleVars, PoolInv, BundleTypeOK, LocksApart, PrekeyOnce, Uploaded
  <1>5. QED
    BY <1>1, <1>2, <1>3, <1>4, ConsumePrekeyStep, BundleCommitStep DEF BundleNext, BundleProgress

\* The inductive invariant of the pool.
LEMMA PoolInvariant == BundleSpec => []PoolInv
  <1>1. BundleInit => PoolInv
    BY DEF BundleInit, PoolInv, BundleTypeOK, LocksApart, PrekeyOnce, Uploaded
  <1>2. QED
    BY <1>1, PoolPreserved, PTL DEF BundleSpec

\* For any number of calls, connections and prekeys: a prekey is in one committed answer
\* at most, and from then on consumed.
THEOREM PrekeyOnceHolds == BundleSpec => []PrekeyOnce
  <1>1. PoolInv => PrekeyOnce
    BY DEF PoolInv
  <1>2. QED
    BY <1>1, PoolInvariant, PTL

(***************************************************************************)
(* LoginRateLimit: the refused passwords of a window's length.             *)
(***************************************************************************)
RateSpec == RateInit /\ [][RateNext]_rateVars

Entries == [known : BOOLEAN, attempts : Nat, window : 0 .. LoginWindow + 1,
            blocked : BOOLEAN, left : 0 .. BlockTime]

\* What the windows before the current one can leave.
Leavable ==
  IF Cardinality(LoginCall) > MaxAttempts THEN 2 * (MaxAttempts - 1) ELSE MaxAttempts - 1

UnknownIsNew ==
  ~entry.known => ~entry.blocked /\ entry.attempts = 0 /\ entry.window = 0

\* A failure that is younger than the window was counted in it.
OpenBounded ==
  ~entry.blocked =>
    /\ entry.attempts < MaxAttempts
    /\ \A a \in 0 .. LoginWindow :
         /\ failed[a] <= entry.attempts + Leavable
         /\ a < entry.window => failed[a] <= entry.attempts

\* Behind a block only the logins that were let in before it can fail, and a window that
\* blocks again at each of them leaves nothing that is younger than the block.
BlockedBounded ==
  entry.blocked =>
    /\ Cardinality(checking) < Cardinality(LoginCall)
    /\ \A a \in 0 .. LoginWindow :
         /\ failed[a] + Cardinality(checking) <= MaxAttempts - 1 + Leavable + Cardinality(LoginCall)
         /\ a + entry.left < BlockTime =>
              /\ failed[a] + Cardinality(checking) < Cardinality(LoginCall)
              /\ entry.attempts >= MaxAttempts => failed[a] = 0
              /\ entry.attempts < MaxAttempts => failed[a] <= entry.attempts + MaxAttempts - 1
              /\ entry.attempts < MaxAttempts /\ a < entry.window => failed[a] <= entry.attempts

RateInv == RateTypeOK /\ UnknownIsNew /\ OpenBounded /\ BlockedBounded

LEMMA RateFacts ==
  ASSUME RateTypeOK
  PROVE  /\ entry \in Entries
         /\ Cardinality(LoginCall) \in Nat /\ Cardinality(checking) \in Nat
         /\ Cardinality(checking) <= Cardinality(LoginCall)
         /\ Leavable \in Nat /\ MaxAttempts - 1 <= Leavable
         /\ MaxAttempts \in Nat \ {0} /\ LoginWindow \in Nat /\ BlockTime \in Nat
         /\ LoginWindow < BlockTime
         /\ \A a \in 0 .. LoginWindow : failed[a] \in Nat
  <1>1. IsFiniteSet(LoginCall) /\ checking \in SUBSET LoginCall
    BY RateAssumption DEF RateTypeOK
  <1>2. Cardinality(LoginCall) \in Nat
    BY <1>1, FS_CardinalityType
  <1>3. Cardinality(checking) \in Nat /\ Cardinality(checking) <= Cardinality(LoginCall)
    BY <1>1, FS_Subset, FS_CardinalityType
  <1>4. Leavable \in Nat /\ MaxAttempts - 1 <= Leavable
    BY <1>2, RateAssumption DEF Leavable
  <1>5. QED
    BY <1>2, <1>3, <1>4, RateAssumption DEF RateTypeOK, Entries

\* A login leaves the set of those that were let in.
LEMMA OneLess ==
  ASSUME RateTypeOK, NEW call \in checking
  PROVE  /\ Cardinality(checking \ {call}) \in Nat
         /\ Cardinality(checking \ {call}) = Cardinality(checking) - 1
         /\ Cardinality(checking) > 0
  <1>1. IsFiniteSet(checking)
    BY RateAssumption, FS_Subset DEF RateTypeOK
  <1>2. Cardinality(checking \ {call}) = Cardinality(checking) - 1
    BY <1>1, FS_RemoveElement
  <1>3. IsFiniteSet(checking \ {call})
    BY <1>1, FS_RemoveElement
  <1>4. Cardinality(checking \ {call}) \in Nat /\ Cardinality(checking) \in Nat
    BY <1>1, <1>3, FS_CardinalityType
  <1>5. QED
    BY <1>2, <1>4

\* The entry whose window is not over, or a new one.
LEMMA RolledFields ==
  ASSUME NEW e \in Entries
  PROVE  /\ Rolled(e) \in Entries
         /\ Rolled(e).known = e.known /\ Rolled(e).blocked = e.blocked /\ Rolled(e).left = e.left
         /\ e.window > LoginWindow => Rolled(e).attempts = 0 /\ Rolled(e).window = 0
         /\ ~(e.window > LoginWindow) => Rolled(e) = e
  <1>1. CASE ~(e.window > LoginWindow)
    <2>1. Rolled(e) = e
      BY <1>1 DEF Rolled
    <2>2. QED
      BY <1>1, <2>1
  <1>2. CASE e.window > LoginWindow
    <2> DEFINE new == [known |-> e.known, attempts |-> 0, window |-> 0,
                       blocked |-> e.blocked, left |-> e.left]
    <2>1. Rolled(e) = new
      BY <1>2 DEF Rolled, Entries
    <2>2. new \in Entries
      BY RateAssumption DEF Entries
    <2>3. QED
      BY <1>2, <2>1, <2>2
  <1>3. QED
    BY <1>1, <1>2

LEMMA CurrentFields ==
  ASSUME RateInv
  PROVE  /\ Current \in Entries /\ Current.known
         /\ Current.attempts = entry.attempts /\ Current.window = entry.window
         /\ Current.blocked = entry.blocked
         /\ entry.known => Current.left = entry.left
         /\ entry.blocked => Current.left = entry.left
  <1>1. NewEntry \in Entries /\ NewEntry.known /\ NewEntry.attempts = 0 /\ NewEntry.window = 0
        /\ NewEntry.blocked = FALSE
    BY RateAssumption DEF NewEntry, Entries
  <1>2. entry \in Entries
    BY RateFacts DEF RateInv
  <1>3. CASE entry.known
    BY <1>2, <1>3 DEF Current
  <1>4. CASE ~entry.known
    <2>1. Current = NewEntry /\ entry.blocked \in BOOLEAN
      BY <1>2, <1>4 DEF Current, Entries
    <2>2. QED
      BY <1>1, <1>4, <2>1 DEF RateInv, UnknownIsNew
  <1>5. QED
    BY <1>3, <1>4

\* The entries that the operations make out of another one, field by field.
LEMMA CountedFields ==
  ASSUME NEW e \in Entries
  PROVE  /\ [e EXCEPT !.attempts = @ + 1] \in Entries
         /\ [e EXCEPT !.attempts = @ + 1].attempts = e.attempts + 1
         /\ [e EXCEPT !.attempts = @ + 1].window = e.window
         /\ [e EXCEPT !.attempts = @ + 1].known = e.known
         /\ [e EXCEPT !.attempts = @ + 1].blocked = e.blocked
         /\ [e EXCEPT !.attempts = @ + 1].left = e.left
  <1>1. [e EXCEPT !.attempts = @ + 1] \in Entries
    BY DEF Entries
  <1>2. [e EXCEPT !.attempts = @ + 1].attempts = e.attempts + 1
    BY DEF Entries
  <1>3. [e EXCEPT !.attempts = @ + 1].window = e.window
    BY DEF Entries
  <1>4. [e EXCEPT !.attempts = @ + 1].known = e.known
    BY DEF Entries
  <1>5. [e EXCEPT !.attempts = @ + 1].blocked = e.blocked
    BY DEF Entries
  <1>6. [e EXCEPT !.attempts = @ + 1].left = e.left
    BY DEF Entries
  <1>7. QED
    BY <1>1, <1>2, <1>3, <1>4, <1>5, <1>6

LEMMA ClosedFields ==
  ASSUME NEW e \in Entries
  PROVE  /\ [e EXCEPT !.blocked = TRUE, !.left = BlockTime] \in Entries
         /\ [e EXCEPT !.blocked = TRUE, !.left = BlockTime].attempts = e.attempts
         /\ [e EXCEPT !.blocked = TRUE, !.left = BlockTime].window = e.window
         /\ [e EXCEPT !.blocked = TRUE, !.left = BlockTime].known = e.known
         /\ [e EXCEPT !.blocked = TRUE, !.left = BlockTime].blocked = TRUE
         /\ [e EXCEPT !.blocked = TRUE, !.left = BlockTime].left = BlockTime
  <1> BlockTime \in 0 .. BlockTime
    BY RateAssumption
  <1>1. [e EXCEPT !.blocked = TRUE, !.left = BlockTime] \in Entries
    BY DEF Entries
  <1>2. [e EXCEPT !.blocked = TRUE, !.left = BlockTime].attempts = e.attempts
    BY DEF Entries
  <1>3. [e EXCEPT !.blocked = TRUE, !.left = BlockTime].window = e.window
    BY DEF Entries
  <1>4. [e EXCEPT !.blocked = TRUE, !.left = BlockTime].known = e.known
    BY DEF Entries
  <1>5. [e EXCEPT !.blocked = TRUE, !.left = BlockTime].blocked = TRUE
    BY DEF Entries
  <1>6. [e EXCEPT !.blocked = TRUE, !.left = BlockTime].left = BlockTime
    BY DEF Entries
  <1>7. QED
    BY <1>1, <1>2, <1>3, <1>4, <1>5, <1>6

LEMMA NoEntryFields ==
  /\ NoEntry \in Entries
  /\ NoEntry.known = FALSE /\ NoEntry.blocked = FALSE
  /\ NoEntry.attempts = 0 /\ NoEntry.window = 0
  <1>1. NewEntry \in Entries
    BY RateAssumption DEF NewEntry, Entries
  <1>2. \A e \in Entries : \A k \in BOOLEAN : [e EXCEPT !.known = k] \in Entries
    BY DEF Entries
  <1>3. NoEntry \in Entries
    BY <1>1, <1>2 DEF NoEntry
  <1>4. NoEntry.known = FALSE
    BY DEF NoEntry, NewEntry
  <1>5. NoEntry.blocked = FALSE
    BY DEF NoEntry, NewEntry
  <1>6. NoEntry.attempts = 0 /\ NoEntry.window = 0
    BY DEF NoEntry, NewEntry
  <1>7. QED
    BY <1>3, <1>4, <1>5, <1>6

\* A login that is let in begins a new count or none; one that is not leaves all as it is.
LEMMA LoginAllowStep ==
  ASSUME RateInv, NEW call \in LoginCall, LoginAllow(call)
  PROVE  RateInv'
  <1>1. /\ entry' = Allowed(Current) /\ failed' = failed
        /\ checking' = IF entry'.blocked THEN checking ELSE checking \union {call}
    BY DEF LoginAllow
  <1>2. /\ NewEntry \in Entries /\ NewEntry.known /\ NewEntry.attempts = 0 /\ NewEntry.window = 0
        /\ NewEntry.blocked = FALSE
    BY RateAssumption DEF NewEntry, Entries
  <1>3. checking' \subseteq LoginCall
    BY <1>1 DEF RateInv, RateTypeOK
  <1>4. CASE Current.blocked /\ Current.left > 0
    <2>1. entry.blocked
      BY <1>4, CurrentFields
    <2>2. entry.known
      BY <2>1 DEF RateInv, UnknownIsNew
    <2>3. entry' = entry /\ checking' = checking
      BY <1>1, <1>4, <2>1, <2>2 DEF Allowed, Current
    <2>4. QED
      BY <1>1, <2>3 DEF RateInv, RateTypeOK, UnknownIsNew, OpenBounded, BlockedBounded
  <1>5. CASE Current.blocked /\ ~(Current.left > 0)
    <2>1. entry' = NewEntry
      BY <1>1, <1>5 DEF Allowed
    <2>2. entry.blocked /\ entry.left = 0
      <3>1. entry.blocked
        BY <1>5, CurrentFields
      <3>2. Current.left = entry.left /\ entry.left \in Nat
        BY <3>1, CurrentFields, RateFacts DEF RateInv, Entries
      <3>3. QED
        BY <1>5, <3>1, <3>2
    <2>3. \A a \in 0 .. LoginWindow : failed[a] <= Leavable
      <3> TAKE a \in 0 .. LoginWindow
      <3>1. a + entry.left < BlockTime
        BY <2>2, RateFacts DEF RateInv
      <3>2. /\ failed[a] + Cardinality(checking) < Cardinality(LoginCall)
            /\ entry.attempts >= MaxAttempts => failed[a] = 0
            /\ entry.attempts < MaxAttempts => failed[a] <= entry.attempts + MaxAttempts - 1
        BY <2>2, <3>1 DEF RateInv, BlockedBounded
      <3>3. entry.attempts \in Nat
        BY RateFacts DEF RateInv, Entries
      <3>4. QED
        BY <3>2, <3>3, RateFacts DEF RateInv, Leavable
    <2>4. RateTypeOK'
      BY <1>1, <1>2, <1>3, <2>1 DEF RateInv, RateTypeOK, Entries
    <2>5. OpenBounded'
      BY <1>1, <1>2, <2>1, <2>3, RateFacts DEF RateInv, OpenBounded, Leavable
    <2>6. QED
      BY <1>2, <2>1, <2>4, <2>5 DEF RateInv, UnknownIsNew, BlockedBounded
  <1>6. CASE ~Current.blocked
    <2>1. entry' = Rolled(Current)
      BY <1>1, <1>6 DEF Allowed
    <2>2. entry' \in Entries /\ entry'.known /\ ~entry'.blocked
      BY <1>6, <2>1, CurrentFields, RolledFields
    <2>3. /\ entry.attempts \in Nat /\ entry.attempts < MaxAttempts /\ entry.window \in Nat
          /\ \A a \in 0 .. LoginWindow :
               /\ failed[a] <= entry.attempts + Leavable
               /\ a < entry.window => failed[a] <= entry.attempts
      BY <1>6, CurrentFields, RateFacts DEF RateInv, OpenBounded, Entries
    <2>4. \/ entry'.attempts = entry.attempts /\ entry'.window = entry.window
          \/ entry.window > LoginWindow /\ entry'.attempts = 0 /\ entry'.window = 0
      BY <2>1, CurrentFields, RolledFields
    <2>5. RateTypeOK'
      BY <1>1, <1>3, <2>2 DEF RateInv, RateTypeOK, Entries
    <2>6. OpenBounded'
      <3>1. CASE entry'.attempts = entry.attempts /\ entry'.window = entry.window
        BY <1>1, <2>3, <3>1 DEF OpenBounded, Leavable
      <3>2. CASE entry.window > LoginWindow /\ entry'.attempts = 0 /\ entry'.window = 0
        <4>1. \A a \in 0 .. LoginWindow : failed[a] <= Leavable
          BY <2>3, <3>2, RateFacts DEF RateInv
        <4>2. QED
          BY <1>1, <3>2, <4>1, RateFacts DEF RateInv, OpenBounded, Leavable
      <3>3. QED
        BY <2>4, <3>1, <3>2
    <2>7. QED
      BY <2>2, <2>5, <2>6 DEF RateInv, UnknownIsNew, BlockedBounded
  <1>7. QED
    BY <1>4, <1>5, <1>6

\* A refused password counts in the window that is open, which it may close.
LEMMA LoginFailedStep ==
  ASSUME RateInv, NEW call \in LoginCall, LoginFailed(call)
  PROVE  RateInv'
  <1> DEFINE rolled == Rolled(Current)
             counted == [rolled EXCEPT !.attempts = @ + 1]
             closed == [counted EXCEPT !.blocked = TRUE, !.left = BlockTime]
             n == Cardinality(checking)
  <1>1. /\ rolled \in Entries /\ rolled.known
        /\ entry.attempts \in Nat /\ entry.window \in Nat /\ entry.left \in Nat
        /\ \/ rolled.attempts = entry.attempts /\ rolled.window = entry.window
           \/ entry.window > LoginWindow /\ rolled.attempts = 0 /\ rolled.window = 0
        /\ rolled.blocked = entry.blocked
        /\ entry.blocked => rolled.left = entry.left
    BY CurrentFields, RolledFields, RateFacts DEF RateInv, Entries
  <1> HIDE DEF rolled
  <1>2. /\ counted \in Entries
        /\ counted.attempts = rolled.attempts + 1 /\ counted.window = rolled.window
        /\ counted.known = rolled.known /\ counted.blocked = rolled.blocked
        /\ counted.left = rolled.left
    BY <1>1, CountedFields
  <1> HIDE DEF counted
  <1>3. /\ closed \in Entries
        /\ closed.attempts = counted.attempts /\ closed.window = counted.window
        /\ closed.known = counted.known /\ closed.blocked = TRUE /\ closed.left = BlockTime
    BY <1>2, ClosedFields
  <1> HIDE DEF closed
  <1>4. /\ call \in checking /\ checking' = checking \ {call}
        /\ entry' = IF rolled.attempts + 1 >= MaxAttempts THEN closed ELSE counted
        /\ failed' = [a \in 0 .. LoginWindow |-> failed[a] + 1]
    BY <1>2 DEF LoginFailed, rolled, counted, closed
  <1>5. /\ n \in Nat /\ n <= Cardinality(LoginCall) /\ Cardinality(checking') = n - 1 /\ n > 0
        /\ Cardinality(checking') \in Nat
    BY <1>4, OneLess, RateFacts DEF RateInv
  <1>6. entry' \in Entries /\ entry'.known
    BY <1>1, <1>2, <1>3, <1>4
  <1>7. RateTypeOK' /\ UnknownIsNew'
    <2>1. failed' \in [0 .. LoginWindow -> Nat] /\ checking' \subseteq LoginCall
      BY <1>4 DEF RateInv, RateTypeOK
    <2>2. RateTypeOK'
      BY <1>6, <2>1 DEF RateTypeOK, Entries
    <2>3. QED
      BY <1>6, <2>2 DEF UnknownIsNew
  <1>8. \A a \in 0 .. LoginWindow : failed[a] \in Nat /\ failed'[a] = failed[a] + 1
    BY <1>4, RateFacts DEF RateInv
  <1>9. /\ entry'.attempts = rolled.attempts + 1 /\ entry'.window = rolled.window
        /\ rolled.attempts \in Nat /\ rolled.window \in Nat
    BY <1>1, <1>2, <1>3, <1>4 DEF Entries
  <1>10. CASE ~entry.blocked
    <2>1. /\ entry.attempts < MaxAttempts
          /\ \A a \in 0 .. LoginWindow :
               /\ failed[a] <= entry.attempts + Leavable
               /\ a < entry.window => failed[a] <= entry.attempts
      BY <1>10 DEF RateInv, OpenBounded
    <2>2. /\ rolled.attempts < MaxAttempts
          /\ \A a \in 0 .. LoginWindow :
               /\ failed[a] <= rolled.attempts + Leavable
               /\ a < rolled.window => failed[a] <= rolled.attempts
      <3>1. CASE rolled.attempts = entry.attempts /\ rolled.window = entry.window
        BY <2>1, <3>1
      <3>2. CASE entry.window > LoginWindow /\ rolled.attempts = 0 /\ rolled.window = 0
        <4>1. \A a \in 0 .. LoginWindow : failed[a] <= entry.attempts /\ failed[a] \in Nat
          BY <1>1, <1>8, <2>1, <3>2, RateFacts DEF RateInv
        <4>2. \A a \in 0 .. LoginWindow : failed[a] <= 0 + Leavable /\ ~(a < 0)
          BY <1>1, <2>1, <4>1, RateFacts DEF RateInv
        <4>3. QED
          BY <3>2, <4>2, RateFacts DEF RateInv
      <3>3. QED
        BY <1>1, <3>1, <3>2
    <2>3. CASE rolled.attempts + 1 >= MaxAttempts
      <3>1. entry'.blocked /\ entry'.left = BlockTime
        BY <1>3, <1>4, <2>3
      <3>2. \A a \in 0 .. LoginWindow : ~(a + BlockTime < BlockTime)
        BY RateFacts DEF RateInv
      <3>3. \A a \in 0 .. LoginWindow :
              failed'[a] + Cardinality(checking') <= MaxAttempts - 1 + Leavable + Cardinality(LoginCall)
        BY <1>5, <1>8, <1>9, <2>2, RateFacts DEF RateInv
      <3>4. Cardinality(checking') < Cardinality(LoginCall)
        BY <1>5, RateFacts DEF RateInv
      <3>5. QED
        BY <1>7, <3>1, <3>2, <3>3, <3>4 DEF RateInv, OpenBounded, BlockedBounded, Leavable
    <2>4. CASE ~(rolled.attempts + 1 >= MaxAttempts)
      <3>1. ~entry'.blocked
        BY <1>1, <1>2, <1>4, <1>10, <2>4
      <3>2. /\ entry'.attempts < MaxAttempts
            /\ \A a \in 0 .. LoginWindow :
                 /\ failed'[a] <= entry'.attempts + Leavable
                 /\ a < entry'.window => failed'[a] <= entry'.attempts
        BY <1>8, <1>9, <2>2, <2>4, RateFacts DEF RateInv
      <3>3. QED
        BY <1>7, <3>1, <3>2 DEF RateInv, OpenBounded, BlockedBounded, Leavable
    <2>5. QED
      BY <2>3, <2>4
  <1>11. CASE entry.blocked
    <2>1. /\ n < Cardinality(LoginCall)
          /\ \A a \in 0 .. LoginWindow :
               /\ failed[a] + n <= MaxAttempts - 1 + Leavable + Cardinality(LoginCall)
               /\ a + entry.left < BlockTime =>
                    /\ failed[a] + n < Cardinality(LoginCall)
                    /\ entry.attempts >= MaxAttempts => failed[a] = 0
                    /\ entry.attempts < MaxAttempts => failed[a] <= entry.attempts + MaxAttempts - 1
                    /\ entry.attempts < MaxAttempts /\ a < entry.window => failed[a] <= entry.attempts
      BY <1>11 DEF RateInv, BlockedBounded
    <2>2. entry'.blocked
      BY <1>1, <1>2, <1>3, <1>4, <1>11
    <2>3. Cardinality(checking') < Cardinality(LoginCall)
      BY <1>5, <2>1, RateFacts DEF RateInv
    <2>4. ASSUME NEW a \in 0 .. LoginWindow
          PROVE  failed'[a] + Cardinality(checking') <= MaxAttempts - 1 + Leavable + Cardinality(LoginCall)
      BY <1>5, <1>8, <2>1, RateFacts DEF RateInv
    <2>5. ASSUME NEW a \in 0 .. LoginWindow, a + entry'.left < BlockTime
          PROVE  /\ failed'[a] + Cardinality(checking') < Cardinality(LoginCall)
                 /\ entry'.attempts >= MaxAttempts => failed'[a] = 0
                 /\ entry'.attempts < MaxAttempts => failed'[a] <= entry'.attempts + MaxAttempts - 1
                 /\ entry'.attempts < MaxAttempts /\ a < entry'.window => failed'[a] <= entry'.attempts
      <3>1. rolled.attempts + 1 < MaxAttempts /\ entry'.left = entry.left
        <4>1. CASE rolled.attempts + 1 >= MaxAttempts
          <5>1. entry'.left = BlockTime
            BY <1>3, <1>4, <4>1
          <5>2. QED
            BY <2>5, <5>1, RateFacts DEF RateInv
        <4>2. CASE ~(rolled.attempts + 1 >= MaxAttempts)
          BY <1>1, <1>2, <1>4, <1>9, <1>11, <4>2, RateFacts DEF RateInv
        <4>3. QED
          BY <4>1, <4>2
      <3>2. failed[a] + n < Cardinality(LoginCall)
        BY <2>1, <2>5, <3>1
      <3>3. CASE rolled.attempts = entry.attempts /\ rolled.window = entry.window
        <4>1. /\ failed[a] <= entry.attempts + MaxAttempts - 1
              /\ a < entry.window => failed[a] <= entry.attempts
          BY <1>1, <2>1, <2>5, <3>1, <3>3, RateFacts DEF RateInv
        <4>2. QED
          BY <1>1, <1>5, <1>8, <1>9, <3>1, <3>2, <3>3, <4>1, RateFacts DEF RateInv
      <3>4. CASE entry.window > LoginWindow /\ rolled.attempts = 0 /\ rolled.window = 0
        <4>1. a < entry.window /\ ~(a < 0)
          BY <1>1, <3>4, RateFacts DEF RateInv
        <4>2. failed[a] <= MaxAttempts - 1
          BY <1>1, <1>8, <2>1, <2>5, <3>1, <4>1, RateFacts DEF RateInv
        <4>3. QED
          BY <1>5, <1>8, <1>9, <3>1, <3>2, <3>4, <4>1, <4>2, RateFacts DEF RateInv
      <3>5. QED
        BY <1>1, <3>3, <3>4
    <2>6. QED
      BY <1>7, <2>2, <2>3, <2>4, <2>5 DEF RateInv, OpenBounded, BlockedBounded, Leavable
  <1>12. QED
    BY <1>10, <1>11

LEMMA LoginEndsStep ==
  ASSUME RateInv, NEW call \in LoginCall, LoginSucceeded(call) \/ LoginDropped(call)
  PROVE  RateInv'
  <1>1. call \in checking /\ checking' = checking \ {call}
    BY DEF LoginSucceeded, LoginDropped
  <1>2. /\ Cardinality(checking) \in Nat /\ Cardinality(checking') \in Nat
        /\ Cardinality(checking') = Cardinality(checking) - 1
    BY <1>1, OneLess, RateFacts DEF RateInv
  <1>3. checking' \subseteq LoginCall
    BY <1>1 DEF RateInv, RateTypeOK
  <1>4. CASE UNCHANGED <<entry, failed>>
    <2>1. RateTypeOK' /\ UnknownIsNew' /\ OpenBounded'
      BY <1>3, <1>4 DEF RateInv, RateTypeOK, UnknownIsNew, OpenBounded, Leavable
    <2>2. \A a \in 0 .. LoginWindow : failed[a] \in Nat
      BY RateFacts DEF RateInv
    <2>3. ASSUME entry.blocked
          PROVE  /\ Cardinality(checking') < Cardinality(LoginCall)
                 /\ \A a \in 0 .. LoginWindow :
                      failed[a] + Cardinality(checking') <= MaxAttempts - 1 + Leavable + Cardinality(LoginCall)
      BY <1>2, <2>2, <2>3, RateFacts DEF RateInv, BlockedBounded
    <2>4. ASSUME entry.blocked, NEW a \in 0 .. LoginWindow, a + entry.left < BlockTime
          PROVE  failed[a] + Cardinality(checking') < Cardinality(LoginCall)
      BY <1>2, <2>2, <2>4, RateFacts DEF RateInv, BlockedBounded
    <2>5. BlockedBounded'
      BY <1>4, <2>3, <2>4 DEF RateInv, BlockedBounded, Leavable
    <2>6. QED
      BY <2>1, <2>5 DEF RateInv
  <1>5. CASE entry' = NoEntry /\ failed' = NoFailures
    <2>1. /\ entry' \in Entries /\ ~entry'.known /\ ~entry'.blocked
          /\ entry'.attempts = 0 /\ entry'.window = 0
      BY <1>5, NoEntryFields
    <2>3. \A a \in 0 .. LoginWindow : failed'[a] = 0
      BY <1>5 DEF NoFailures
    <2>4. RateTypeOK'
      BY <1>3, <1>5, <2>1, RateAssumption DEF RateTypeOK, NoFailures, Entries
    <2>5. UnknownIsNew' /\ BlockedBounded'
      BY <2>1 DEF UnknownIsNew, BlockedBounded
    <2>6. OpenBounded'
      BY <2>1, <2>3, RateFacts DEF RateInv, OpenBounded, Leavable
    <2>7. QED
      BY <2>4, <2>5, <2>6 DEF RateInv
  <1>6. QED
    BY <1>4, <1>5 DEF LoginSucceeded, LoginDropped

\* A second passes: what was refused in the last a - 1 seconds was so in the last a ones.
LEMMA LoginTimeStep ==
  ASSUME RateInv, LoginTimePasses
  PROVE  RateInv'
  <1>1. entry \in Entries /\ \A a \in 0 .. LoginWindow : failed[a] \in Nat
    BY RateFacts DEF RateInv
  <1>2. /\ checking' = checking
        /\ failed' = [a \in 0 .. LoginWindow |-> IF a = 0 THEN 0 ELSE failed[a - 1]]
    BY DEF LoginTimePasses
  <1>3. /\ entry' \in Entries
        /\ entry'.known = entry.known /\ entry'.blocked = entry.blocked
        /\ entry'.attempts = entry.attempts
        /\ ~entry.known => entry' = entry
        /\ \/ entry'.window = entry.window
           \/ entry'.window = entry.window + 1
        /\ entry.window \in Nat
        /\ entry.left \in Nat /\ entry'.left \in Nat
        /\ \/ entry'.left = entry.left /\ (entry.blocked => entry.left = 0)
           \/ entry'.left = entry.left - 1
    <2>1. CASE ~entry.known
      <3>1. entry' = entry
        BY <2>1 DEF LoginTimePasses
      <3>2. ~entry.blocked
        BY <2>1 DEF RateInv, UnknownIsNew
      <3>3. QED
        BY <1>1, <3>1, <3>2 DEF Entries
    <2>2. CASE entry.known
      <3> DEFINE w == IF entry.window > LoginWindow THEN entry.window ELSE entry.window + 1
                 l == IF entry.left = 0 THEN 0 ELSE entry.left - 1
                 later == [known |-> entry.known, attempts |-> entry.attempts, window |-> w,
                           blocked |-> entry.blocked, left |-> l]
      <3>1. entry' = later
        BY <1>1, <2>2 DEF LoginTimePasses, Entries
      <3>2. w \in 0 .. LoginWindow + 1 /\ l \in 0 .. BlockTime
        BY <1>1, RateAssumption DEF Entries
      <3>3. later \in Entries
        BY <1>1, <3>2 DEF Entries
      <3>4. /\ w = entry.window \/ w = entry.window + 1
            /\ (l = entry.left /\ entry.left = 0) \/ l = entry.left - 1
        OBVIOUS
      <3>5. entry.window \in Nat /\ entry.left \in Nat /\ l \in Nat
        BY <1>1, RateAssumption, <3>2 DEF Entries
      <3> HIDE DEF w, l
      <3>6. QED
        BY <2>2, <3>1, <3>3, <3>4, <3>5
    <2>3. QED
      BY <1>1, <2>1, <2>2 DEF Entries
  <1>4. \A a \in 0 .. LoginWindow : failed'[a] \in Nat
    <2>1. \A a \in 0 .. LoginWindow : a # 0 => a - 1 \in 0 .. LoginWindow
      BY RateAssumption
    <2>2. QED
      BY <1>1, <1>2, <2>1
  <1>5. RateTypeOK'
    BY <1>2, <1>3, <1>4 DEF RateInv, RateTypeOK, Entries
  <1>6. UnknownIsNew'
    BY <1>3 DEF RateInv, UnknownIsNew
  <1>7. \A a \in 0 .. LoginWindow :
          \/ failed'[a] = 0 /\ a = 0
          \/ a - 1 \in 0 .. LoginWindow /\ failed'[a] = failed[a - 1]
    BY <1>2, RateAssumption
  <1>8. entry.attempts \in Nat
    BY <1>1 DEF Entries
  <1>9. OpenBounded'
    <2> SUFFICES ASSUME ~entry.blocked
                 PROVE  /\ entry.attempts < MaxAttempts
                        /\ \A a \in 0 .. LoginWindow :
                             /\ failed'[a] <= entry.attempts + Leavable
                             /\ a < entry'.window => failed'[a] <= entry.attempts
      BY <1>3 DEF OpenBounded, Leavable
    <2>1. /\ entry.attempts < MaxAttempts
          /\ \A a \in 0 .. LoginWindow :
               /\ failed[a] <= entry.attempts + Leavable
               /\ a < entry.window => failed[a] <= entry.attempts
      BY DEF RateInv, OpenBounded
    <2>2. ASSUME NEW a \in 0 .. LoginWindow
          PROVE  /\ failed'[a] <= entry.attempts + Leavable
                 /\ a < entry'.window => failed'[a] <= entry.attempts
      <3>1. CASE failed'[a] = 0
        BY <1>8, <3>1, RateFacts DEF RateInv
      <3>2. CASE a - 1 \in 0 .. LoginWindow /\ failed'[a] = failed[a - 1]
        <4>1. a < entry'.window => a - 1 < entry.window
          BY <1>3
        <4>2. QED
          BY <2>1, <3>2, <4>1
      <3>3. QED
        BY <1>7, <3>1, <3>2
    <2>3. QED
      BY <2>1, <2>2
  <1>10. BlockedBounded'
    <2> DEFINE n == Cardinality(checking)
    <2> SUFFICES ASSUME entry.blocked
                 PROVE  /\ n < Cardinality(LoginCall)
                        /\ \A a \in 0 .. LoginWindow :
                             /\ failed'[a] + n <= MaxAttempts - 1 + Leavable + Cardinality(LoginCall)
                             /\ a + entry'.left < BlockTime =>
                                  /\ failed'[a] + n < Cardinality(LoginCall)
                                  /\ entry.attempts >= MaxAttempts => failed'[a] = 0
                                  /\ entry.attempts < MaxAttempts =>
                                       failed'[a] <= entry.attempts + MaxAttempts - 1
                                  /\ entry.attempts < MaxAttempts /\ a < entry'.window =>
                                       failed'[a] <= entry.attempts
      BY <1>2, <1>3 DEF BlockedBounded, Leavable
    <2>1. /\ n < Cardinality(LoginCall)
          /\ \A a \in 0 .. LoginWindow :
               /\ failed[a] + n <= MaxAttempts - 1 + Leavable + Cardinality(LoginCall)
               /\ a + entry.left < BlockTime =>
                    /\ failed[a] + n < Cardinality(LoginCall)
                    /\ entry.attempts >= MaxAttempts => failed[a] = 0
                    /\ entry.attempts < MaxAttempts => failed[a] <= entry.attempts + MaxAttempts - 1
                    /\ entry.attempts < MaxAttempts /\ a < entry.window => failed[a] <= entry.attempts
      BY DEF RateInv, BlockedBounded
    <2>2. ASSUME NEW a \in 0 .. LoginWindow
          PROVE  /\ failed'[a] + n <= MaxAttempts - 1 + Leavable + Cardinality(LoginCall)
                 /\ a + entry'.left < BlockTime =>
                      /\ failed'[a] + n < Cardinality(LoginCall)
                      /\ entry.attempts >= MaxAttempts => failed'[a] = 0
                      /\ entry.attempts < MaxAttempts => failed'[a] <= entry.attempts + MaxAttempts - 1
                      /\ entry.attempts < MaxAttempts /\ a < entry'.window =>
                           failed'[a] <= entry.attempts
      <3>1. CASE failed'[a] = 0
        BY <1>8, <2>1, <3>1, RateFacts DEF RateInv
      <3>2. CASE a - 1 \in 0 .. LoginWindow /\ failed'[a] = failed[a - 1]
        <4>1. a < entry'.window => a - 1 < entry.window
          BY <1>3
        <4>2. a + entry'.left < BlockTime => a - 1 + entry.left < BlockTime
          BY <1>3, RateFacts, <3>2 DEF RateInv
        <4>3. QED
          BY <2>1, <3>2, <4>1, <4>2
      <3>3. QED
        BY <1>7, <3>1, <3>2
    <2>3. QED
      BY <2>1, <2>2
  <1>11. QED
    BY <1>5, <1>6, <1>9, <1>10 DEF RateInv

LEMMA RatePreserved == RateInv /\ [RateNext]_rateVars => RateInv'
  <1> SUFFICES ASSUME RateInv, [RateNext]_rateVars
               PROVE  RateInv'
    OBVIOUS
  <1>1. CASE UNCHANGED rateVars
    BY <1>1 DEF rateVars, RateInv, RateTypeOK, UnknownIsNew, OpenBounded, BlockedBounded, Leavable
  <1>2. QED
    BY <1>1, LoginAllowStep, LoginFailedStep, LoginEndsStep, LoginTimeStep DEF RateNext

\* The inductive invariant of the limit.
LEMMA RateInvariant == RateSpec => []RateInv
  <1>1. RateInit => RateInv
    <2> SUFFICES ASSUME RateInit
                 PROVE  RateInv
      OBVIOUS
    <2>1. entry \in Entries /\ ~entry.known /\ ~entry.blocked /\ entry.attempts = 0 /\ entry.window = 0
      BY NoEntryFields DEF RateInit
    <2>2. \A a \in 0 .. LoginWindow : failed[a] = 0
      BY DEF RateInit, NoFailures
    <2>3. RateTypeOK
      BY <2>1, RateAssumption DEF RateInit, RateTypeOK, NoFailures, Entries
    <2>4. UnknownIsNew /\ BlockedBounded
      BY <2>1 DEF UnknownIsNew, BlockedBounded
    <2>5. OpenBounded
      BY <2>1, <2>2, <2>3, RateFacts DEF OpenBounded
    <2>6. QED
      BY <2>3, <2>4, <2>5 DEF RateInv
  <1>2. QED
    BY <1>1, RatePreserved, PTL DEF RateSpec

\* For any number of logins and any limits: what the gap between the two lock sections and
\* the windows that follow each other let through.
THEOREM AttemptsBoundedHolds == RateSpec => []AttemptsBounded
  <1>1. RateInv => AttemptsBounded
    <2> SUFFICES ASSUME RateInv
                 PROVE  AttemptsBounded
      OBVIOUS
    <2> DEFINE logins == Cardinality(LoginCall)
    <2>1. LoginWindow \in 0 .. LoginWindow /\ entry.attempts \in Nat /\ logins \in Nat
          /\ failed[LoginWindow] \in Nat
      BY RateFacts DEF RateInv, Entries
    <2>2. failed[LoginWindow] <= MaxAttempts - 1 + Leavable + logins
      <3>1. CASE entry.blocked
        BY <2>1, <3>1, RateFacts DEF RateInv, BlockedBounded
      <3>2. CASE ~entry.blocked
        BY <2>1, <3>2, RateFacts DEF RateInv, OpenBounded
      <3>3. QED
        BY <3>1, <3>2
    <2>3. MaxAttempts - 1 + Leavable = (IF logins > MaxAttempts THEN 3 ELSE 2) * (MaxAttempts - 1)
      BY RateFacts DEF RateInv, Leavable
    <2>4. QED
      BY <2>1, <2>2, <2>3, RateFacts DEF RateInv, AttemptsBounded
  <1>2. QED
    BY <1>1, RateInvariant, PTL
=============================================================================
