--------------------------- MODULE DevicePresence ---------------------------
(***************************************************************************)
(* One device of the server's tables: its registration, the tokens of its  *)
(* logins, and its presence, which is a set entry that any websocket of    *)
(* the device makes and any end of one removes, and the time it was seen   *)
(* last.  The clients are installations that log in as this device.        *)
(***************************************************************************)
EXTENDS Naturals

CONSTANTS
  Client,
  Token,
  Websocket,
  OnlineTTL,   \* how long a device counts as online after it was seen, 20 s
  PollPeriod,  \* a websocket's loop comes round by then: 1.2 s and its drain
  NoToken

ASSUME PresenceAssumption ==
  /\ NoToken \notin Token
  /\ OnlineTTL \in Nat /\ PollPeriod \in 1 .. OnlineTTL

VARIABLES
  registered,  \* there is a row in table devices
  tokens,      \* table device_auth_tokens
  auth,        \* auth[c]: the token client c is logged in with
  logouts,     \* the tokens of logout requests under way: sent, or authorized
  socket,      \* the websockets: how far run_session is, how long it was silent
  onlineSet,   \* ONLINE_DEVICES contains the device
  seenAgo      \* DEVICE_LAST_SEEN: time since then, up to OnlineTTL + 1

presenceVars == <<registered, tokens, auth, logouts, socket, onlineSet, seenAgo>>

NoSocket == [at |-> "closed", silent |-> 0]

PresenceTypeOK ==
  /\ registered \in BOOLEAN
  /\ tokens \in [Token -> {"none", "active", "revoked", "expired"}]
  /\ auth \in [Client -> Token \union {NoToken}]
  /\ logouts \subseteq [token : Token, at : {"sent", "authorized"}]
  /\ socket \in [Websocket -> [at : {"closed", "authorized", "inserted", "running"},
                               silent : 0 .. PollPeriod]]
  /\ onlineSet \in BOOLEAN
  /\ seenAgo \in 0 .. OnlineTTL + 1

PresenceInit ==
  /\ registered = FALSE
  /\ tokens = [t \in Token |-> "none"]
  /\ auth = [c \in Client |-> NoToken]
  /\ logouts = {}
  /\ socket = [w \in Websocket |-> NoSocket]
  /\ onlineSet = FALSE
  /\ seenAgo = OnlineTTL + 1

-----------------------------------------------------------------------------
\* The requests of a client.

\* register_device: the row is made, or gets the keys of this client (see LocalVault).
RegisterDevice(c) ==
  /\ auth[c] = NoToken
  /\ registered' = TRUE
  /\ UNCHANGED <<tokens, auth, logouts, socket, onlineSet, seenAgo>>

\* create_token, revoke_token
CreateToken(t) == tokens[t] = "none" /\ tokens' = [tokens EXCEPT ![t] = "active"]
RevokeToken(t) == tokens' = [tokens EXCEPT ![t] = "revoked"]

\* device_login: every login has a token of its own; its answer may be lost.
DeviceLogin(c, t, answered) ==
  /\ registered
  /\ auth[c] = NoToken
  /\ CreateToken(t)
  /\ auth' = [auth EXCEPT ![c] = IF answered THEN t ELSE NoToken]
  /\ UNCHANGED <<registered, logouts, socket, onlineSet, seenAgo>>

\* authorize_device, with the mark_online that each request brings.
Authorized(t) == tokens[t] = "active" /\ seenAgo' = 0

ClientRequest(c) ==
  /\ auth[c] # NoToken
  /\ Authorized(auth[c])
  /\ UNCHANGED <<registered, tokens, auth, logouts, socket, onlineSet>>

\* logout: the client forgets its token at once and leaves the request to a thread.
Logout(c) ==
  /\ auth[c] # NoToken
  /\ auth' = [auth EXCEPT ![c] = NoToken]
  /\ logouts' = logouts \union {[token |-> auth[c], at |-> "sent"]}
  /\ UNCHANGED <<registered, tokens, socket, onlineSet, seenAgo>>

LogoutAuthorize(request) ==
  /\ request.at = "sent"
  /\ Authorized(request.token)
  /\ logouts' = (logouts \ {request}) \union {[request EXCEPT !.at = "authorized"]}
  /\ UNCHANGED <<registered, tokens, auth, socket, onlineSet>>

\* Mutant of LogoutRevoke: all tokens of the device are revoked.
LogoutRevokeAll(request) ==
  /\ request.at = "authorized"
  /\ tokens' = [t \in Token |-> IF tokens[t] = "active" THEN "revoked" ELSE tokens[t]]
  /\ logouts' = logouts \ {request}
  /\ UNCHANGED <<registered, auth, socket, onlineSet, seenAgo>>

\* device_logout
LogoutRevoke(request) ==
  /\ request.at = "authorized"
  /\ RevokeToken(request.token)
  /\ logouts' = logouts \ {request}
  /\ UNCHANGED <<registered, auth, socket, onlineSet, seenAgo>>

\* The request is lost, or its token is not active any more.
LogoutFails(request) ==
  /\ logouts' = logouts \ {request}
  /\ UNCHANGED <<registered, tokens, auth, socket, onlineSet, seenAgo>>

\* 30 days have passed.
TokenExpires(t) ==
  /\ tokens[t] = "active"
  /\ tokens' = [tokens EXCEPT ![t] = "expired"]
  /\ UNCHANGED <<registered, auth, logouts, socket, onlineSet, seenAgo>>

-----------------------------------------------------------------------------
\* The websockets of the device.
SocketStep(w, from, to) ==
  /\ socket[w].at \in from
  /\ socket' = [socket EXCEPT ![w] = [at |-> to, silent |-> IF seenAgo' = 0 THEN 0 ELSE @.silent]]
  /\ UNCHANGED <<registered, tokens, auth, logouts>>

\* ws_realtime: the request is authorized and upgraded.
SocketOpen(w, t) ==
  /\ Authorized(t)
  /\ SocketStep(w, {"closed"}, "authorized")
  /\ UNCHANGED onlineSet

\* run_session: the device is put in the online set, then marked.
SocketInsert(w) ==
  /\ onlineSet' = TRUE
  /\ UNCHANGED seenAgo
  /\ SocketStep(w, {"authorized"}, "inserted")

\* Mutant of SocketMark: the loop does not mark the device.
SocketMarkOnce(w) ==
  /\ seenAgo' = IF socket[w].at = "inserted" THEN 0 ELSE seenAgo
  /\ socket[w].at \in {"inserted", "running"}
  /\ socket' = [socket EXCEPT ![w] = [at |-> "running", silent |-> 0]]
  /\ UNCHANGED <<registered, tokens, auth, logouts, onlineSet>>

\* mark_online before the loop, and then at each tick.
SocketMark(w) ==
  /\ seenAgo' = 0
  /\ SocketStep(w, {"inserted", "running"}, "running")
  /\ UNCHANGED onlineSet

\* The loop ends by a close, an error or a failed send: the device leaves the set,
\* whatever other websocket of it is open.
SocketClose(w) ==
  /\ socket[w].at = "running"
  /\ onlineSet' = FALSE
  /\ socket' = [socket EXCEPT ![w] = NoSocket]
  /\ UNCHANGED <<registered, tokens, auth, logouts, seenAgo>>

\* The upgrade fails, and run_session is never called.
SocketFails(w) ==
  /\ socket[w].at = "authorized"
  /\ socket' = [socket EXCEPT ![w] = NoSocket]
  /\ UNCHANGED <<registered, tokens, auth, logouts, onlineSet, seenAgo>>

\* Time passes, but no loop is silent for longer than its period.
TimePasses ==
  /\ \A w \in Websocket : socket[w].silent < PollPeriod
  /\ seenAgo' = IF seenAgo > OnlineTTL THEN seenAgo ELSE seenAgo + 1
  /\ socket' = [w \in Websocket |-> IF socket[w] = NoSocket THEN NoSocket
                                    ELSE [socket[w] EXCEPT !.silent = @ + 1]]
  /\ UNCHANGED <<registered, tokens, auth, logouts, onlineSet>>

\* Both are in the memory of the server, and its websockets end with it.
PresenceRestart ==
  /\ onlineSet' = FALSE
  /\ seenAgo' = OnlineTTL + 1
  /\ socket' = [w \in Websocket |-> NoSocket]
  /\ UNCHANGED <<registered, tokens, auth, logouts>>

PresenceNext ==
  \/ \E c \in Client :
       \/ RegisterDevice(c) \/ ClientRequest(c) \/ Logout(c)
       \/ \E t \in Token, answered \in BOOLEAN : DeviceLogin(c, t, answered)
  \/ \E request \in logouts : LogoutAuthorize(request) \/ LogoutRevoke(request) \/ LogoutFails(request)
  \/ \E t \in Token : TokenExpires(t)
  \/ \E w \in Websocket :
       \/ \E t \in Token : SocketOpen(w, t)
       \/ SocketInsert(w) \/ SocketMark(w) \/ SocketClose(w) \/ SocketFails(w)
  \/ TimePasses \/ PresenceRestart

-----------------------------------------------------------------------------
\* is_online
IsOnline == onlineSet \/ seenAgo <= OnlineTTL

\* A device with an open websocket is online, also when another websocket of it ends and
\* takes it out of the set: what its loop marks lasts until the next mark.
ConnectedIsOnline == \A w \in Websocket : socket[w].at \in {"inserted", "running"} => IsOnline

\* A logout that arrives late does not take away the login that followed it, nor that of
\* another client: a client's token is good until it expires.
LateLogoutHarmless == \A c \in Client : auth[c] # NoToken => tokens[auth[c]] \in {"active", "expired"}
=============================================================================
