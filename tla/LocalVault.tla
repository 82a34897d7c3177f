----------------------------- MODULE LocalVault -----------------------------
(***************************************************************************)
(* The file that keeps the identity keys of a profile of one installation, *)
(* and the login that loads them, writes them back and publishes them.     *)
(* The file is encrypted with the password of the account that logged in   *)
(* last; older versions left it in plain text in another directory.  Every *)
(* error of the file system is ignored, and a write may end half way.      *)
(***************************************************************************)
EXTENDS Naturals

CONSTANTS
  Account,
  Password,
  Plain,   \* the lock of a file that is not encrypted
  Absent,  \* there is no file
  Torn,    \* a file that nothing can be read from
  NoOne,
  MaxKey   \* bound of the model: identity keys made

IdentityKey == 1 .. MaxKey
KeyFile == [key : IdentityKey, lock : Password \union {Plain}]

ASSUME VaultAssumption ==
  /\ Plain \notin Password
  /\ Absent # Torn /\ {Absent, Torn} \intersect KeyFile = {}
  /\ NoOne \notin Account
  /\ MaxKey \in Nat \ {0}

VARIABLES
  password,   \* password[a]: of account a; two accounts may have the same
  legacy,     \* the file of an older version
  keyFile,    \* the file of this version
  login,      \* the login worker: how far it is, its account, the keys it loaded
  online,     \* the account that is logged in
  requests,   \* the register_device requests under way
  directory,  \* directory[a]: the identity key the server gives out for account a
  made,       \* how many keys were made
  forfeit     \* the accounts whose key the profile has lost, see Damaged

vaultVars == <<password, legacy, keyFile, login, online, requests, directory, made, forfeit>>

NoIdentity == 0
NoLogin == [at |-> "idle", account |-> NoOne, key |-> NoIdentity]

VaultTypeOK ==
  /\ password \in [Account -> Password]
  /\ legacy \in {Absent, Torn} \union KeyFile
  /\ keyFile \in {Absent, Torn} \union KeyFile
  /\ login \in [at : {"idle", "started", "unlocked", "loaded", "saved", "sent", "registered"},
                account : Account \union {NoOne}, key : {NoIdentity} \union IdentityKey]
  /\ online \in Account \union {NoOne}
  /\ requests \subseteq [account : Account, key : IdentityKey]
  /\ directory \in [Account -> {NoIdentity} \union IdentityKey]
  /\ made \in 0 .. MaxKey
  /\ forfeit \subseteq Account

\* A fresh installation, or the update of one whose accounts share a plain file.
VaultInit ==
  /\ password \in [Account -> Password]
  /\ \/ /\ legacy = Absent
        /\ directory = [a \in Account |-> NoIdentity]
        /\ made = 0
     \/ /\ legacy = [key |-> 1, lock |-> Plain]
        /\ directory \in [Account -> {NoIdentity, 1}]
        /\ made = 1
  /\ keyFile = Absent
  /\ login = NoLogin
  /\ online = NoOne
  /\ requests = {}
  /\ forfeit = {}

-----------------------------------------------------------------------------
\* Mutant of Loads: a file that is not encrypted is refused.
LoadsVault(x, file) ==
  IF file \in {Absent, Torn} THEN NoIdentity
  ELSE IF file.lock = x THEN file.key ELSE NoIdentity

\* load_json: the key that password x gets out of a file, encrypted or plain.
Loads(x, file) ==
  IF file \in {Absent, Torn} THEN NoIdentity
  ELSE IF file.lock \in {x, Plain} THEN file.key ELSE NoIdentity

\* fs::write and fs::copy: done, not begun, or ended in between.
Written(old, new) == {old, new, Torn}

\* The accounts that the keys in file no longer serve once it is replaced.
Damaged(file, next) ==
  {a \in Account : /\ Loads(password[a], file) # NoIdentity
                   /\ Loads(password[a], next) # Loads(password[a], file)}

\* migrated_profile_file: only while there is no file of this version, a half copied one
\* included.
Migrated ==
  IF keyFile = Absent /\ legacy # Absent
  THEN /\ keyFile' \in Written(Absent, legacy)
       /\ forfeit' = forfeit \union Damaged(legacy, keyFile')
  ELSE UNCHANGED <<keyFile, forfeit>>

\* The program starts, or a server is entered: the paths of a new core.
CoreNew ==
  /\ online = NoOne
  /\ Migrated
  /\ UNCHANGED <<password, legacy, login, online, requests, directory, made>>

\* register_or_login, create_account: one worker at a time; run_login_flow has a core
\* of its own.
LoginStart(a) ==
  /\ login = NoLogin
  /\ online = NoOne
  /\ Migrated
  /\ login' = [at |-> "started", account |-> a, key |-> NoIdentity]
  /\ UNCHANGED <<password, legacy, online, requests, directory, made>>

LoginStep(from, to) == login.at = from /\ login' = [login EXCEPT !.at = to]

\* The password is right: unlock_local_storage.
LoginUnlock ==
  /\ LoginStep("started", "unlocked")
  /\ UNCHANGED <<password, legacy, keyFile, online, requests, directory, made, forfeit>>

\* load_or_create_local_device_keys: a file that does not open is as good as none.
LoadKeys ==
  /\ login.at = "unlocked"
  /\ LET found == Loads(password[login.account], keyFile)
     IN  IF found # NoIdentity
         THEN login' = [login EXCEPT !.at = "loaded", !.key = found] /\ UNCHANGED made
         ELSE /\ made < MaxKey
              /\ made' = made + 1
              /\ login' = [login EXCEPT !.at = "loaded", !.key = made']
  /\ UNCHANGED <<password, legacy, keyFile, online, requests, directory, forfeit>>

\* Then they are written back, under the password of this login, and used whether or
\* not that worked.  The login itself is not damaged by a write that is done.
SaveKeys ==
  LET mine == [key |-> login.key, lock |-> password[login.account]]
  IN  /\ LoginStep("loaded", "saved")
      /\ keyFile' \in Written(keyFile, mine)
      /\ forfeit' = forfeit \union (Damaged(keyFile, keyFile') \ {login.account})
                      \union (IF Loads(mine.lock, keyFile') = mine.key THEN {} ELSE {login.account})
      /\ UNCHANGED <<password, legacy, online, requests, directory, made>>

RegisterSend ==
  /\ LoginStep("saved", "sent")
  /\ requests' = requests \union {[account |-> login.account, key |-> login.key]}
  /\ UNCHANGED <<password, legacy, keyFile, online, directory, made, forfeit>>

\* upsert_device: the keys of the request replace those of the device.  The answer
\* reaches the worker that waits for it, or is lost.
UpsertDevice(request, answered) ==
  /\ directory' = [directory EXCEPT ![request.account] = request.key]
  /\ requests' = requests \ {request}
  /\ IF answered
     THEN /\ login.account = request.account /\ login.key = request.key
          /\ LoginStep("sent", "registered")
     ELSE UNCHANGED login
  /\ UNCHANGED <<password, legacy, keyFile, online, made, forfeit>>

RequestLost(request) ==
  /\ requests' = requests \ {request}
  /\ UNCHANGED <<password, legacy, keyFile, login, online, directory, made, forfeit>>

\* device_login has answered, poll_login_result takes the result.
LoginDone ==
  /\ login.at = "registered"
  /\ online' = login.account
  /\ login' = NoLogin
  /\ UNCHANGED <<password, legacy, keyFile, requests, directory, made, forfeit>>

\* A wrong password, or no answer to a request, which may still arrive.
LoginGivesUp ==
  /\ login.at \in {"started", "sent", "registered"}
  /\ login' = NoLogin
  /\ UNCHANGED <<password, legacy, keyFile, online, requests, directory, made, forfeit>>

VaultLogout ==
  /\ online # NoOne
  /\ online' = NoOne
  /\ UNCHANGED <<password, legacy, keyFile, login, requests, directory, made, forfeit>>

\* The program ends, wherever its worker is.
VaultCrash ==
  /\ online' = NoOne
  /\ login' = NoLogin
  /\ UNCHANGED <<password, legacy, keyFile, requests, directory, made, forfeit>>

VaultNext ==
  \/ CoreNew \/ \E a \in Account : LoginStart(a)
  \/ LoginUnlock \/ LoadKeys \/ SaveKeys \/ RegisterSend \/ LoginDone \/ LoginGivesUp
  \/ \E request \in requests :
       RequestLost(request) \/ \E answered \in BOOLEAN : UpsertDevice(request, answered)
  \/ VaultLogout \/ VaultCrash

-----------------------------------------------------------------------------
\* The identity key that the server gives out for an account stays the same over logins,
\* logouts, crashes and the move of the old file, unless a write or a copy failed, or a
\* login with another password has replaced the file.
IdentityKept ==
  [][\A a \in Account \ forfeit : directory[a] # NoIdentity => directory'[a] = directory[a]]_vaultVars
=============================================================================
