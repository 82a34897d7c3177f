------------------------- MODULE ClientPartsProofs -------------------------
(***************************************************************************)
(* Proofs about the parts of the client that share no state: the vault     *)
(* (LocalVault), the version gate (Versions), the sound of a call          *)
(* (Playback), the files on their way (BlobUpload) and the identity keys   *)
(* of the peers (PeerTrust).                                               *)
(***************************************************************************)
EXTENDS LocalVault, Versions, Playback, BlobUpload, PeerTrust, SignalQueueProofs

(***************************************************************************)
(* LocalVault: an account whose key the profile has not lost keeps the     *)
(* identity that the server gives out for it.                              *)
(***************************************************************************)
VaultSpec == VaultInit /\ [][VaultNext]_vaultVars

\* The key that the profile has for an account.
KeyOf(a) == Loads(password[a], keyFile)

\* What was published of an account, or is on its way, is what the profile has for it,
\* and a login goes on with that key.  While there is no file of this version that is the
\* key of the old file, which a login has tried to move.
KeyServes(a) ==
  /\ directory[a] # NoIdentity =>
       directory[a] = IF keyFile = Absent THEN Loads(password[a], legacy) ELSE KeyOf(a)
  /\ \A request \in requests : request.account = a => request.key = KeyOf(a)
  /\ login.account = a =>
       /\ login.at \in {"saved", "sent", "registered"} => login.key = KeyOf(a)
       /\ login.at = "loaded" /\ KeyOf(a) # NoIdentity => login.key = KeyOf(a)
  /\ login.at # "idle" /\ keyFile = Absent => Loads(password[a], legacy) = NoIdentity

VaultInv ==
  /\ VaultTypeOK
  /\ login.at # "idle" => login.account \in Account
  /\ login.at \in {"loaded", "saved", "sent", "registered"} => login.key \in IdentityKey
  /\ \A a \in Account \ forfeit : KeyServes(a)

-----------------------------------------------------------------------------
\* What a file holds for a password is a key or nothing.
LEMMA LoadsType ==
  ASSUME NEW x, NEW file \in {Absent, Torn} \union KeyFile
  PROVE  /\ Loads(x, file) \in {NoIdentity} \union IdentityKey
         /\ file \in {Absent, Torn} => Loads(x, file) = NoIdentity
BY DEF Loads, KeyFile

\* Initially the old file serves the accounts that were published.
LEMMA VaultInitial == VaultInit => VaultInv
<1> SUFFICES ASSUME VaultInit PROVE VaultInv
  OBVIOUS
<1>1. VaultTypeOK
  BY VaultAssumption DEF VaultInit, VaultTypeOK, NoLogin, NoIdentity, IdentityKey, KeyFile
<1>2. \A a \in Account : directory[a] # NoIdentity => directory[a] = Loads(password[a], legacy)
  BY VaultAssumption DEF VaultInit, Loads, NoIdentity, IdentityKey, KeyFile
<1> QED
  BY <1>1, <1>2, VaultAssumption DEF VaultInit, VaultInv, KeyServes, NoLogin

\* A step that leaves the file, the requests, the directory and the login alone.
LEMMA NothingServed ==
  ASSUME VaultInv, UNCHANGED <<password, legacy, keyFile, directory, forfeit>>,
         requests' \subseteq requests, login' \in {login, NoLogin}
  PROVE  \A a \in Account \ forfeit' : KeyServes(a)'
BY VaultAssumption DEF VaultInv, KeyServes, KeyOf, Loads, NoLogin

\* Moving the old file: there was none of this version, so nothing was published but what
\* the old file holds.
LEMMA MigratedStep ==
  ASSUME VaultInv, Migrated, UNCHANGED <<password, legacy, directory, requests>>,
         \/ UNCHANGED login
         \/ login.at = "idle" /\ login'.at = "started"
            /\ login'.account \in Account
  PROVE  \A a \in Account \ forfeit' : KeyServes(a)'
<1> SUFFICES ASSUME NEW a \in Account \ forfeit' PROVE KeyServes(a)'
  OBVIOUS
<1> DEFINE old == Loads(password[a], legacy)
<1>1. a \in Account \ forfeit /\ KeyServes(a)
  BY DEF Migrated, VaultInv
<1>2. CASE keyFile = Absent /\ legacy # Absent
  <2>1. keyFile' \in {Absent, legacy, Torn}
    BY <1>2 DEF Migrated, Written
  <2>2. KeyOf(a) = NoIdentity /\ Loads(password[a], Torn) = NoIdentity
    BY <1>2 DEF KeyOf, Loads
  <2>3. old = NoIdentity \/ KeyOf(a)' = old
    BY <1>2 DEF Migrated, Damaged, KeyOf
  <2>4. \A request \in requests : request.account # a
    BY <1>1, <2>2, VaultAssumption DEF KeyServes, VaultInv, VaultTypeOK, IdentityKey, NoIdentity
  <2>5. keyFile' = Absent => KeyOf(a)' = NoIdentity
    BY DEF KeyOf, Loads
  <2>6. old = NoIdentity => KeyOf(a)' = NoIdentity
    BY <2>1, <2>2, <2>5 DEF KeyOf
  <2>7. login.at # "idle" => old = NoIdentity
    BY <1>1, <1>2 DEF KeyServes
  <2>8. login.account = a => login.at \notin {"saved", "sent", "registered"}
    BY <1>1, <2>2, VaultAssumption DEF KeyServes, VaultInv, IdentityKey, NoIdentity
  <2>9. directory[a] # NoIdentity => directory[a] = old
    BY <1>1, <1>2 DEF KeyServes
  <2>10. keyFile' = Absent => old = NoIdentity
    BY <2>3, <2>5
  <2> QED
    BY <2>3, <2>4, <2>6, <2>7, <2>8, <2>9, <2>10 DEF KeyServes
<1>3. CASE ~(keyFile = Absent /\ legacy # Absent)
  <2>1. UNCHANGED <<keyFile, forfeit>> /\ KeyOf(a)' = KeyOf(a)
    BY <1>3 DEF Migrated, KeyOf
  <2>2. keyFile = Absent => old = NoIdentity
    BY <1>3 DEF Loads
  <2> QED
    BY <1>1, <2>1, <2>2 DEF KeyServes
<1> QED
  BY <1>2, <1>3

\* The keys are written back: the account of the login has them in the file, or has lost
\* its key; the others have what they had, or have lost it too.
LEMMA SaveKeysStep ==
  ASSUME VaultInv, SaveKeys
  PROVE  \A a \in Account \ forfeit' : KeyServes(a)'
<1> SUFFICES ASSUME NEW a \in Account \ forfeit' PROVE KeyServes(a)'
  OBVIOUS
<1> DEFINE mine == [key |-> login.key, lock |-> password[login.account]]
<1>1. /\ login.at = "loaded" /\ login' = [login EXCEPT !.at = "saved"]
      /\ login.account \in Account /\ login.key \in IdentityKey
      /\ login'.at = "saved" /\ login'.account = login.account /\ login'.key = login.key
      /\ UNCHANGED <<password, legacy, directory, requests>>
      /\ mine.lock = password[login.account] /\ mine.key = login.key
  BY DEF SaveKeys, LoginStep, VaultInv, VaultTypeOK
<1>2. a \in Account \ forfeit /\ KeyServes(a)
  BY DEF SaveKeys, VaultInv
<1>3. keyFile = Absent => Loads(password[a], legacy) = NoIdentity /\ KeyOf(a) = NoIdentity
  BY <1>1, <1>2 DEF KeyServes, KeyOf, Loads
<1>4. CASE a = login.account
  <2>1. KeyOf(a)' = login.key
    BY <1>1, <1>4 DEF SaveKeys, KeyOf
  <2>2. KeyOf(a) # NoIdentity => KeyOf(a) = login.key
    BY <1>1, <1>2, <1>4 DEF KeyServes
  <2>3. \A request \in requests : request.account = a => request.key # NoIdentity
    BY DEF VaultInv, VaultTypeOK, IdentityKey, NoIdentity
  <2>4. keyFile' # Absent
    BY <1>1, <2>1 DEF KeyOf, Loads, IdentityKey, NoIdentity
  <2> QED
    BY <1>1, <1>2, <1>3, <2>1, <2>2, <2>3, <2>4 DEF KeyServes
<1>5. CASE a # login.account
  <2>1. KeyOf(a) = NoIdentity \/ KeyOf(a)' = KeyOf(a)
    BY <1>1, <1>5 DEF SaveKeys, Damaged, KeyOf
  <2>2. keyFile' = Absent => KeyOf(a)' = NoIdentity
    BY DEF KeyOf, Loads
  <2>3. \A request \in requests : request.account = a => request.key # NoIdentity
    BY DEF VaultInv, VaultTypeOK, IdentityKey, NoIdentity
  <2>4. keyFile' = Absent => keyFile = Absent
    <3>1. mine \in KeyFile
      BY <1>1 DEF VaultInv, VaultTypeOK, KeyFile
    <3> QED
      BY <3>1, VaultAssumption DEF SaveKeys, Written
  <2> QED
    BY <1>1, <1>2, <1>3, <1>5, <2>1, <2>2, <2>3, <2>4 DEF KeyServes
<1> QED
  BY <1>4, <1>5

-----------------------------------------------------------------------------
\* Every variable keeps its type, with the account and the key of a login.
LEMMA VaultTypePreserved ==
  ASSUME VaultInv, [VaultNext]_vaultVars
  PROVE  /\ VaultTypeOK'
         /\ (login.at # "idle" => login.account \in Account)'
         /\ (login.at \in {"loaded", "saved", "sent", "registered"} => login.key \in IdentityKey)'
<1> USE VaultAssumption DEF VaultInv, VaultTypeOK
<1>1. CASE CoreNew
  BY <1>1 DEF CoreNew, Migrated, Written, Damaged
<1>2. ASSUME NEW a \in Account, LoginStart(a)
      PROVE  /\ VaultTypeOK'
             /\ (login.at # "idle" => login.account \in Account)'
             /\ (login.at \in {"loaded", "saved", "sent", "registered"} => login.key \in IdentityKey)'
  BY <1>2 DEF LoginStart, Migrated, Written, Damaged
<1>3. CASE LoginUnlock \/ RegisterSend \/ LoginDone \/ LoginGivesUp
  BY <1>3 DEF LoginUnlock, RegisterSend, LoginDone, LoginGivesUp, LoginStep, NoLogin
<1>4. CASE LoadKeys
  <2>1. Loads(password[login.account], keyFile) \in {NoIdentity} \union IdentityKey
    BY LoadsType
  <2> DEFINE found == Loads(password[login.account], keyFile)
  <2>2. CASE found # NoIdentity
    <3>1. found \in IdentityKey
      BY <2>1, <2>2
    <3>2. login' = [login EXCEPT !.at = "loaded", !.key = found] /\ UNCHANGED made
      BY <1>4, <2>2 DEF LoadKeys
    <3> QED
      BY <1>4, <3>1, <3>2 DEF LoadKeys
  <2>3. CASE found = NoIdentity
    <3>1. made' = made + 1 /\ made < MaxKey /\ login' = [login EXCEPT !.at = "loaded", !.key = made']
      BY <1>4, <2>3 DEF LoadKeys
    <3>2. made' \in IdentityKey /\ made' \in 0 .. MaxKey
      BY <3>1 DEF IdentityKey
    <3> QED
      BY <1>4, <3>1, <3>2 DEF LoadKeys
  <2> QED
    BY <2>2, <2>3
<1>5. CASE SaveKeys
  BY <1>5 DEF SaveKeys, LoginStep, Written, Damaged, KeyFile
<1>6. ASSUME NEW request \in requests,
             RequestLost(request) \/ \E answered \in BOOLEAN : UpsertDevice(request, answered)
      PROVE  /\ VaultTypeOK'
             /\ (login.at # "idle" => login.account \in Account)'
             /\ (login.at \in {"loaded", "saved", "sent", "registered"} => login.key \in IdentityKey)'
  BY <1>6 DEF RequestLost, UpsertDevice, LoginStep
<1>7. CASE VaultLogout \/ VaultCrash \/ UNCHANGED vaultVars
  BY <1>7 DEF VaultLogout, VaultCrash, NoLogin, vaultVars
<1> QED
  BY <1>1, <1>2, <1>3, <1>4, <1>5, <1>6, <1>7 DEF VaultNext

\* Every step keeps the profile serving the accounts it has not lost.
LEMMA VaultPreserved == VaultInv /\ [VaultNext]_vaultVars => VaultInv'
<1> SUFFICES ASSUME VaultInv, [VaultNext]_vaultVars
             PROVE  \A a \in Account \ forfeit' : KeyServes(a)'
  BY VaultTypePreserved DEF VaultInv
<1> USE VaultAssumption
<1>1. CASE CoreNew
  BY <1>1, MigratedStep DEF CoreNew
<1>2. ASSUME NEW a \in Account, LoginStart(a)
      PROVE  \A b \in Account \ forfeit' : KeyServes(b)'
  BY <1>2, MigratedStep DEF LoginStart, NoLogin
<1>3. CASE LoginUnlock
  BY <1>3 DEF LoginUnlock, LoginStep, VaultInv, VaultTypeOK, KeyServes, KeyOf, Loads
<1>4. CASE LoadKeys
  <2> SUFFICES ASSUME NEW a \in Account \ forfeit' PROVE KeyServes(a)'
    OBVIOUS
  <2>1. /\ a \in Account \ forfeit /\ KeyServes(a)
        /\ UNCHANGED <<password, legacy, keyFile, requests, directory>>
        /\ login.at = "unlocked"
    BY <1>4 DEF LoadKeys, VaultInv
  <2>2. KeyOf(a)' = KeyOf(a)
    BY <2>1 DEF KeyOf
  <2>3. /\ login'.at = "loaded"
        /\ login'.account = login.account
        /\ Loads(password[login.account], keyFile) # NoIdentity =>
             login'.key = Loads(password[login.account], keyFile)
    BY <1>4 DEF LoadKeys, VaultInv, VaultTypeOK
  <2> QED
    BY <2>1, <2>2, <2>3 DEF KeyServes, KeyOf
<1>5. CASE SaveKeys
  BY <1>5, SaveKeysStep
<1>6. CASE RegisterSend
  BY <1>6 DEF RegisterSend, LoginStep, VaultInv, VaultTypeOK, KeyServes, KeyOf, Loads
<1>7. ASSUME NEW request \in requests, NEW answered \in BOOLEAN, UpsertDevice(request, answered)
      PROVE  \A a \in Account \ forfeit' : KeyServes(a)'
  <2> SUFFICES ASSUME NEW a \in Account \ forfeit' PROVE KeyServes(a)'
    OBVIOUS
  <2>1. a \in Account \ forfeit /\ KeyServes(a) /\ KeyOf(a)' = KeyOf(a)
    BY <1>7 DEF UpsertDevice, VaultInv, KeyOf
  <2>2. request.account = a => request.key = KeyOf(a) /\ keyFile # Absent
    BY <2>1 DEF KeyServes, KeyOf, Loads, VaultInv, VaultTypeOK, IdentityKey, NoIdentity
  <2>3. \/ UNCHANGED login
        \/ login.at = "sent" /\ login' = [login EXCEPT !.at = "registered"]
    BY <1>7 DEF UpsertDevice, LoginStep
  <2>4. login'.account = login.account /\ login'.key = login.key
    BY <2>3 DEF VaultInv, VaultTypeOK
  <2>5. /\ \/ login'.at = login.at
           \/ login.at = "sent" /\ login'.at = "registered"
    BY <2>3 DEF VaultInv, VaultTypeOK
  <2>6. /\ directory'[a] = IF request.account = a THEN request.key ELSE directory[a]
        /\ requests' \subseteq requests
        /\ UNCHANGED <<password, legacy, keyFile>>
    BY <1>7 DEF UpsertDevice, VaultInv, VaultTypeOK
  <2> QED
    BY <2>1, <2>2, <2>4, <2>5, <2>6 DEF KeyServes
<1>8. ASSUME NEW request \in requests, RequestLost(request)
      PROVE  \A a \in Account \ forfeit' : KeyServes(a)'
  BY <1>8, NothingServed DEF RequestLost
<1>9. CASE LoginDone \/ LoginGivesUp \/ VaultLogout \/ VaultCrash \/ UNCHANGED vaultVars
  BY <1>9, NothingServed DEF LoginDone, LoginGivesUp, VaultLogout, VaultCrash, vaultVars
<1> QED
  BY <1>1, <1>2, <1>3, <1>4, <1>5, <1>6, <1>7, <1>8, <1>9 DEF VaultNext

\* The inductive invariant of the vault.
LEMMA VaultInvariant == VaultSpec => []VaultInv
  BY VaultInitial, VaultPreserved, PTL DEF VaultSpec

\* The identity of an account stays the same over logins, logouts, crashes and the move of
\* the old file, for any number of accounts, passwords and keys.
THEOREM IdentityKeptHolds == VaultSpec => IdentityKept
<1> DEFINE Kept == \A a \in Account \ forfeit :
                     directory[a] # NoIdentity => directory'[a] = directory[a]
<1>1. VaultInv /\ [VaultNext]_vaultVars => [Kept]_vaultVars
  <2> SUFFICES ASSUME VaultInv, VaultNext PROVE Kept
    BY DEF vaultVars
  <2>1. ASSUME NEW request \in requests, NEW answered \in BOOLEAN, UpsertDevice(request, answered)
        PROVE  Kept
    <3> SUFFICES ASSUME NEW a \in Account \ forfeit, directory[a] # NoIdentity
                 PROVE  directory'[a] = directory[a]
      OBVIOUS
    <3>1. request.account = a => request.key = directory[a]
      BY DEF VaultInv, VaultTypeOK, KeyServes, KeyOf, Loads, IdentityKey, NoIdentity
    <3> QED
      BY <2>1, <3>1 DEF UpsertDevice, VaultInv, VaultTypeOK
  <2>2. CASE UNCHANGED directory
    BY <2>2
  <2> QED
    BY <2>1, <2>2
    DEF VaultNext, CoreNew, LoginStart, LoginUnlock, LoadKeys, SaveKeys, RegisterSend, LoginDone,
        LoginGivesUp, RequestLost, VaultLogout, VaultCrash
<1> QED
  BY <1>1, VaultInvariant, PTL DEF VaultSpec, IdentityKept

(***************************************************************************)
(* Versions: a client that is refused is offered a version that is not.    *)
(***************************************************************************)
VersionSpec == VersionInit /\ [][VersionNext]_versionVars

\* Versions are compared by their first three parts, which are numbers.
LEMMA PartsAreNumbers ==
  ASSUME NEW v \in Version
  PROVE  /\ ParseVersion(v)[1] \in Nat /\ ParseVersion(v)[2] \in Nat /\ ParseVersion(v)[3] \in Nat
  BY DEF ParseVersion

LEMMA GreaterByParts ==
  ASSUME NEW v \in Version, NEW w \in Version
  PROVE  LET l == ParseVersion(v)
             r == ParseVersion(w)
         IN  VersionGt(v, w) <=> \/ l[1] > r[1]
                                 \/ l[1] = r[1] /\ l[2] > r[2]
                                 \/ l[1] = r[1] /\ l[2] = r[2] /\ l[3] > r[3]
  <1> DEFINE l == ParseVersion(v)
             r == ParseVersion(w)
  <1> HIDE DEF l, r
  <1>1. 1 .. 3 = {1, 2, 3} /\ 1 .. 0 = {} /\ 1 .. 1 = {1} /\ 1 .. 2 = {1, 2}
    OBVIOUS
  <1>2. 1 - 1 = 0 /\ 2 - 1 = 1 /\ 3 - 1 = 2
    OBVIOUS
  <1>3. VersionGt(v, w) <=> \E i \in {1, 2, 3} : l[i] > r[i] /\ \A j \in 1 .. i - 1 : l[j] = r[j]
    BY <1>1, Zenon DEF VersionGt, l, r
  <1>4. (\E i \in {1, 2, 3} : l[i] > r[i] /\ \A j \in 1 .. i - 1 : l[j] = r[j])
          <=> \/ l[1] > r[1]
              \/ l[1] = r[1] /\ l[2] > r[2]
              \/ l[1] = r[1] /\ l[2] = r[2] /\ l[3] > r[3]
    BY <1>1, <1>2
  <1>5. QED
    BY <1>3, <1>4 DEF l, r

\* Versions of which neither is greater are as good as equal: the comparison is a weak order.
LEMMA VersionOrder ==
  ASSUME NEW u \in Version, NEW v \in Version, NEW w \in Version
  PROVE  /\ ~VersionGt(u, u)
         /\ ~VersionGt(u, v) /\ ~VersionGt(v, w) => ~VersionGt(u, w)
         /\ VersionGt(u, v) /\ ~VersionGt(u, w) => VersionGt(w, v)
  BY PartsAreNumbers, GreaterByParts

\* What a client knows that has read the manifest after it was refused by a server of
\* minimum m: an update that it must take and that this server accepts.
Supported(m, update) ==
  /\ update.mandatory
  /\ update.version \in Version
  /\ VersionGt(m, installed)
  /\ ~VersionGt(m, update.version)

\* The server asks for no more than is published, and what is published supports itself.
\* What a worker has read is as good as what the client shows, which it may replace: once
\* the client was told, a check has no update that was read before the refusal.
VersionInv ==
  /\ VersionTypeOK
  /\ ~VersionGt(minimum, manifest.minimum)
  /\ ~VersionGt(manifest.minimum, manifest.version)
  /\ outdated => VersionGt(minimum, installed)
  /\ check.seen # NoVersion => check.at = "read" /\ Supported(check.seen, check.offer) /\ outdated
  /\ told # NoVersion => Supported(told, offer) /\ outdated
  /\ told # NoVersion /\ check.offer.version # NoVersion => check.seen # NoVersion

LEMMA ManifestType ==
  ASSUME VersionTypeOK
  PROVE  manifest.version \in Version /\ manifest.minimum \in Version /\ manifest.mandatory \in BOOLEAN
  BY DEF VersionTypeOK, Manifest

LEMMA NoUpdate == 
  /\ NoOffer \in Update /\ NoCheck \in Check
  /\ NoCheck.seen = NoVersion /\ NoCheck.offer.version = NoVersion /\ NoOffer.version = NoVersion
  BY DEF NoOffer, NoCheck, Update, Check

\* The manifest, read when the server has refused the client, has what the server accepts.
LEMMA RefusedReads ==
  ASSUME VersionInv
  PROVE  Offered \in Update /\ (outdated => Supported(minimum, Offered))
  <1>1. /\ minimum \in Version /\ installed \in Version
        /\ manifest.version \in Version /\ manifest.minimum \in Version
        /\ manifest.mandatory \in BOOLEAN
    BY ManifestType DEF VersionInv, VersionTypeOK
  <1>2. Offered \in Update
    BY <1>1 DEF Offered, NoOffer, Update
  <1>3. ASSUME outdated
        PROVE  Supported(minimum, Offered)
    <2>1. VersionGt(minimum, installed) /\ VersionGt(manifest.minimum, installed)
      BY <1>1, <1>3, VersionOrder DEF VersionInv
    <2>2. ~VersionGt(minimum, manifest.version)
      BY <1>1, VersionOrder DEF VersionInv
    <2>3. Offered.mandatory /\ Offered.version = manifest.version
      BY <1>1, <2>1 DEF Offered
    <2>4. QED
      BY <1>1, <2>1, <2>2, <2>3 DEF Supported
  <1>4. QED
    BY <1>2, <1>3

LEMMA VersionPreserved == VersionInv /\ [VersionNext]_versionVars => VersionInv'
  <1> SUFFICES ASSUME VersionInv, [VersionNext]_versionVars
               PROVE  VersionInv'
    OBVIOUS
  <1>0. /\ minimum \in Version /\ installed \in Version
        /\ manifest.version \in Version /\ manifest.minimum \in Version
        /\ manifest.mandatory \in BOOLEAN
    BY ManifestType DEF VersionInv, VersionTypeOK
  <1>1. ASSUME NEW next \in Manifest, Publish(next)
        PROVE  VersionInv'
    <2>1. next.version \in Version /\ next.minimum \in Version
      BY DEF Manifest
    <2>2. ~VersionGt(minimum, next.minimum)
      BY <1>0, <1>1, <2>1, VersionOrder DEF VersionInv, Publish
    <2>3. QED
      BY <1>1, <2>2 DEF VersionInv, VersionTypeOK, Publish, Supported
  <1>2. CASE Deploy
    <2>1. outdated => VersionGt(manifest.minimum, installed)
      BY <1>0, VersionOrder DEF VersionInv
    <2>2. ~VersionGt(manifest.minimum, manifest.minimum)
      BY <1>0, VersionOrder
    <2>3. QED
      BY <1>0, <1>2, <2>1, <2>2 DEF VersionInv, VersionTypeOK, Deploy, Supported
  <1>3. CASE StartClient \/ CheckNow
    <2>1. check' \in Check /\ check'.seen = NoVersion /\ check'.offer.version = NoVersion
      BY <1>3, NoUpdate DEF StartClient, CheckNow, CheckForUpdates, Check
    <2>2. VersionTypeOK'
      BY <1>3, <2>1, VersionAssumption DEF VersionInv, VersionTypeOK, StartClient, CheckNow
    <2>3. QED
      BY <1>3, <2>1, <2>2 DEF VersionInv, StartClient, CheckNow, Supported
  <1>4. CASE InstallOffer \/ StopClient
    <2>1. InstallOffer => offer.version \in Version
      BY DEF InstallOffer, VersionInv, VersionTypeOK, Update
    <2>2. VersionTypeOK'
      BY <1>4, <2>1, NoUpdate DEF VersionInv, VersionTypeOK, InstallOffer, StopClient
    <2>3. outdated' => VersionGt(minimum', installed')
      BY <1>4 DEF VersionInv, InstallOffer, StopClient
    <2>4. check' = NoCheck /\ told' = NoVersion /\ minimum' = minimum /\ manifest' = manifest
      BY <1>4 DEF InstallOffer, StopClient
    <2>5. QED
      BY <2>2, <2>3, <2>4, NoUpdate DEF VersionInv
  <1>5. ASSUME NEW fails \in BOOLEAN, ReadManifest(fails)
        PROVE  VersionInv'
    <2> DEFINE update == IF fails THEN NoOffer ELSE Offered
               seen   == IF outdated /\ ~fails THEN minimum ELSE NoVersion
    <2>1. update \in Update /\ seen \in Version \union {NoVersion}
      BY <1>0, NoUpdate, RefusedReads
    <2>2. seen # NoVersion => Supported(seen, update) /\ outdated
      BY RefusedReads
    <2>p. told # NoVersion /\ update.version # NoVersion => seen # NoVersion
      BY <1>0, NoUpdate, VersionAssumption DEF VersionInv
    <2>3. check' = [at |-> "read", offer |-> update, seen |-> seen]
      BY <1>5 DEF ReadManifest
    <2> HIDE DEF update, seen
    <2>4. VersionTypeOK'
      BY <1>5, <2>1, <2>3 DEF VersionInv, VersionTypeOK, ReadManifest, Check
    <2>5. QED
      BY <1>5, <2>2, <2>p, <2>3, <2>4 DEF VersionInv, ReadManifest, Supported
  <1>6. CASE PollUpdateResult
    <2>1. VersionTypeOK'
      BY <1>6, NoUpdate DEF VersionInv, VersionTypeOK, PollUpdateResult, Check
    <2>2. (told # NoVersion => Supported(told, offer) /\ outdated)'
      <3>1. CASE check.seen # NoVersion
        <4>1. Supported(check.seen, check.offer) /\ outdated
          BY <3>1 DEF VersionInv
        <4>2. check.offer.version # NoVersion
          BY <4>1, VersionAssumption DEF Supported
        <4>3. QED
          BY <1>6, <3>1, <4>1, <4>2 DEF PollUpdateResult, Supported
      <3>2. CASE check.seen = NoVersion
        <4>1. told' = told /\ (told # NoVersion => offer' = offer)
          BY <1>6, <3>2 DEF PollUpdateResult, VersionInv
        <4>2. QED
          BY <1>6, <4>1 DEF PollUpdateResult, VersionInv, Supported
      <3>3. QED
        BY <3>1, <3>2
    <2>3. check' = NoCheck /\ UNCHANGED <<minimum, manifest, installed, outdated>>
      BY <1>6 DEF PollUpdateResult
    <2>4. QED
      BY <2>1, <2>2, <2>3, NoUpdate DEF VersionInv
  <1>7. ASSUME NEW loggingIn \in BOOLEAN, ClientAsks(loggingIn)
        PROVE  VersionInv'
    <2>1. outdated' \in BOOLEAN /\ (outdated' => VersionGt(minimum, installed))
      BY <1>7 DEF VersionInv, VersionTypeOK, ClientAsks
    <2>2. QED
      BY <1>7, <2>1 DEF VersionInv, VersionTypeOK, ClientAsks, Supported
  <1>8. CASE UNCHANGED versionVars
    BY <1>8 DEF versionVars, VersionInv, VersionTypeOK, Supported
  <1>9. QED
    BY <1>1, <1>2, <1>3, <1>4, <1>5, <1>6, <1>7, <1>8 DEF VersionNext

\* The inductive invariant of the version gate.
LEMMA VersionInvariant == VersionSpec => []VersionInv
  <1>1. VersionInit => VersionInv
    <2> SUFFICES ASSUME VersionInit
                 PROVE  VersionInv
      OBVIOUS
    <2>1. VersionTypeOK
      <3>1. manifest \in Manifest /\ minimum \in Version /\ installed \in Version
        BY DEF VersionInit, Manifest
      <3>2. restarts \in 0 .. MaxRestarts
        BY VersionAssumption DEF VersionInit
      <3>3. QED
        BY <3>1, <3>2, NoUpdate DEF VersionInit, VersionTypeOK
    <2>2. manifest.version = manifest.minimum /\ minimum = manifest.minimum
          /\ outdated = FALSE /\ told = NoVersion /\ check = NoCheck
      BY DEF VersionInit
    <2>3. ~VersionGt(manifest.minimum, manifest.minimum)
      BY <2>1, ManifestType, VersionOrder
    <2>4. QED
      BY <2>1, <2>2, <2>3, NoUpdate DEF VersionInv
  <1>2. QED
    BY <1>1, VersionPreserved, PTL DEF VersionSpec

\* For any set of versions, any releases and any number of checks: a client that the
\* server refused, and that has read the manifest since, must update, and is offered a
\* newer version which that server accepts.
THEOREM RefusedIsOfferedHolds == VersionSpec => []RefusedIsOffered
  <1>1. VersionInv => RefusedIsOffered
    <2> SUFFICES ASSUME VersionInv, told # NoVersion
                 PROVE  /\ offer.mandatory
                        /\ VersionGt(offer.version, installed)
                        /\ ~VersionGt(told, offer.version)
      BY DEF RefusedIsOffered
    <2>1. Supported(told, offer) /\ told \in Version /\ installed \in Version
      BY DEF VersionInv, VersionTypeOK
    <2>2. QED
      BY <2>1, VersionOrder DEF Supported
  <1>2. QED
    BY <1>1, VersionInvariant, PTL

(***************************************************************************)
(* Playback: sound that has begun lasts.                                   *)
(***************************************************************************)
PlaybackSpec == PlaybackInit /\ [][PlaybackNext]_playbackVars

Heard == BufferStart - BufferMin
OutputState == [waiting : 0 .. BufferMax, playing : BOOLEAN, heard : 0 .. Heard, broken : BOOLEAN]

\* What was heard and what waits make up the samples of the start, until that many were
\* heard as the sound has to last.
Steady(state) ==
  /\ ~state.broken
  /\ state.playing => state.heard = Heard \/ state.waiting + state.heard >= BufferStart
  /\ ~state.playing => state.heard = 0

SteadyState == {state \in OutputState : Steady(state)}

Output == [waiting |-> waiting, playing |-> playing, heard |-> heard, broken |-> broken]

PlaybackInv == PlaybackTypeOK /\ Steady(Output)

LEMMA OutputSteady ==
  /\ PlaybackInv <=> Output \in SteadyState
  /\ Heard \in Nat \ {0}
  <1>1. PlaybackTypeOK <=> Output \in OutputState
    BY DEF PlaybackTypeOK, Output, OutputState, Heard
  <1>2. Heard \in Nat \ {0}
    BY PlaybackAssumption DEF Heard
  <1>3. QED
    BY <1>1, <1>2 DEF PlaybackInv, SteadyState

\* One frame: the drop keeps as much as the sound needs.
LEMMA FrameSteady ==
  ASSUME NEW state \in SteadyState, NEW frames \in Nat \ {0}
  PROVE  FrameOut(state, frames) \in SteadyState
  <1> DEFINE plays == Plays(state)
             kept == Least(Least(state.waiting, BufferMax), BufferTarget + frames)
             breaks == \/ state.broken
                       \/ plays /\ kept = 0
                       \/ state.playing /\ ~plays /\ state.heard < Heard
             w == IF plays /\ kept > 0 THEN kept - 1 ELSE kept
             h == IF plays THEN Least(state.heard + 1, Heard) ELSE 0
  <1>1. /\ state.waiting \in 0 .. BufferMax /\ state.heard \in 0 .. Heard
        /\ state.playing \in BOOLEAN /\ state.broken \in BOOLEAN
    BY DEF SteadyState, OutputState
  <1>2. /\ ~state.broken
        /\ state.playing => state.heard = Heard \/ state.waiting + state.heard >= BufferStart
        /\ ~state.playing => state.heard = 0
    BY DEF SteadyState, Steady
  <1>3. /\ kept \in 0 .. BufferMax /\ kept <= state.waiting
        /\ kept = state.waiting \/ kept > BufferStart
    BY <1>1, PlaybackAssumption DEF Least
  <1>4. plays \in BOOLEAN /\ (plays <=> (state.playing \/ state.waiting >= BufferStart)
                                         /\ state.waiting > BufferMin)
    BY DEF Plays
  <1>5. FrameOut(state, frames) = [waiting |-> w, playing |-> plays, heard |-> h, broken |-> breaks]
    BY Zenon DEF FrameOut, Heard
  <1>6. Heard \in Nat \ {0} /\ BufferStart = BufferMin + Heard
    BY PlaybackAssumption DEF Heard
  <1> HIDE DEF kept, plays
  <1>7. plays => kept > 0
    BY <1>1, <1>3, <1>4, PlaybackAssumption
  <1>8. ~breaks
    <2>1. state.playing /\ ~plays => state.heard = Heard
      BY <1>1, <1>2, <1>4, <1>6, PlaybackAssumption
    <2>2. QED
      BY <1>2, <1>6, <1>7, <2>1
  <1>9. w \in 0 .. BufferMax /\ h \in 0 .. Heard
    BY <1>1, <1>3, <1>6, PlaybackAssumption DEF Least
  <1>10. plays => h = Heard \/ w + h >= BufferStart
    <2> SUFFICES ASSUME plays, h # Heard
                 PROVE  w + h >= BufferStart
      OBVIOUS
    <2>1. h = state.heard + 1 /\ state.heard # Heard /\ w = kept - 1
      BY <1>1, <1>6, <1>7 DEF Least
    <2>2. state.waiting + state.heard >= BufferStart
      BY <1>1, <1>2, <1>4, <2>1, PlaybackAssumption
    <2>3. QED
      BY <1>1, <1>3, <2>1, <2>2, PlaybackAssumption
  <1>11. ~plays => h = 0
    OBVIOUS
  <1> HIDE DEF w, h, breaks
  <1>12. breaks = FALSE
    BY <1>8 DEF breaks
  <1>13. FrameOut(state, frames) = [waiting |-> w, playing |-> plays, heard |-> h, broken |-> FALSE]
    BY <1>5, <1>12
  <1>14. QED
    BY <1>4, <1>9, <1>10, <1>11, <1>13 DEF SteadyState, OutputState, Steady

\* The recursive definition has a value, and keeps what each frame keeps.
LEMMA BufferSteady ==
  ASSUME NEW state \in SteadyState, NEW frames \in Nat
  PROVE  BufferOut(state, frames) \in SteadyState
  <1> DEFINE F == [call \in SteadyState \X (1 .. frames) |-> FrameOut(call[1], frames)]
             IsOut(g) == g = [i \in 0 .. frames |-> IF i = 0 THEN state ELSE FrameOut(g[i - 1], frames)]
             out == CHOOSE g : IsOut(g)
             Kept == {i \in Nat : i <= frames => out[i] \in SteadyState}
  <1>1. F \in StepFunctions(SteadyState, frames)
    BY FrameSteady DEF StepFunctions
  <1>2. PICK g \in [0 .. frames -> SteadyState] :
          g[0] = state /\ \A i \in 1 .. frames : g[i] = F[<<g[i - 1], i>>]
    <2> HIDE DEF F
    <2>1. PICK g : g \in Courses(SteadyState, frames, state, F)
      BY <1>1, StepsExist
    <2>2. QED
      BY <2>1 DEF Courses
  <1>3. \A i \in 1 .. frames : g[i] = FrameOut(g[i - 1], frames)
    <2> TAKE i \in 1 .. frames
    <2>1. g[i - 1] \in SteadyState
      BY <1>2
    <2>2. QED
      BY <1>2, <2>1
  <1>4. \A i \in 0 .. frames : g[i] = IF i = 0 THEN state ELSE FrameOut(g[i - 1], frames)
    BY <1>2, <1>3
  <1>5. IsOut(g)
    BY <1>2, <1>4
  <1>6. IsOut(out)
    BY <1>5
  <1> HIDE DEF out
  <1>7. out[0] = state /\ \A i \in 1 .. frames : out[i] = FrameOut(out[i - 1], frames)
    BY <1>6
  <1>8. 0 \in Kept
    BY <1>7
  <1>9. ASSUME NEW i \in Nat, i \in Kept
        PROVE  i + 1 \in Kept
    <2>1. CASE i + 1 <= frames
      <3>1. out[i] \in SteadyState /\ out[i + 1] = FrameOut(out[i], frames)
        BY <1>7, <1>9, <2>1
      <3>2. QED
        BY <2>1, <3>1, FrameSteady
    <2>2. QED
      BY <2>1
  <1>10. frames \in Kept
    <2> HIDE DEF Kept
    <2>1. QED
      BY <1>8, <1>9, SetInduction
  <1>11. BufferOut(state, frames) = out[frames]
    BY Zenon DEF BufferOut, out
  <1>12. QED
    BY <1>10, <1>11

LEMMA PlaybackPreserved == PlaybackInv /\ [PlaybackNext]_playbackVars => PlaybackInv'
  <1> SUFFICES ASSUME PlaybackInv, [PlaybackNext]_playbackVars
               PROVE  PlaybackInv'
    OBVIOUS
  <1>1. ASSUME NEW samples \in Packet, PacketArrives(samples)
        PROVE  PlaybackInv'
    <2>1. waiting \in 0 .. BufferMax /\ samples \in Nat
      BY PlaybackAssumption DEF PlaybackInv, PlaybackTypeOK
    <2>2. waiting' \in 0 .. BufferMax /\ waiting' >= waiting
      BY <1>1, <2>1, PlaybackAssumption DEF PacketArrives, Least
    <2>3. PlaybackTypeOK'
      BY <1>1, <2>2 DEF PlaybackInv, PlaybackTypeOK, PacketArrives
    <2>4. heard \in Nat /\ Heard \in Nat
      BY OutputSteady DEF PlaybackInv, PlaybackTypeOK, Heard
    <2>5. Steady(Output)'
      BY <1>1, <2>1, <2>2, <2>4, PlaybackAssumption DEF PlaybackInv, Steady, Output, PacketArrives
    <2>6. QED
      BY <2>3, <2>5 DEF PlaybackInv
  <1>2. ASSUME NEW frames \in OutputFrames, Callback(frames)
        PROVE  PlaybackInv'
    <2> DEFINE after == BufferOut(Output, frames)
    <2>1. after \in SteadyState
      BY OutputSteady, BufferSteady, PlaybackAssumption
    <2>2. /\ waiting' = after.waiting /\ playing' = after.playing
          /\ heard' = after.heard /\ broken' = after.broken
      BY <1>2 DEF Callback, Output
    <2> HIDE DEF after
    <2>3. PlaybackTypeOK'
      BY <2>1, <2>2 DEF PlaybackTypeOK, SteadyState, OutputState, Heard
    <2>4. Steady(Output)'
      BY <2>1, <2>2 DEF SteadyState, Steady, Output
    <2>5. QED
      BY <2>3, <2>4 DEF PlaybackInv
  <1>3. CASE PlaybackStart
    <2>1. heard' = 0 /\ 0 \in 0 .. Heard
      BY <1>3, OutputSteady DEF PlaybackStart
    <2>2. playing' \in BOOLEAN /\ ~playing'
      BY <1>3, Zenon DEF PlaybackStart
    <2>3. waiting' = waiting /\ broken' = broken
      BY <1>3 DEF PlaybackStart
    <2>4. PlaybackTypeOK'
      BY <2>1, <2>2, <2>3 DEF PlaybackInv, PlaybackTypeOK, Heard
    <2>5. Steady(Output)'
      BY <2>1, <2>2, <2>3 DEF PlaybackInv, Steady, Output
    <2>6. QED
      BY <2>4, <2>5 DEF PlaybackInv
  <1>4. CASE UNCHANGED playbackVars
    BY <1>4 DEF playbackVars, PlaybackInv, PlaybackTypeOK, Steady, Output
  <1>5. QED
    BY <1>1, <1>2, <1>3, <1>4 DEF PlaybackNext

\* The inductive invariant of the buffer.
LEMMA PlaybackInvariant == PlaybackSpec => []PlaybackInv
  <1>1. PlaybackInit => PlaybackInv
    <2> SUFFICES ASSUME PlaybackInit
                 PROVE  PlaybackInv
      OBVIOUS
    <2>1. waiting \in 0 .. BufferMax /\ heard \in 0 .. Heard /\ heard = 0
      BY OutputSteady, PlaybackAssumption DEF PlaybackInit
    <2>2. playing \in BOOLEAN /\ broken \in BOOLEAN /\ ~playing /\ ~broken
      BY Zenon DEF PlaybackInit
    <2>3. PlaybackTypeOK
      BY <2>1, <2>2 DEF PlaybackTypeOK, Heard
    <2>4. Steady(Output)
      BY <2>1, <2>2 DEF Steady, Output
    <2>5. QED
      BY <2>3, <2>4 DEF PlaybackInv
  <1>2. QED
    BY <1>1, PlaybackPreserved, PTL DEF PlaybackSpec

\* For any thresholds in their order, and any sizes of packets and buffers.
THEOREM NoStutterHolds == PlaybackSpec => []NoStutter
  <1>1. PlaybackInv => NoStutter
    BY DEF PlaybackInv, Steady, Output, NoStutter
  <1>2. QED
    BY <1>1, PlaybackInvariant, PTL

(***************************************************************************)
(* BlobUpload: what a file message names is the file.                      *)
(***************************************************************************)
BlobSpec == BlobInit /\ [][BlobNext]_blobVars

Blob == [owner : Owner, data : Seq(Chunk)]
Uploading == [at : {"idle", "picked", "encrypted", "created"},
              size : FileSize \union {0}, blob : BlobId \union {0}, next : Nat]

\* The bytes of the chunks before the n-th.
BytesBefore(size, n) ==
  IF (n - 1) * ChunkSize >= CipherSize(size) THEN CipherSize(size) ELSE (n - 1) * ChunkSize

\* The chunks of a blob are its owner's, each once and in order.
InPieces(blob) == \A n \in DOMAIN blob.data : blob.data[n].n = n /\ blob.data[n].from = blob.owner

\* The blob of an upload is the sender's own and has the chunks so far.
Grows(table, u, d) ==
  /\ u.blob \in DOMAIN table
  /\ table[u.blob].owner = d
  /\ InPieces(table[u.blob])
  /\ Len(table[u.blob].data) + 1 = u.next
  /\ Bytes(table[u.blob].data) = BytesBefore(u.size, u.next)
  /\ Bytes(table[u.blob].data) <= MaxBlob

\* What an upload relies on.
Uploads(table, files, u, d) ==
  /\ u.at \in {"encrypted", "created"} => u.size \in FileSize /\ u.size <= MaxFile
  /\ u.at = "encrypted" => u.next = 1
  /\ u.at = "created" => Grows(table, u, d) /\ \A file \in files : file.blob # u.blob

\* The blob of a file that was sent was made, and is the file.
Complete(table, file) ==
  /\ file.blob \in DOMAIN table
  /\ InPieces(table[file.blob])
  /\ Bytes(table[file.blob].data) = CipherSize(file.size)

UploadInv ==
  /\ BlobTypeOK
  /\ \A d \in Owner : Uploads(blobs, fileSent, upload[d], d)
  /\ \A file \in fileSent : Complete(blobs, file)
  /\ BlobBounded

-----------------------------------------------------------------------------
\* The sum of the bytes up to a chunk.
IsSum(data, sum) ==
  sum = [n \in 0 .. Len(data) |-> IF n = 0 THEN 0 ELSE sum[n - 1] + data[n].bytes]

LEMMA ChunkBytesNat ==
  /\ \A chunk \in Chunk : chunk.bytes \in Nat
  /\ \A data \in Seq(Chunk) : \A n \in 1 .. Len(data) : data[n] \in Chunk /\ data[n].bytes \in Nat
  <1>1. \A chunk \in Chunk : chunk.bytes \in Nat
    BY DEF Chunk
  <1>2. \A data \in Seq(Chunk) : \A n \in 1 .. Len(data) : data[n] \in Chunk
    OBVIOUS
  <1>3. QED
    BY <1>1, <1>2

LEMMA SumExists ==
  ASSUME NEW data \in Seq(Chunk)
  PROVE  \E sum \in [0 .. Len(data) -> Nat] : IsSum(data, sum)
  <1>1. PICK n \in Nat : n = Len(data)
    OBVIOUS
  <1> DEFINE F == [call \in Nat \X (1 .. n) |-> call[1] + data[call[2]].bytes]
  <1>3. F \in StepFunctions(Nat, n) /\ 0 \in Nat
    BY <1>1, ChunkBytesNat DEF StepFunctions
  <1>4. PICK g \in [0 .. n -> Nat] :
          g[0] = 0 /\ \A i \in 1 .. n : g[i] = F[<<g[i - 1], i>>]
    <2> HIDE DEF F
    <2>1. PICK g : g \in Courses(Nat, n, 0, F)
      BY <1>3, StepsExist
    <2>2. QED
      BY <2>1 DEF Courses
  <1>5. \A i \in 1 .. n : g[i] = g[i - 1] + data[i].bytes
    <2> TAKE i \in 1 .. n
    <2>1. g[i - 1] \in Nat
      BY <1>4
    <2>2. QED
      BY <1>4, <2>1
  <1>6. \A i \in 0 .. n : g[i] = IF i = 0 THEN 0 ELSE g[i - 1] + data[i].bytes
    BY <1>4, <1>5
  <1>7. g = [i \in 0 .. n |-> IF i = 0 THEN 0 ELSE g[i - 1] + data[i].bytes]
    BY <1>4, <1>6
  <1>8. QED
    BY <1>1, <1>4, <1>7 DEF IsSum

\* Two sequences that begin alike have the same sums there.
LEMMA SumsAgree ==
  ASSUME NEW data, NEW g, IsSum(data, g), NEW more, NEW h, IsSum(more, h),
         Len(data) \in Nat, Len(more) \in Nat, Len(data) <= Len(more),
         \A n \in 1 .. Len(data) : more[n] = data[n]
  PROVE  g[Len(data)] = h[Len(data)]
  <1> DEFINE Same == {n \in Nat : n <= Len(data) => g[n] = h[n]}
  <1>1. g[0] = 0 /\ \A n \in 1 .. Len(data) : g[n] = g[n - 1] + data[n].bytes
    BY DEF IsSum
  <1>2. h[0] = 0 /\ \A n \in 1 .. Len(more) : h[n] = h[n - 1] + more[n].bytes
    BY DEF IsSum
  <1>3. 0 \in Same
    BY <1>1, <1>2
  <1>4. ASSUME NEW n \in Nat, n \in Same
        PROVE  n + 1 \in Same
    <2>1. CASE n + 1 <= Len(data)
      <3>1. n + 1 \in 1 .. Len(data) /\ n + 1 \in 1 .. Len(more) /\ n + 1 - 1 = n
        BY <2>1
      <3>2. g[n + 1] = g[n] + data[n + 1].bytes /\ h[n + 1] = h[n] + data[n + 1].bytes
        BY <1>1, <1>2, <3>1
      <3>3. QED
        BY <1>4, <2>1, <3>2
    <2>2. QED
      BY <2>1
  <1>5. Len(data) \in Same
    <2> HIDE DEF Same
    <2>1. QED
      BY <1>3, <1>4, SetInduction
  <1>6. QED
    BY <1>5

LEMMA BytesIsSum ==
  ASSUME NEW data \in Seq(Chunk)
  PROVE  \E sum \in [0 .. Len(data) -> Nat] : IsSum(data, sum) /\ Bytes(data) = sum[Len(data)]
  <1>1. \E sum : IsSum(data, sum)
    BY SumExists
  <1> DEFINE chosen == CHOOSE sum : IsSum(data, sum)
  <1>2. IsSum(data, chosen)
    BY <1>1
  <1>3. Bytes(data) = chosen[Len(data)]
    BY Zenon DEF Bytes, IsSum
  <1> HIDE DEF chosen
  <1>4. PICK sum \in [0 .. Len(data) -> Nat] : IsSum(data, sum)
    BY SumExists
  <1>5. Len(data) \in Nat /\ Len(data) <= Len(data)
    OBVIOUS
  <1>6. chosen[Len(data)] = sum[Len(data)]
    BY <1>2, <1>4, <1>5, SumsAgree
  <1>7. QED
    BY <1>3, <1>4, <1>6

\* What Bytes adds up.
LEMMA BytesAppend ==
  ASSUME NEW data \in Seq(Chunk), NEW chunk \in Chunk
  PROVE  /\ Bytes(data) \in Nat
         /\ Bytes(Append(data, chunk)) = Bytes(data) + chunk.bytes
  <1> DEFINE more == Append(data, chunk)
  <1>1. /\ more \in Seq(Chunk) /\ Len(more) = Len(data) + 1 /\ Len(data) \in Nat
        /\ \A n \in 1 .. Len(data) : more[n] = data[n]
        /\ more[Len(more)] = chunk
    OBVIOUS
  <1> HIDE DEF more
  <1>2. PICK g \in [0 .. Len(data) -> Nat] : IsSum(data, g) /\ Bytes(data) = g[Len(data)]
    BY BytesIsSum
  <1>3. PICK h \in [0 .. Len(more) -> Nat] : IsSum(more, h) /\ Bytes(more) = h[Len(more)]
    BY <1>1, BytesIsSum
  <1>4. Len(more) \in Nat /\ Len(data) <= Len(more)
    BY <1>1
  <1>5. g[Len(data)] = h[Len(data)]
    BY <1>1, <1>2, <1>3, <1>4, SumsAgree
  <1>6. h[Len(more)] = h[Len(data)] + chunk.bytes
    BY <1>1, <1>3 DEF IsSum
  <1>7. Bytes(data) \in Nat
    BY <1>1, <1>2
  <1>8. QED
    BY <1>2, <1>3, <1>5, <1>6, <1>7 DEF more

LEMMA BytesNone == Bytes(<<>>) = 0
  <1>1. <<>> \in Seq(Chunk) /\ Len(<<>>) = 0
    OBVIOUS
  <1>2. PICK sum \in [0 .. 0 -> Nat] : IsSum(<<>>, sum) /\ Bytes(<<>>) = sum[0]
    BY <1>1, BytesIsSum
  <1>3. QED
    BY <1>1, <1>2 DEF IsSum

LEMMA BytesOne == ASSUME NEW chunk \in Chunk PROVE Bytes(<<chunk>>) = chunk.bytes
  <1>1. <<chunk>> = Append(<<>>, chunk) /\ <<>> \in Seq(Chunk)
    OBVIOUS
  <1>2. Bytes(Append(<<>>, chunk)) = Bytes(<<>>) + chunk.bytes
    BY <1>1, BytesAppend
  <1>3. QED
    BY <1>1, <1>2, BytesNone, ChunkBytesNat
-----------------------------------------------------------------------------
LEMMA BlobNumbers ==
  /\ MaxFile \in Nat /\ MaxBlob \in Nat /\ Overhead \in Nat
  /\ ChunkSize \in Nat /\ ChunkSize > 0
  /\ \A b \in BlobId : b \in Nat
  /\ \A size \in FileSize : size \in Nat /\ CipherSize(size) \in Nat
  BY BlobAssumption DEF CipherSize

LEMMA OneMore == ASSUME NEW n \in Nat \ {0}, NEW m \in Nat PROVE (n + 1 - 1) * m = (n - 1) * m + m
  OBVIOUS

LEMMA ChunkAdds ==
  ASSUME NEW size \in FileSize, NEW n \in Nat \ {0}, ChunkBytes(size, n) > 0
  PROVE  /\ ChunkBytes(size, n) \in Nat
         /\ ChunkBytes(size, n) <= ChunkSize
         /\ BytesBefore(size, n) + ChunkBytes(size, n) = BytesBefore(size, n + 1)
         /\ BytesBefore(size, n + 1) <= CipherSize(size)
  <1> DEFINE before == (n - 1) * ChunkSize
             after == (n + 1 - 1) * ChunkSize
             cipher == CipherSize(size)
  <1>1. before \in Nat /\ after = before + ChunkSize /\ cipher \in Nat
    BY BlobNumbers, OneMore
  <1>2. BytesBefore(size, n) = IF before >= cipher THEN cipher ELSE before
    BY DEF BytesBefore
  <1>3. BytesBefore(size, n + 1) = IF after >= cipher THEN cipher ELSE after
    BY DEF BytesBefore
  <1>4. ChunkBytes(size, n) = IF before >= cipher THEN 0
                              ELSE IF before + ChunkSize > cipher THEN cipher - before ELSE ChunkSize
    BY Zenon DEF ChunkBytes
  <1> HIDE DEF before, after, cipher
  <1>5. QED
    BY <1>1, <1>2, <1>3, <1>4, BlobNumbers DEF cipher

LEMMA LastChunk ==
  ASSUME NEW size \in FileSize, NEW n \in Nat \ {0}, ChunkBytes(size, n) = 0
  PROVE  BytesBefore(size, n) = CipherSize(size)
  <1> DEFINE before == (n - 1) * ChunkSize
             cipher == CipherSize(size)
  <1>1. before \in Nat /\ cipher \in Nat
    BY BlobNumbers
  <1>2. /\ BytesBefore(size, n) = IF before >= cipher THEN cipher ELSE before
        /\ ChunkBytes(size, n) = IF before >= cipher THEN 0
                                 ELSE IF before + ChunkSize > cipher THEN cipher - before ELSE ChunkSize
    BY Zenon DEF BytesBefore, ChunkBytes
  <1> HIDE DEF before, cipher
  <1>3. QED
    BY <1>1, <1>2, BlobNumbers DEF cipher

LEMMA FirstChunk == \A size \in FileSize : BytesBefore(size, 1) = 0
  BY BlobNumbers DEF BytesBefore

-----------------------------------------------------------------------------
LEMMA IdleUploads ==
  /\ NoUpload \in Uploading /\ NoUpload.at = "idle"
  /\ [NoUpload EXCEPT !.at = "picked"] \in Uploading
  /\ [NoUpload EXCEPT !.at = "picked"].at = "picked"
  /\ \A size \in FileSize :
       LET u == [NoUpload EXCEPT !.at = "encrypted", !.size = size]
       IN  u \in Uploading /\ u.at = "encrypted" /\ u.size = size /\ u.next = 1
  BY DEF NoUpload, Uploading

LEMMA UploadUpdates ==
  ASSUME NEW u \in Uploading
  PROVE  /\ \A b \in BlobId :
              LET v == [u EXCEPT !.at = "created", !.blob = b]
              IN  v \in Uploading /\ v.at = "created" /\ v.blob = b /\ v.size = u.size /\ v.next = u.next
         /\ LET v == [u EXCEPT !.next = @ + 1]
            IN  v \in Uploading /\ v.at = u.at /\ v.blob = u.blob /\ v.size = u.size /\ v.next = u.next + 1
  <1>1. u.next \in Nat
    BY DEF Uploading
  <1>2. ASSUME NEW b \in BlobId
        PROVE  [u EXCEPT !.at = "created", !.blob = b] \in Uploading
    BY DEF Uploading
  <1>3. ASSUME NEW b \in BlobId
        PROVE  /\ [u EXCEPT !.at = "created", !.blob = b].at = "created"
               /\ [u EXCEPT !.at = "created", !.blob = b].blob = b
               /\ [u EXCEPT !.at = "created", !.blob = b].size = u.size
               /\ [u EXCEPT !.at = "created", !.blob = b].next = u.next
    BY DEF Uploading
  <1>4. [u EXCEPT !.next = u.next + 1] \in Uploading
    BY <1>1 DEF Uploading
  <1>5. /\ [u EXCEPT !.next = u.next + 1].at = u.at
        /\ [u EXCEPT !.next = u.next + 1].blob = u.blob
        /\ [u EXCEPT !.next = u.next + 1].size = u.size
        /\ [u EXCEPT !.next = u.next + 1].next = u.next + 1
    BY DEF Uploading
  <1>6. QED
    BY <1>2, <1>3, <1>4, <1>5, Zenon

LEMMA TypeParts ==
  BlobTypeOK <=>
    /\ blobs \in Seq(Blob) /\ DOMAIN blobs \subseteq BlobId
    /\ upload \in [Owner -> Uploading]
    /\ fileSent \subseteq [blob : BlobId, size : FileSize]
    /\ refused \subseteq FileSize /\ download \subseteq fileSent /\ saved \subseteq fileSent
  BY DEF BlobTypeOK, Blob, Uploading

\* What was said of a blob is true as long as it stays.
LEMMA BlobStays ==
  ASSUME NEW table, NEW later, NEW b, b \in DOMAIN table, b \in DOMAIN later, later[b] = table[b]
  PROVE  /\ \A u, d : u.blob = b /\ Grows(table, u, d) => Grows(later, u, d)
         /\ \A file : file.blob = b /\ Complete(table, file) => Complete(later, file)
  BY DEF Grows, Complete

LEMMA UploadInitial == BlobInit => UploadInv
  <1> SUFFICES ASSUME BlobInit
               PROVE  UploadInv
    OBVIOUS
  <1>1. BlobTypeOK
    <2>1. blobs \in Seq(Blob) /\ DOMAIN blobs = {}
      BY DEF BlobInit
    <2>2. upload \in [Owner -> Uploading]
      BY IdleUploads DEF BlobInit
    <2>3. fileSent = {} /\ refused = {} /\ download = {} /\ saved = {}
      BY DEF BlobInit
    <2>4. QED
      BY <2>1, <2>2, <2>3, TypeParts
  <1>2. \A d \in Owner : Uploads(blobs, fileSent, upload[d], d)
    BY IdleUploads DEF BlobInit, Uploads
  <1>3. (\A file \in fileSent : Complete(blobs, file)) /\ BlobBounded
    BY DEF BlobInit, BlobBounded
  <1>4. QED
    BY <1>1, <1>2, <1>3 DEF UploadInv

\* A step of a worker that leaves the server as it is.
LEMMA UploadMoves ==
  ASSUME UploadInv, NEW d \in Owner, NEW u \in Uploading, Uploads(blobs, fileSent, u, d),
         upload' = [upload EXCEPT ![d] = u], UNCHANGED <<blobs, fileSent, refused, download, saved>>
  PROVE  UploadInv'
  <1>1. upload \in [Owner -> Uploading]
    BY TypeParts DEF UploadInv
  <1>2. /\ upload' \in [Owner -> Uploading] /\ upload'[d] = u
        /\ \A e \in Owner : e # d => upload'[e] = upload[e]
    BY <1>1
  <1>3. BlobTypeOK'
    BY <1>2 DEF UploadInv, BlobTypeOK, Uploading
  <1>4. \A e \in Owner : Uploads(blobs', fileSent', upload'[e], e)
    BY <1>2 DEF UploadInv
  <1>5. (\A file \in fileSent' : Complete(blobs', file)) /\ BlobBounded'
    BY DEF UploadInv, BlobBounded
  <1>6. QED
    BY <1>3, <1>4, <1>5 DEF UploadInv

LEMMA UploadEndsUploads == \A d \in Owner : Uploads(blobs, fileSent, NoUpload, d)
  BY IdleUploads DEF Uploads

LEMMA WorkerStep ==
  ASSUME UploadInv, NEW d \in Owner, NEW size \in FileSize,
         SendFile(d, size) \/ ReadFile(d, size) \/ UploadAborts(d)
  PROVE  UploadInv'
  <1>1. CASE UploadEnds(d) /\ UNCHANGED <<blobs, fileSent, refused, download, saved>>
    BY <1>1, IdleUploads, UploadEndsUploads, UploadMoves DEF UploadEnds
  <1>2. CASE SendFile(d, size)
    <2> DEFINE u == [NoUpload EXCEPT !.at = "picked"]
    <2>1. u \in Uploading /\ u.at = "picked"
      BY IdleUploads, Zenon
    <2> HIDE DEF u
    <2>2. Uploads(blobs, fileSent, u, d)
      BY <2>1 DEF Uploads
    <2>3. upload' = [upload EXCEPT ![d] = u] /\ UNCHANGED <<blobs, fileSent, refused, download, saved>>
      BY <1>2 DEF SendFile, u
    <2>4. QED
      BY <2>1, <2>2, <2>3, UploadMoves
  <1>3. CASE ReadFile(d, size) /\ size <= MaxFile
    <2> DEFINE u == [NoUpload EXCEPT !.at = "encrypted", !.size = size]
    <2>1. u \in Uploading /\ u.at = "encrypted" /\ u.size = size /\ u.next = 1
      BY IdleUploads, Zenon
    <2> HIDE DEF u
    <2>2. Uploads(blobs, fileSent, u, d)
      BY <1>3, <2>1 DEF Uploads
    <2>3. upload' = [upload EXCEPT ![d] = u] /\ UNCHANGED <<blobs, fileSent, refused, download, saved>>
      BY <1>3 DEF ReadFile, u
    <2>4. QED
      BY <2>1, <2>2, <2>3, UploadMoves
  <1>4. CASE ReadFile(d, size) /\ ~(size <= MaxFile)
    BY <1>1, <1>4 DEF ReadFile
  <1>5. CASE UploadAborts(d)
    BY <1>1, <1>5 DEF UploadAborts
  <1>6. QED
    BY <1>2, <1>3, <1>4, <1>5

-----------------------------------------------------------------------------
\* A blob is added behind the others.
LEMMA BlobAdded ==
  ASSUME UploadInv, NEW blob \in Blob, blobs' = Append(blobs, blob), Len(blobs) + 1 \in BlobId
  PROVE  /\ blobs' \in Seq(Blob) /\ DOMAIN blobs' \subseteq BlobId
         /\ Len(blobs') = Len(blobs) + 1
         /\ Len(blobs') \in DOMAIN blobs' /\ Len(blobs') \notin DOMAIN blobs
         /\ blobs'[Len(blobs')] = blob
         /\ \A b \in DOMAIN blobs : b \in DOMAIN blobs' /\ blobs'[b] = blobs[b]
         /\ \A b \in DOMAIN blobs' : b \in DOMAIN blobs \/ b = Len(blobs')
  <1>1. blobs \in Seq(Blob) /\ DOMAIN blobs \subseteq BlobId
    BY TypeParts DEF UploadInv
  <1>2. /\ blobs' \in Seq(Blob) /\ Len(blobs') = Len(blobs) + 1 /\ Len(blobs) \in Nat
        /\ DOMAIN blobs = 1 .. Len(blobs) /\ DOMAIN blobs' = 1 .. Len(blobs) + 1
    BY <1>1
  <1>3. /\ blobs'[Len(blobs) + 1] = blob
        /\ \A b \in 1 .. Len(blobs) : blobs'[b] = blobs[b]
    BY <1>1
  <1>4. QED
    BY <1>1, <1>2, <1>3

LEMMA AddedKeeps ==
  ASSUME UploadInv, NEW blob \in Blob, blobs' = Append(blobs, blob), Len(blobs) + 1 \in BlobId,
         Bytes(blob.data) <= MaxBlob + ChunkSize, UNCHANGED <<fileSent, refused, download, saved>>
  PROVE  /\ upload' \in [Owner -> Uploading] => BlobTypeOK'
         /\ \A d \in Owner : Uploads(blobs', fileSent', upload[d], d)
         /\ \A file \in fileSent' : Complete(blobs', file)
         /\ BlobBounded'
  <1>1. upload' \in [Owner -> Uploading] => BlobTypeOK'
    <2>1. blobs' \in Seq(Blob) /\ DOMAIN blobs' \subseteq BlobId
      BY BlobAdded
    <2>2. QED
      BY <2>1 DEF UploadInv, BlobTypeOK, Blob, Uploading
  <1>2. ASSUME NEW d \in Owner
        PROVE  Uploads(blobs', fileSent', upload[d], d)
    <2>1. Uploads(blobs, fileSent, upload[d], d)
      BY DEF UploadInv
    <2>2. upload[d].at = "created" => Grows(blobs', upload[d], d)
      BY <2>1, BlobAdded, BlobStays DEF Uploads, Grows
    <2>3. QED
      BY <2>1, <2>2 DEF Uploads
  <1>3. ASSUME NEW file \in fileSent
        PROVE  Complete(blobs', file)
    <2>1. Complete(blobs, file)
      BY DEF UploadInv
    <2>2. QED
      BY <2>1, BlobAdded, BlobStays DEF Complete
  <1>4. BlobBounded'
    <2>1. \A b \in DOMAIN blobs' : Bytes(blobs'[b].data) <= MaxBlob + ChunkSize
      BY BlobAdded DEF UploadInv, BlobBounded
    <2>2. QED
      BY <2>1 DEF UploadInv, BlobBounded
  <1>5. QED
    BY <1>1, <1>2, <1>3, <1>4

LEMMA CreateBlobStep ==
  ASSUME UploadInv, NEW d \in Owner, NEW answered \in BOOLEAN, CreateBlob(d, answered)
  PROVE  UploadInv'
  <1> DEFINE blob == [owner |-> d, data |-> <<>>]
             u == [upload[d] EXCEPT !.at = "created", !.blob = Len(blobs')]
  <1>1. /\ blob \in Blob /\ Bytes(blob.data) = 0 /\ Len(blob.data) = 0
        /\ blob.owner = d /\ InPieces(blob)
    <2>1. blob \in Blob /\ blob.data = <<>> /\ blob.owner = d
      BY DEF Blob
    <2>2. QED
      BY <2>1, BytesNone DEF InPieces
  <1>2. /\ upload[d].at = "encrypted" /\ Len(blobs) + 1 \in BlobId /\ blobs' = Append(blobs, blob)
        /\ UNCHANGED <<fileSent, refused, download, saved>>
    BY DEF CreateBlob
  <1> HIDE DEF blob
  <1>3. /\ Bytes(blob.data) <= MaxBlob + ChunkSize
        /\ Bytes(blob.data) <= MaxBlob
    BY <1>1, BlobNumbers
  <1>4. upload \in [Owner -> Uploading] /\ Len(blobs') \in BlobId
    BY <1>1, <1>2, BlobAdded, TypeParts DEF UploadInv
  <1>5. /\ u \in Uploading /\ u.at = "created" /\ u.blob = Len(blobs')
        /\ u.size = upload[d].size /\ u.next = upload[d].next
    <2>1. upload[d] \in Uploading
      BY <1>4
    <2>2. QED
      BY <1>4, <2>1, UploadUpdates, Zenon
  <1>6. upload' = [upload EXCEPT ![d] = u] \/ upload' = [upload EXCEPT ![d] = NoUpload]
    BY <1>4 DEF CreateBlob, UploadEnds
  <1> HIDE DEF u
  <1>7. upload' \in [Owner -> Uploading]
    BY <1>4, <1>5, <1>6, IdleUploads
  <1>8. Uploads(blobs', fileSent', u, d)
    <2>1. upload[d].size \in FileSize /\ upload[d].size <= MaxFile /\ upload[d].next = 1
      BY <1>2 DEF UploadInv, Uploads
    <2>2. Grows(blobs', u, d)
      <3>1. u.blob \in DOMAIN blobs' /\ blobs'[u.blob] = blob
        BY <1>1, <1>2, <1>5, BlobAdded
      <3>2. BytesBefore(u.size, u.next) = 0 /\ u.next = 1
        BY <1>5, <2>1, FirstChunk
      <3>3. QED
        BY <1>1, <1>3, <3>1, <3>2 DEF Grows
    <2>3. \A file \in fileSent' : file.blob # u.blob
      BY <1>1, <1>2, <1>5, BlobAdded DEF UploadInv, Complete
    <2>4. QED
      BY <1>5, <2>1, <2>2, <2>3 DEF Uploads
  <1>9. \A e \in Owner : Uploads(blobs', fileSent', upload'[e], e)
    <2> TAKE e \in Owner
    <2>1. upload'[e] \in {upload[e], NoUpload} \/ (e = d /\ upload'[e] = u)
      BY <1>4, <1>6
    <2>2. Uploads(blobs', fileSent', upload[e], e)
      BY <1>1, <1>2, <1>3, AddedKeeps
    <2>3. Uploads(blobs', fileSent', NoUpload, e)
      BY IdleUploads DEF Uploads
    <2>4. QED
      BY <1>8, <2>1, <2>2, <2>3
  <1>10. BlobTypeOK' /\ (\A file \in fileSent' : Complete(blobs', file)) /\ BlobBounded'
    BY <1>1, <1>2, <1>3, <1>7, AddedKeeps
  <1>11. QED
    BY <1>9, <1>10 DEF UploadInv

LEMMA UploadWholeStep ==
  ASSUME UploadInv, NEW d \in Owner, NEW size \in FileSize, UploadWhole(d, size)
  PROVE  UploadInv'
  <1> DEFINE chunk == [from |-> d, n |-> 1, bytes |-> CipherSize(size)]
             blob == [owner |-> d, data |-> <<chunk>>]
  <1>1. chunk \in Chunk /\ chunk.bytes = CipherSize(size)
    BY BlobNumbers DEF Chunk
  <1>2. /\ CipherSize(size) <= MaxBlob /\ Len(blobs) + 1 \in BlobId /\ blobs' = Append(blobs, blob)
        /\ UNCHANGED <<upload, fileSent, refused, download, saved>>
    BY DEF UploadWhole
  <1> HIDE DEF chunk
  <1>3. blob \in Blob /\ blob.data = <<chunk>>
    BY <1>1 DEF Blob
  <1> HIDE DEF blob
  <1>4. Bytes(blob.data) <= MaxBlob + ChunkSize
    BY <1>1, <1>2, <1>3, BytesOne, BlobNumbers
  <1>5. upload' \in [Owner -> Uploading] /\ upload' = upload
    BY <1>2, TypeParts DEF UploadInv
  <1>6. QED
    BY <1>2, <1>3, <1>4, <1>5, AddedKeeps DEF UploadInv

-----------------------------------------------------------------------------
\* One more chunk.
LEMMA ChunkAppended ==
  ASSUME UploadInv, NEW d \in Owner, upload[d].at = "created",
         ChunkBytes(upload[d].size, upload[d].next) > 0, blobs' = Appended(d)
  PROVE  LET u == upload[d] IN
         /\ blobs' \in Seq(Blob) /\ DOMAIN blobs' = DOMAIN blobs
         /\ \A b \in DOMAIN blobs : b # u.blob => blobs'[b] = blobs[b]
         /\ u.blob \in DOMAIN blobs /\ blobs'[u.blob].owner = d /\ InPieces(blobs'[u.blob])
         /\ Len(blobs'[u.blob].data) + 1 = u.next + 1
         /\ Bytes(blobs'[u.blob].data) \in Nat
         /\ Bytes(blobs'[u.blob].data) = BytesBefore(u.size, u.next + 1)
         /\ Bytes(blobs'[u.blob].data) <= CipherSize(u.size)
         /\ Bytes(blobs'[u.blob].data) <= MaxBlob + ChunkSize
  <1> DEFINE u == upload[d]
             old == blobs[u.blob].data
             chunk == [from |-> d, n |-> u.next, bytes |-> ChunkBytes(u.size, u.next)]
             new == Append(old, chunk)
  <1>1. blobs \in Seq(Blob) /\ upload \in [Owner -> Uploading]
    BY TypeParts DEF UploadInv
  <1>2. u.size \in FileSize /\ Grows(blobs, u, d) /\ u.next \in Nat
    BY <1>1 DEF UploadInv, Uploads, Uploading
  <1>3. /\ u.blob \in DOMAIN blobs /\ blobs[u.blob].owner = d
        /\ \A i \in DOMAIN old : old[i].n = i /\ old[i].from = d
        /\ Len(old) + 1 = u.next
        /\ Bytes(old) = BytesBefore(u.size, u.next) /\ Bytes(old) <= MaxBlob
    BY <1>2 DEF Grows, InPieces
  <1>4. blobs[u.blob] \in Blob
    BY <1>1, <1>3
  <1>5. old \in Seq(Chunk)
    BY <1>4 DEF Blob
  <1>6. u.next \in Nat \ {0}
    BY <1>2, <1>3, <1>5
  <1>7. /\ ChunkBytes(u.size, u.next) \in Nat /\ ChunkBytes(u.size, u.next) <= ChunkSize
        /\ BytesBefore(u.size, u.next) + ChunkBytes(u.size, u.next) = BytesBefore(u.size, u.next + 1)
        /\ BytesBefore(u.size, u.next + 1) <= CipherSize(u.size)
    BY <1>2, <1>6, ChunkAdds
  <1>8. /\ chunk \in Chunk /\ chunk.n = u.next /\ chunk.from = d
        /\ chunk.bytes = ChunkBytes(u.size, u.next)
    BY <1>6, <1>7 DEF Chunk
  <1>9. blobs' = [blobs EXCEPT ![u.blob].data = new]
    BY <1>3 DEF Appended
  <1> HIDE DEF chunk, u
  <1>10. /\ new \in Seq(Chunk) /\ Len(new) = Len(old) + 1
         /\ \A i \in DOMAIN new : new[i].n = i /\ new[i].from = d
    BY <1>3, <1>5, <1>8
  <1>11. Bytes(old) \in Nat /\ Bytes(new) = Bytes(old) + ChunkBytes(u.size, u.next)
    BY <1>5, <1>8, BytesAppend
  <1> HIDE DEF old, new
  <1>12. [blobs[u.blob] EXCEPT !.data = new] \in Blob
    BY <1>4, <1>10 DEF Blob
  <1>13. /\ [blobs[u.blob] EXCEPT !.data = new].data = new
         /\ [blobs[u.blob] EXCEPT !.data = new].owner = d
    BY <1>3, <1>4 DEF Blob
  <1>14. /\ blobs' \in Seq(Blob) /\ DOMAIN blobs' = DOMAIN blobs
         /\ \A b \in DOMAIN blobs : b # u.blob => blobs'[b] = blobs[b]
         /\ blobs'[u.blob] = [blobs[u.blob] EXCEPT !.data = new]
    BY <1>1, <1>3, <1>9, <1>12
  <1>15. InPieces(blobs'[u.blob])
    BY <1>10, <1>13, <1>14 DEF InPieces
  <1>16. Bytes(old) <= MaxBlob /\ Bytes(old) = BytesBefore(u.size, u.next) /\ Len(old) + 1 = u.next
    BY <1>3 DEF old
  <1>17. /\ Bytes(new) \in Nat /\ Bytes(new) = BytesBefore(u.size, u.next + 1)
         /\ Bytes(new) <= MaxBlob + ChunkSize
    BY <1>7, <1>11, <1>16, BlobNumbers
  <1>18. QED
    BY <1>3, <1>7, <1>10, <1>13, <1>14, <1>15, <1>16, <1>17 DEF u

LEMMA AppendChunkStep ==
  ASSUME UploadInv, NEW d \in Owner, NEW answered \in BOOLEAN, AppendChunk(d, answered)
  PROVE  UploadInv'
  <1> DEFINE u == upload[d]
             b == upload[d].blob
             v == [upload[d] EXCEPT !.next = @ + 1]
             bytes == Bytes(blobs'[b].data)
  <1>1. /\ u.at = "created" /\ ChunkBytes(u.size, u.next) > 0 /\ blobs' = Appended(d)
        /\ refused' = IF bytes > MaxBlob THEN refused \union {u.size} ELSE refused
        /\ \/ ~(bytes > MaxBlob) /\ upload' = [upload EXCEPT ![d].next = @ + 1]
           \/ upload' = [upload EXCEPT ![d] = NoUpload]
        /\ UNCHANGED <<fileSent, download, saved>>
    BY DEF AppendChunk, UploadEnds
  <1>2. /\ blobs \in Seq(Blob) /\ DOMAIN blobs \subseteq BlobId /\ upload \in [Owner -> Uploading]
        /\ Uploads(blobs, fileSent, u, d)
    BY TypeParts DEF UploadInv
  <1>3. u.size \in FileSize /\ u.size <= MaxFile /\ \A file \in fileSent : file.blob # b
    BY <1>1, <1>2 DEF Uploads
  <1>4. /\ blobs' \in Seq(Blob) /\ DOMAIN blobs' = DOMAIN blobs
        /\ \A c \in DOMAIN blobs : c # b => blobs'[c] = blobs[c]
        /\ b \in DOMAIN blobs /\ blobs'[b].owner = d /\ InPieces(blobs'[b])
        /\ Len(blobs'[b].data) + 1 = u.next + 1
        /\ bytes \in Nat /\ bytes = BytesBefore(u.size, u.next + 1)
        /\ bytes <= CipherSize(u.size) /\ bytes <= MaxBlob + ChunkSize
    BY <1>1, ChunkAppended
  <1>5. /\ v \in Uploading /\ v.at = u.at /\ v.blob = u.blob /\ v.size = u.size
        /\ v.next = u.next + 1
    BY <1>2, UploadUpdates, Zenon
  <1>6. (~(bytes > MaxBlob) /\ upload' = [upload EXCEPT ![d] = v]) \/ upload' = [upload EXCEPT ![d] = NoUpload]
    BY <1>1, <1>2
  <1> HIDE DEF u, b, v
  <1>7. upload' \in [Owner -> Uploading]
    BY <1>2, <1>5, <1>6, IdleUploads
  <1>8. BlobTypeOK'
    <2>1. refused' \subseteq FileSize
      BY <1>1, <1>3, TypeParts DEF UploadInv
    <2>2. blobs' \in Seq(Blob) /\ DOMAIN blobs' \subseteq BlobId
      BY <1>2, <1>4
    <2>3. QED
      BY <1>1, <1>7, <2>1, <2>2 DEF UploadInv, BlobTypeOK, Blob, Uploading
  <1>9. \A e \in Owner : Uploads(blobs', fileSent', upload'[e], e)
    <2>1. ASSUME NEW e \in Owner, e # d
          PROVE  Uploads(blobs', fileSent', upload'[e], e)
      <3>1. upload'[e] = upload[e] /\ Uploads(blobs, fileSent, upload[e], e)
        BY <1>2, <1>6, <2>1 DEF UploadInv
      <3>2. ASSUME upload[e].at = "created"
            PROVE  Grows(blobs', upload[e], e)
        <4>1. Grows(blobs, upload[e], e)
          BY <3>1, <3>2 DEF Uploads
        <4>2. Grows(blobs, u, d)
          BY <1>1, <1>2 DEF Uploads
        <4>3. upload[e].blob # b
          BY <2>1, <4>1, <4>2 DEF Grows, u, b
        <4>4. upload[e].blob \in DOMAIN blobs
          BY <4>1 DEF Grows
        <4>5. QED
          BY <1>4, <4>1, <4>3, <4>4, BlobStays
      <3>3. QED
        BY <1>1, <3>1, <3>2 DEF Uploads
    <2>2. Uploads(blobs', fileSent', NoUpload, d)
      BY IdleUploads DEF Uploads
    <2>3. ~(bytes > MaxBlob) => Uploads(blobs', fileSent', v, d)
      <3> SUFFICES ASSUME ~(bytes > MaxBlob)
                   PROVE  Uploads(blobs', fileSent', v, d)
        OBVIOUS
      <3>1. bytes <= MaxBlob
        BY <1>4, BlobNumbers
      <3>2. v.blob = b
        BY <1>5 DEF u, b
      <3>3. Grows(blobs', v, d)
        BY <1>4, <1>5, <3>1, <3>2 DEF Grows
      <3>4. QED
        BY <1>1, <1>3, <1>5, <3>2, <3>3 DEF Uploads
    <2>4. upload'[d] = NoUpload \/ (~(bytes > MaxBlob) /\ upload'[d] = v)
      BY <1>2, <1>6
    <2>5. QED
      BY <2>1, <2>2, <2>3, <2>4
  <1>10. ASSUME NEW file \in fileSent'
         PROVE  Complete(blobs', file)
    <2>1. Complete(blobs, file) /\ file.blob # b
      BY <1>1, <1>3, <1>10 DEF UploadInv
    <2>2. file.blob \in DOMAIN blobs
      BY <2>1 DEF Complete
    <2>3. QED
      BY <1>4, <2>1, <2>2, BlobStays
  <1>11. BlobBounded'
    <2>1. \A c \in DOMAIN blobs' : Bytes(blobs'[c].data) <= MaxBlob + ChunkSize
      BY <1>4 DEF UploadInv, BlobBounded
    <2>2. \A size \in refused' : MaxBlob < CipherSize(size) /\ size <= MaxFile
      <3>1. bytes > MaxBlob => MaxBlob < CipherSize(u.size)
        BY <1>3, <1>4, BlobNumbers
      <3>2. QED
        BY <1>1, <1>3, <3>1 DEF UploadInv, BlobBounded
    <2>3. QED
      BY <2>1, <2>2 DEF BlobBounded
  <1>12. QED
    BY <1>8, <1>9, <1>10, <1>11 DEF UploadInv

LEMMA SendReferenceStep ==
  ASSUME UploadInv, NEW d \in Owner, NEW stored \in BOOLEAN, SendReference(d, stored)
  PROVE  UploadInv'
  <1> DEFINE u == upload[d]
             sent == [blob |-> u.blob, size |-> u.size]
  <1>1. /\ u.at = "created" /\ ChunkBytes(u.size, u.next) = 0
        /\ fileSent' \in {fileSent, fileSent \union {sent}}
        /\ upload' = [upload EXCEPT ![d] = NoUpload]
        /\ UNCHANGED <<blobs, refused, download, saved>>
    BY DEF SendReference, UploadEnds
  <1>2. /\ blobs \in Seq(Blob) /\ DOMAIN blobs \subseteq BlobId /\ upload \in [Owner -> Uploading]
        /\ u \in Uploading /\ Uploads(blobs, fileSent, u, d)
    BY TypeParts DEF UploadInv
  <1>3. u.size \in FileSize /\ Grows(blobs, u, d) /\ u.next \in Nat
    BY <1>1, <1>2 DEF Uploads, Uploading
  <1>4. sent.blob = u.blob /\ sent.size = u.size
    OBVIOUS
  <1> HIDE DEF u
  <1>5. /\ u.blob \in DOMAIN blobs /\ blobs[u.blob].owner = d /\ InPieces(blobs[u.blob])
        /\ Len(blobs[u.blob].data) + 1 = u.next
        /\ Bytes(blobs[u.blob].data) = BytesBefore(u.size, u.next)
    BY <1>3 DEF Grows
  <1>6. u.next \in Nat \ {0}
    <2>1. blobs[u.blob] \in Blob
      BY <1>2, <1>5
    <2>2. Len(blobs[u.blob].data) \in Nat
      BY <2>1 DEF Blob
    <2>3. QED
      BY <1>3, <1>5, <2>2
  <1>7. Complete(blobs, sent)
    BY <1>1, <1>3, <1>4, <1>5, <1>6, LastChunk DEF Complete
  <1>8. sent \in [blob : BlobId, size : FileSize]
    BY <1>2, <1>3, <1>5
  <1> HIDE DEF sent
  <1>9. upload' \in [Owner -> Uploading]
    BY <1>1, <1>2, IdleUploads
  <1>10. BlobTypeOK'
    <2>1. /\ fileSent' \subseteq [blob : BlobId, size : FileSize]
          /\ download' \subseteq fileSent' /\ saved' \subseteq fileSent'
      BY <1>1, <1>8, TypeParts DEF UploadInv
    <2>2. QED
      BY <1>1, <1>9, <2>1 DEF UploadInv, BlobTypeOK, Uploading
  <1>11. \A file \in fileSent' : Complete(blobs', file)
    BY <1>1, <1>7 DEF UploadInv
  <1>12. BlobBounded'
    BY <1>1 DEF UploadInv, BlobBounded
  <1>13. ASSUME NEW e \in Owner
         PROVE  Uploads(blobs', fileSent', upload'[e], e)
    <2>1. CASE e = d
      BY <1>1, <1>2, <2>1, IdleUploads DEF Uploads
    <2>2. CASE e # d
      <3>1. upload'[e] = upload[e] /\ Uploads(blobs, fileSent, upload[e], e)
        BY <1>1, <1>2, <2>2 DEF UploadInv
      <3>2. upload[e].at = "created" => upload[e].blob # sent.blob
        BY <1>4, <1>5, <2>2, <3>1 DEF Uploads, Grows
      <3>3. QED
        BY <1>1, <3>1, <3>2 DEF Uploads
    <2>3. QED
      BY <2>1, <2>2
  <1>14. QED
    BY <1>10, <1>11, <1>12, <1>13 DEF UploadInv

\* Nothing that the invariant is about, but what is fetched.
LEMMA SaveStep ==
  ASSUME UploadInv, UNCHANGED <<blobs, upload, fileSent, refused>>,
         download' \subseteq fileSent, saved' \subseteq fileSent
  PROVE  UploadInv'
  <1>1. BlobTypeOK'
    BY DEF UploadInv, BlobTypeOK
  <1>2. BlobBounded'
    BY DEF UploadInv, BlobBounded
  <1>3. QED
    BY <1>1, <1>2 DEF UploadInv

LEMMA UploadPreserved == UploadInv /\ [BlobNext]_blobVars => UploadInv'
  <1> SUFFICES ASSUME UploadInv, [BlobNext]_blobVars
               PROVE  UploadInv'
    OBVIOUS
  <1>1. download \subseteq fileSent /\ saved \subseteq fileSent
    BY TypeParts DEF UploadInv
  <1>2. ASSUME NEW d \in Owner, NEW size \in FileSize,
               SendFile(d, size) \/ ReadFile(d, size) \/ UploadWhole(d, size)
        PROVE  UploadInv'
    BY <1>2, WorkerStep, UploadWholeStep
  <1>3. ASSUME NEW d \in Owner, NEW answered \in BOOLEAN,
               CreateBlob(d, answered) \/ AppendChunk(d, answered) \/ SendReference(d, answered)
        PROVE  UploadInv'
    BY <1>3, CreateBlobStep, AppendChunkStep, SendReferenceStep
  <1>4. ASSUME NEW d \in Owner, UploadAborts(d)
        PROVE  UploadInv'
    BY <1>4, IdleUploads, UploadEndsUploads, UploadMoves DEF UploadAborts, UploadEnds
  <1>5. ASSUME NEW file \in fileSent, SaveStart(file)
        PROVE  UploadInv'
    BY <1>1, <1>5, SaveStep DEF SaveStart
  <1>6. ASSUME NEW file \in fileSent, NEW answered \in BOOLEAN, SaveEnd(file, answered)
        PROVE  UploadInv'
    <2>1. /\ UNCHANGED <<blobs, upload, fileSent, refused>>
          /\ download' \subseteq fileSent /\ saved' \subseteq fileSent
      BY <1>1, <1>6 DEF SaveEnd
    <2>2. QED
      BY <2>1, SaveStep
  <1>7. CASE UNCHANGED blobVars
    BY <1>1, <1>7, SaveStep DEF blobVars
  <1>8. QED
    BY <1>2, <1>3, <1>4, <1>5, <1>6, <1>7 DEF BlobNext

\* The inductive invariant of the files on their way.
LEMMA UploadInvariant == BlobSpec => []UploadInv
  BY UploadInitial, UploadPreserved, PTL DEF BlobSpec

\* For any number of devices and blobs, any sizes of files, and any limits.
THEOREM ReferencedCompleteHolds == BlobSpec => []ReferencedComplete
  <1>1. UploadInv => ReferencedComplete
    BY DEF UploadInv, ReferencedComplete, Decrypts, Complete, InPieces
  <1>2. QED
    BY <1>1, UploadInvariant, PTL

\* The same invariant bounds what the server keeps.
THEOREM BlobBoundedHolds == BlobSpec => []BlobBounded
  <1>1. UploadInv => BlobBounded
    BY DEF UploadInv
  <1>2. QED
    BY <1>1, UploadInvariant, PTL

(***************************************************************************)
(* PeerTrust: a session from a key that was never pinned is warned of, or  *)
(* will be.                                                                *)
(***************************************************************************)
TrustSpec == TrustInit /\ [][TrustNext]_trustVars

\* Of the identity keys there are, and none.
Key == {NoPin} \union Identity

LEMMA Keys == NoPin \in Key /\ Key = 0 .. MaxChanges + 1 /\ Key \ {NoPin} = Identity
  BY TrustAssumption DEF Key, NoPin, Identity

\* A bundle as the server gave it out.
Offer == [peer : Peer, key : Key \ {NoPin}]

\* A worker that has fetched a bundle has its key, and no other has one.
WorkerRecord == [at : {"idle", "started", "fetched", "derived"}, peer : Peer \union {NoPeer}, key : Key]

Worker ==
  {w \in WorkerRecord :
     /\ w.at \in {"fetched", "derived"} => w.peer \in Peer /\ w.key # NoPin
     /\ w.at = "started" => w.peer \in Peer
     /\ w.at \in {"idle", "started"} => w.key = NoPin}

\* The bundle of a peer is held until the loop is through with the peer, and the one a
\* refresh goes with is in the result.
Holds(w) ==
  w.hold # <<>> =>
    /\ w.hold[1].peer \in w.todo
    /\ w.at = "comparing" => \E i \in DOMAIN w.mappings : w.mappings[i] = w.hold[1]

SyncRecord ==
  [at : {"idle", "deriving", "comparing"}, batch : SUBSET Peer, todo : SUBSET Peer,
   snapshot : [Peer -> Key], hold : Seq(Offer), mappings : Seq(Offer)]

SyncWorker == {w \in SyncRecord : Holds(w)}

TrustTypes ==
  /\ current \in [Peer -> Key \ {NoPin}]
  /\ session \in [Peer -> Key]
  /\ pinned \in [Peer -> Key] /\ pinsFile \in [Peer -> Key]
  /\ warned \in Peer \union {NoPeer}
  /\ opening \in Worker /\ trusting \in Worker
  /\ syncing \in SyncWorker
  /\ accepted \in [Peer -> SUBSET (Key \ {NoPin})]
  /\ slipped \subseteq Peer

\* A bundle of some result that has the key.
Carries(p, key, sync, open, trust) ==
  \/ \E i \in DOMAIN sync.mappings : sync.mappings[i].peer = p /\ sync.mappings[i].key = key
  \/ open.peer = p /\ open.key = key
  \/ trust.peer = p /\ trust.key = key

SessionsWarned ==
  \A p \in Peer : Unaccepted(p) =>
    p \in slipped \/ p = warned \/ Carries(p, session[p], syncing, opening, trusting)

TrustInv == TrustTypes /\ SessionsWarned

\* The changes of keys that there were: KeyChange counts them.
Changes == {change \in Peer \X (2 .. MaxChanges + 1) : change[2] <= current[change[1]]}

\* What the type invariant says of the worker that syncs and of the bounds.
TrustShape ==
  /\ syncing.todo \subseteq syncing.batch /\ Len(syncing.hold) <= 1
  /\ flows \in 0 .. MaxFlows
  /\ IsFiniteSet(Changes)

-----------------------------------------------------------------------------
\* What has come of a bundle that was compared.
Met(state, m) == state.pinned[m.peer] = m.key \/ m.peer \in {state.warned} \union state.hidden

Comparing == [pinned : [Peer -> Key], warned : Peer \union {NoPeer}, hidden : SUBSET Peer]

LEMMA VerifiedMeets ==
  ASSUME NEW state \in Comparing, NEW m \in Offer
  PROVE  /\ Verified(state, m) \in Comparing
         /\ Met(Verified(state, m), m)
         /\ \A o \in Offer : Met(state, o) => Met(Verified(state, m), o)
         /\ state.warned \in {Verified(state, m).warned, NoPeer} \union Verified(state, m).hidden
         /\ state.hidden \subseteq {Verified(state, m).warned} \union Verified(state, m).hidden
  <1> DEFINE warning == [state EXCEPT !.warned = m.peer,
                                      !.hidden = (@ \union {state.warned}) \ {m.peer, NoPeer}]
             pinning == [state EXCEPT !.pinned[m.peer] = m.key]
  <1>1. /\ m.peer \in Peer /\ m.key \in Key /\ m.key # NoPin
        /\ state.pinned \in [Peer -> Key] /\ state.warned \in Peer \union {NoPeer}
        /\ state.hidden \subseteq Peer
    BY DEF Offer, Comparing
  <1>2. CASE state.pinned[m.peer] \notin {NoPin, m.key}
    <2>1. Verified(state, m) = warning
      BY <1>2 DEF Verified
    <2>2. /\ warning.pinned = state.pinned /\ warning.warned = m.peer
          /\ warning.hidden = (state.hidden \union {state.warned}) \ {m.peer, NoPeer}
      BY DEF Comparing
    <2>3. warning \in Comparing
      BY <1>1 DEF Comparing
    <2> HIDE DEF warning
    <2>4. NoPeer \notin Peer
      BY TrustAssumption
    <2>5. \A o \in Offer : o.peer \in Peer
      BY DEF Offer
    <2>6. QED
      BY <1>1, <2>1, <2>2, <2>3, <2>4, <2>5 DEF Met
  <1>3. CASE state.pinned[m.peer] \in {NoPin, m.key} /\ state.pinned[m.peer] # NoPin
    <2>1. Verified(state, m) = state /\ state.pinned[m.peer] = m.key
      BY <1>3 DEF Verified
    <2>2. QED
      BY <1>1, <2>1 DEF Met
  <1>4. CASE state.pinned[m.peer] = NoPin
    <2>1. Verified(state, m) = pinning
      BY <1>4 DEF Verified
    <2>2. /\ pinning.pinned = [state.pinned EXCEPT ![m.peer] = m.key]
          /\ pinning.warned = state.warned /\ pinning.hidden = state.hidden
      BY DEF Comparing
    <2>3. pinning \in Comparing
      BY <1>1 DEF Comparing
    <2> HIDE DEF pinning
    <2>4. pinning.pinned[m.peer] = m.key /\ \A p \in Peer : p # m.peer => pinning.pinned[p] = state.pinned[p]
      BY <1>1, <2>2
    <2>5. \A o \in Offer : o.peer \in Peer /\ o.key # NoPin
      BY DEF Offer
    <2>6. QED
      BY <1>1, <1>4, <2>1, <2>2, <2>3, <2>4, <2>5 DEF Met
  <1>5. QED
    BY <1>2, <1>3, <1>4

LEMMA AllMet ==
  ASSUME NEW state \in Comparing, NEW bundles \in Seq(Offer)
  PROVE  LET after == VerifiedAll(state, bundles) IN
         /\ after \in Comparing
         /\ \A i \in DOMAIN bundles : Met(after, bundles[i])
         /\ state.warned \in {after.warned, NoPeer} \union after.hidden
  <1>1. PICK n \in Nat : n = Len(bundles) /\ DOMAIN bundles = 1 .. n
    OBVIOUS
  <1>2. \A i \in 1 .. n : bundles[i] \in Offer
    BY <1>1
  <1> DEFINE F == [call \in Comparing \X (1 .. n) |-> Verified(call[1], bundles[call[2]])]
             IsAfter(g) == g = [i \in 0 .. n |-> IF i = 0 THEN state ELSE Verified(g[i - 1], bundles[i])]
             after == CHOOSE g : IsAfter(g)
             Sofar(i) == /\ after[i] \in Comparing
                         /\ \A j \in 1 .. i : Met(after[i], bundles[j])
                         /\ state.warned \in {after[i].warned, NoPeer} \union after[i].hidden
             Kept == {i \in Nat : i <= n => Sofar(i)}
  <1>3. F \in StepFunctions(Comparing, n)
    BY <1>2, VerifiedMeets DEF StepFunctions
  <1>4. PICK g \in [0 .. n -> Comparing] : g[0] = state /\ \A i \in 1 .. n : g[i] = F[<<g[i - 1], i>>]
    <2> HIDE DEF F
    <2>1. PICK g : g \in Courses(Comparing, n, state, F)
      BY <1>3, StepsExist
    <2>2. QED
      BY <2>1 DEF Courses
  <1>5. \A i \in 1 .. n : g[i] = Verified(g[i - 1], bundles[i])
    <2> TAKE i \in 1 .. n
    <2>1. g[i - 1] \in Comparing
      BY <1>4
    <2>2. QED
      BY <1>4, <2>1
  <1>6. \A i \in 0 .. n : g[i] = IF i = 0 THEN state ELSE Verified(g[i - 1], bundles[i])
    BY <1>4, <1>5
  <1>7. IsAfter(g)
    BY <1>4, <1>6
  <1>8. IsAfter(after)
    BY <1>7
  <1>9. VerifiedAll(state, bundles) = after[n]
    BY <1>1, Zenon DEF VerifiedAll, after
  <1> HIDE DEF after
  <1>10. after[0] = state /\ \A i \in 1 .. n : after[i] = Verified(after[i - 1], bundles[i])
    BY <1>8
  <1>11. 0 \in Kept
    <2>1. Sofar(0)
      BY <1>10
    <2>2. QED
      BY <2>1
  <1>12. ASSUME NEW i \in Nat, i \in Kept
         PROVE  i + 1 \in Kept
    <2>1. CASE i + 1 <= n
      <3>1. Sofar(i)
        BY <1>12, <2>1
      <3>2. after[i + 1] = Verified(after[i], bundles[i + 1]) /\ bundles[i + 1] \in Offer
        BY <1>2, <1>10, <2>1
      <3>3. \A j \in 1 .. i : bundles[j] \in Offer
        BY <1>2, <2>1
      <3> DEFINE a == after[i]
                 b == after[i + 1]
      <3> HIDE DEF a, b, Kept
      <3>4. /\ a \in Comparing /\ b = Verified(a, bundles[i + 1])
            /\ \A j \in 1 .. i : Met(a, bundles[j])
            /\ state.warned \in {a.warned, NoPeer} \union a.hidden
        BY <3>1, <3>2 DEF a, b
      <3>5. /\ b \in Comparing /\ Met(b, bundles[i + 1])
            /\ \A o \in Offer : Met(a, o) => Met(b, o)
            /\ a.warned \in {b.warned, NoPeer} \union b.hidden
            /\ a.hidden \subseteq {b.warned} \union b.hidden
        BY <3>2, <3>4, VerifiedMeets
      <3>6. \A j \in 1 .. i + 1 : Met(b, bundles[j])
        BY <3>3, <3>4, <3>5
      <3>7. state.warned \in {b.warned, NoPeer} \union b.hidden
        BY <3>4, <3>5
      <3>8. Sofar(i + 1)
        BY <3>5, <3>6, <3>7 DEF b
      <3>9. QED
        BY <3>8 DEF Kept
    <2>2. QED
      BY <2>1
  <1> HIDE DEF Kept
  <1>13. n \in Kept
    BY <1>11, <1>12, SetInduction
  <1>14. Sofar(n)
    BY <1>13 DEF Kept
  <1>15. QED
    BY <1>1, <1>9, <1>14

-----------------------------------------------------------------------------
LEMMA CarriedOf == UnpinnedSessionWarned <=> SessionsWarned
  <1> DEFINE of == {syncing.mappings[i] : i \in DOMAIN syncing.mappings}
  <1>1. ASSUME NEW p \in Peer
        PROVE  (\E m \in Carried : m.peer = p /\ m.key = session[p])
                 <=> Carries(p, session[p], syncing, opening, trusting)
    <2>1. Carried = of \union {opening, trusting}
      BY Zenon DEF Carried
    <2>2. (\E m \in of : m.peer = p /\ m.key = session[p])
            <=> \E i \in DOMAIN syncing.mappings :
                  syncing.mappings[i].peer = p /\ syncing.mappings[i].key = session[p]
      OBVIOUS
    <2> HIDE DEF of
    <2>3. QED
      BY <2>1, <2>2, Zenon DEF Carries
  <1>2. QED
    BY <1>1, Zenon DEF UnpinnedSessionWarned, SessionsWarned

LEMMA SlipStep ==
  ASSUME TrustTypes, NEW peers \in SUBSET Peer, Slip(peers), pinned' \in [Peer -> Key]
  PROVE  /\ accepted' \in [Peer -> SUBSET (Key \ {NoPin})]
         /\ slipped' \subseteq Peer
         /\ \A p \in Peer : accepted[p] \subseteq accepted'[p] /\ (pinned'[p] # NoPin => pinned'[p] \in accepted'[p])
         /\ \A p \in Peer : (p \in slipped \/ p \in peers) /\ Unaccepted(p)' => p \in slipped'
  <1>1. accepted' = [p \in Peer |-> accepted[p] \union ({pinned'[p]} \ {NoPin})]
    BY DEF Slip
  <1>2. slipped' = {p \in slipped \union peers : Unaccepted(p)'}
    BY DEF Slip
  <1>3. accepted \in [Peer -> SUBSET (Key \ {NoPin})] /\ slipped \subseteq Peer
    BY DEF TrustTypes
  <1>4. accepted' \in [Peer -> SUBSET (Key \ {NoPin})]
    BY <1>1, <1>3
  <1>5. \A p \in Peer : accepted[p] \subseteq accepted'[p] /\ (pinned'[p] # NoPin => pinned'[p] \in accepted'[p])
    BY <1>1
  <1>6. slipped' \subseteq Peer
    BY <1>2, <1>3
  <1>7. \A p \in Peer : (p \in slipped \/ p \in peers) /\ Unaccepted(p)' => p \in slipped'
    BY <1>2, Zenon
  <1>8. QED
    BY <1>4, <1>5, <1>6, <1>7

\* A session that is as it was, and accepted later, was not accepted before.
LEMMA StillUnaccepted ==
  ASSUME NEW p \in Peer, Unaccepted(p)', session'[p] = session[p], accepted[p] \subseteq accepted'[p]
  PROVE  Unaccepted(p)
  BY DEF Unaccepted

\* A result is applied: what it carried is pinned, warned of, or slipped.
LEMMA ApplyStep ==
  ASSUME TrustTypes, NEW bundles \in Seq(Offer), NEW toFile, Apply(bundles, toFile)
  PROVE  /\ pinned' \in [Peer -> Key] /\ pinsFile' \in [Peer -> Key]
         /\ warned' \in Peer \union {NoPeer}
         /\ accepted' \in [Peer -> SUBSET (Key \ {NoPin})] /\ slipped' \subseteq Peer
         /\ UNCHANGED <<current, session>>
         /\ \A p \in Peer : Unaccepted(p)' /\ p \notin slipped' /\ p # warned' =>
              /\ Unaccepted(p) /\ p \notin slipped /\ p # warned
              /\ \A i \in DOMAIN bundles : ~(bundles[i].peer = p /\ bundles[i].key = session[p])
  <1> DEFINE before == [pinned |-> pinned, warned |-> warned, hidden |-> {}]
             result == VerifiedAll(before, bundles)
  <1>1. before \in Comparing /\ before.warned = warned
    BY DEF TrustTypes, Comparing
  <1> HIDE DEF before
  <1>2. /\ result \in Comparing
        /\ \A i \in DOMAIN bundles : Met(result, bundles[i])
        /\ warned \in {result.warned, NoPeer} \union result.hidden
    BY <1>1, AllMet
  <1>3. /\ pinned' = result.pinned /\ warned' = result.warned
        /\ pinsFile' = IF toFile THEN result.pinned ELSE pinsFile
        /\ UNCHANGED <<current, session>>
        /\ Slip(result.hidden)
    BY DEF Apply, before
  <1> HIDE DEF result
  <1>4. result.pinned \in [Peer -> Key] /\ result.warned \in Peer \union {NoPeer} /\ result.hidden \subseteq Peer
    BY <1>2 DEF Comparing
  <1>5. pinned' \in [Peer -> Key] /\ pinsFile' \in [Peer -> Key] /\ warned' \in Peer \union {NoPeer}
    BY <1>3, <1>4 DEF TrustTypes
  <1>6. /\ accepted' \in [Peer -> SUBSET (Key \ {NoPin})] /\ slipped' \subseteq Peer
        /\ \A p \in Peer : accepted[p] \subseteq accepted'[p] /\ (pinned'[p] # NoPin => pinned'[p] \in accepted'[p])
        /\ \A p \in Peer : (p \in slipped \/ p \in result.hidden) /\ Unaccepted(p)' => p \in slipped'
    BY <1>3, <1>4, <1>5, SlipStep
  <1>7. ASSUME NEW p \in Peer, Unaccepted(p)', p \notin slipped', p # warned'
        PROVE  /\ Unaccepted(p) /\ p \notin slipped /\ p # warned
               /\ \A i \in DOMAIN bundles : ~(bundles[i].peer = p /\ bundles[i].key = session[p])
    <2>1. Unaccepted(p)
      BY <1>3, <1>6, <1>7, StillUnaccepted
    <2>2. p \notin slipped /\ p \notin result.hidden
      BY <1>6, <1>7
    <2>3. p # warned
      BY <1>2, <1>3, <1>7, <2>2, TrustAssumption
    <2>4. session[p] # NoPin /\ session[p] \notin accepted'[p]
      BY <1>3, <1>7 DEF Unaccepted
    <2>5. ASSUME NEW i \in DOMAIN bundles, bundles[i].peer = p, bundles[i].key = session[p]
          PROVE  FALSE
      <3>1. result.pinned[p] = session[p]
        BY <1>2, <1>3, <1>7, <2>2, <2>5 DEF Met
      <3>2. pinned'[p] \in accepted'[p]
        BY <1>3, <1>6, <2>4, <3>1
      <3>3. QED
        BY <1>3, <2>4, <3>1, <3>2
    <2>6. QED
      BY <2>1, <2>2, <2>3, <2>5
  <1>8. QED
    BY <1>3, <1>5, <1>6, <1>7

-----------------------------------------------------------------------------
\* The workers' records.
LEMMA Workers ==
  /\ Idle \in Worker /\ Idle.at = "idle" /\ Idle.key = NoPin
  /\ \A p \in Peer : [Idle EXCEPT !.at = "started", !.peer = p] \in Worker
  /\ \A p \in Peer : [Idle EXCEPT !.at = "started", !.peer = p].key = NoPin
  <1>1. Idle \in Worker /\ Idle.at = "idle" /\ Idle.key = NoPin
    BY Keys DEF Idle, Worker, WorkerRecord
  <1>2. ASSUME NEW p \in Peer
        PROVE  /\ [Idle EXCEPT !.at = "started", !.peer = p] \in Worker
               /\ [Idle EXCEPT !.at = "started", !.peer = p].key = NoPin
    <2>1. [Idle EXCEPT !.at = "started", !.peer = p] \in WorkerRecord
      BY Keys DEF Idle, WorkerRecord
    <2>2. /\ [Idle EXCEPT !.at = "started", !.peer = p].at = "started"
          /\ [Idle EXCEPT !.at = "started", !.peer = p].peer = p
          /\ [Idle EXCEPT !.at = "started", !.peer = p].key = NoPin
      BY DEF Idle
    <2>3. QED
      BY <2>1, <2>2 DEF Worker
  <1>3. QED
    BY <1>1, <1>2

LEMMA WorkerFetches ==
  ASSUME NEW w \in Worker, w.at = "started", NEW k \in Key \ {NoPin}
  PROVE  /\ [w EXCEPT !.at = "fetched", !.key = k] \in Worker
         /\ w.peer \in Peer /\ w.key = NoPin
         /\ [w EXCEPT !.at = "fetched", !.key = k].peer = w.peer
         /\ [w EXCEPT !.at = "fetched", !.key = k].key = k
  <1>1. w.peer \in Peer /\ w.key = NoPin /\ w \in WorkerRecord
    BY DEF Worker
  <1>2. [w EXCEPT !.at = "fetched", !.key = k] \in WorkerRecord
    BY <1>1 DEF WorkerRecord
  <1>3. /\ [w EXCEPT !.at = "fetched", !.key = k].at = "fetched"
        /\ [w EXCEPT !.at = "fetched", !.key = k].peer = w.peer
        /\ [w EXCEPT !.at = "fetched", !.key = k].key = k
    BY <1>1 DEF WorkerRecord
  <1>4. [w EXCEPT !.at = "fetched", !.key = k] \in Worker
    BY <1>1, <1>2, <1>3 DEF Worker
  <1>5. QED
    BY <1>1, <1>3, <1>4

LEMMA WorkerDerives ==
  ASSUME NEW w \in Worker, w.at = "fetched"
  PROVE  LET v == [w EXCEPT !.at = "derived"] IN
         /\ v \in Worker /\ v.peer = w.peer /\ v.key = w.key
         /\ w.peer \in Peer /\ w.key \in Key \ {NoPin}
  <1>1. w.peer \in Peer /\ w.key # NoPin /\ w.key \in Key /\ w \in WorkerRecord
    BY DEF Worker, WorkerRecord
  <1>2. [w EXCEPT !.at = "derived"] \in WorkerRecord
    BY <1>1 DEF WorkerRecord
  <1>3. /\ [w EXCEPT !.at = "derived"].at = "derived"
        /\ [w EXCEPT !.at = "derived"].peer = w.peer
        /\ [w EXCEPT !.at = "derived"].key = w.key
    BY <1>1 DEF WorkerRecord
  <1>4. [w EXCEPT !.at = "derived"] \in Worker
    BY <1>1, <1>2, <1>3 DEF Worker
  <1>5. QED
    BY <1>1, <1>3, <1>4

-----------------------------------------------------------------------------
\* What was carried still is, where no worker that had a key lost it.
LEMMA CarriesMore ==
  ASSUME NEW p, NEW key \in Key \ {NoPin}, NEW sync, NEW open, NEW trust, NEW sync2, NEW open2, NEW trust2,
         \A i \in DOMAIN sync.mappings :
           \E j \in DOMAIN sync2.mappings : sync2.mappings[j] = sync.mappings[i],
         open.key = NoPin \/ (open2.peer = open.peer /\ open2.key = open.key),
         trust.key = NoPin \/ (trust2.peer = trust.peer /\ trust2.key = trust.key),
         Carries(p, key, sync, open, trust)
  PROVE  Carries(p, key, sync2, open2, trust2)
  <1>1. CASE \E i \in DOMAIN sync.mappings : sync.mappings[i].peer = p /\ sync.mappings[i].key = key
    BY <1>1 DEF Carries
  <1>2. CASE open.peer = p /\ open.key = key
    BY <1>2 DEF Carries
  <1>3. CASE trust.peer = p /\ trust.key = key
    BY <1>3 DEF Carries
  <1>4. QED
    BY <1>1, <1>2, <1>3, Zenon DEF Carries

\* A step that forgets nothing of what the workers carry.
Carrying ==
  \A p \in Peer, key \in Key \ {NoPin} :
    Carries(p, key, syncing, opening, trusting) => Carries(p, key, syncing', opening', trusting')

LEMMA SameMappings ==
  ASSUME NEW sync, NEW sync2, sync2.mappings = sync.mappings
  PROVE  \A i \in DOMAIN sync.mappings :
           \E j \in DOMAIN sync2.mappings : sync2.mappings[j] = sync.mappings[i]
  OBVIOUS

LEMMA UnacceptedKey == ASSUME TrustTypes, NEW p \in Peer, Unaccepted(p) PROVE session[p] \in Key \ {NoPin}
  BY DEF TrustTypes, Unaccepted

LEMMA QuietStep ==
  ASSUME TrustInv, UNCHANGED <<session, warned, accepted, slipped>>, Carrying
  PROVE  SessionsWarned'
  <1> SUFFICES ASSUME NEW p \in Peer, Unaccepted(p)', p \notin slipped', p # warned'
               PROVE  Carries(p, session'[p], syncing', opening', trusting')
    BY DEF SessionsWarned
  <1>1. Unaccepted(p) /\ session'[p] = session[p]
    BY DEF Unaccepted
  <1>2. Carries(p, session[p], syncing, opening, trusting) /\ session[p] \in Key \ {NoPin}
    BY <1>1, UnacceptedKey DEF TrustInv, SessionsWarned
  <1>3. QED
    BY <1>1, <1>2 DEF Carrying

\* A step whose sessions are derived from a bundle that is carried, or slip.
LEMMA SlipKeeps ==
  ASSUME TrustInv, NEW peers \in SUBSET Peer, Slip(peers), pinned' \in [Peer -> Key],
         Carrying, warned' = warned \/ warned \in peers \union {NoPeer},
         \A p \in Peer : \/ session'[p] = session[p] \/ session'[p] = NoPin \/ p \in peers
                         \/ Carries(p, session'[p], syncing', opening', trusting')
  PROVE  SessionsWarned'
  <1> SUFFICES ASSUME NEW p \in Peer, Unaccepted(p)', p \notin slipped', p # warned'
               PROVE  Carries(p, session'[p], syncing', opening', trusting')
    BY DEF SessionsWarned
  <1>1. /\ accepted[p] \subseteq accepted'[p]
        /\ p \notin slipped /\ p \notin peers
    BY SlipStep DEF TrustInv
  <1>2. session'[p] # NoPin
    BY DEF Unaccepted
  <1>3. CASE session'[p] = session[p]
    <2>1. Unaccepted(p)
      BY <1>1, <1>3, StillUnaccepted
    <2>2. p # warned
      BY <1>1, TrustAssumption
    <2>3. Carries(p, session[p], syncing, opening, trusting) /\ session[p] \in Key \ {NoPin}
      BY <1>1, <2>1, <2>2, UnacceptedKey DEF TrustInv, SessionsWarned
    <2>4. QED
      BY <1>3, <2>3 DEF Carrying
  <1>4. QED
    BY <1>1, <1>2, <1>3

LEMMA DeriveType ==
  ASSUME TrustTypes, NEW m, m.peer \in Peer, m.key \in Key, NEW replace \in BOOLEAN, Derive(m, replace)
  PROVE  /\ session' \in [Peer -> Key]
         /\ \A p \in Peer : p # m.peer => session'[p] = session[p]
         /\ session'[m.peer] \in {session[m.peer], m.key}
  BY DEF TrustTypes, Derive

-----------------------------------------------------------------------------
\* The worker that opens a chat.
LEMMA OpeningStep ==
  ASSUME TrustInv, NEW p,
         \/ p \in Peer /\ (OpenChat(p) \/ ResetSession(p))
         \/ OpenFetch \/ OpenDerive \/ OpenFails \/ OpenApply
  PROVE  TrustInv'
  <1> USE DEF TrustInv
  <1>1. /\ opening \in Worker /\ trusting \in Worker /\ syncing \in SyncWorker
        /\ current \in [Peer -> Key \ {NoPin}] /\ session \in [Peer -> Key]
        /\ pinned \in [Peer -> Key]
    BY DEF TrustTypes
  <1>2. CASE p \in Peer /\ OpenChat(p)
    <2>1. /\ opening.key = NoPin /\ opening' \in Worker
          /\ UNCHANGED <<current, session, pinned, pinsFile, warned, syncing, trusting, accepted, slipped>>
      BY <1>2, Workers DEF OpenChat
    <2>2. Carrying
      BY <2>1, CarriesMore, SameMappings DEF Carrying
    <2>3. TrustTypes'
      BY <2>1 DEF TrustTypes
    <2>4. QED
      BY <2>1, <2>2, <2>3, QuietStep
  <1>3. CASE OpenFetch
    <2>1. opening.at = "started" /\ opening.peer \in Peer
      BY <1>1, <1>3 DEF OpenFetch, Worker
    <2>2. current[opening.peer] \in Key \ {NoPin}
      BY <1>1, <2>1
    <2>3. /\ opening.key = NoPin /\ opening' \in Worker
          /\ UNCHANGED <<current, session, pinned, pinsFile, warned, syncing, trusting, accepted, slipped>>
      BY <1>1, <1>3, <2>1, <2>2, WorkerFetches DEF OpenFetch
    <2>4. Carrying
      BY <2>3, CarriesMore, SameMappings DEF Carrying
    <2>5. TrustTypes'
      BY <2>3 DEF TrustTypes
    <2>6. QED
      BY <2>3, <2>4, <2>5, QuietStep
  <1>4. CASE OpenDerive
    <2>1. /\ opening.at = "fetched" /\ Derive(opening, FALSE) /\ Slip({})
          /\ UNCHANGED <<current, pinned, pinsFile, warned, syncing, trusting>>
      BY <1>4 DEF OpenDerive
    <2>2. /\ opening' \in Worker /\ opening'.peer = opening.peer /\ opening'.key = opening.key
          /\ opening.peer \in Peer /\ opening.key \in Key \ {NoPin}
      BY <1>1, <1>4, WorkerDerives DEF OpenDerive
    <2>3. /\ session' \in [Peer -> Key]
          /\ \A q \in Peer : q # opening.peer => session'[q] = session[q]
          /\ session'[opening.peer] \in {session[opening.peer], opening.key}
      BY <2>1, <2>2, DeriveType
    <2>4. Carrying
      BY <2>1, <2>2, CarriesMore, SameMappings DEF Carrying
    <2>5. \A q \in Peer : session'[q] = session[q] \/ Carries(q, session'[q], syncing', opening', trusting')
      BY <2>2, <2>3 DEF Carries
    <2>6. pinned' \in [Peer -> Key] /\ {} \in SUBSET Peer
      BY <1>1, <2>1
    <2>7. accepted' \in [Peer -> SUBSET (Key \ {NoPin})] /\ slipped' \subseteq Peer
      BY <2>1, <2>6, SlipStep
    <2>8. TrustTypes'
      BY <2>1, <2>2, <2>3, <2>7 DEF TrustTypes
    <2>9. SessionsWarned'
      BY <2>1, <2>4, <2>5, <2>6, SlipKeeps
    <2>10. QED
      BY <2>8, <2>9
  <1>5. CASE OpenFails
    <2>1. /\ opening.at \in {"started", "derived"} /\ opening' = Idle /\ Slip({opening.peer})
          /\ UNCHANGED <<current, session, pinned, pinsFile, warned, syncing, trusting>>
      BY <1>5 DEF OpenFails
    <2>2. opening.peer \in Peer
      BY <1>1, <2>1 DEF Worker
    <2>3. pinned' \in [Peer -> Key] /\ {opening.peer} \in SUBSET Peer
      BY <1>1, <2>1, <2>2
    <2>4. /\ accepted' \in [Peer -> SUBSET (Key \ {NoPin})] /\ slipped' \subseteq Peer
          /\ \A q \in Peer : accepted[q] \subseteq accepted'[q]
          /\ \A q \in Peer : (q \in slipped \/ q \in {opening.peer}) /\ Unaccepted(q)' => q \in slipped'
      BY <2>1, <2>3, SlipStep
    <2>5. TrustTypes'
      BY <2>1, <2>4, Workers DEF TrustTypes
    <2>6. SessionsWarned'
      <3> SUFFICES ASSUME NEW q \in Peer, Unaccepted(q)', q \notin slipped', q # warned'
                   PROVE  Carries(q, session'[q], syncing', opening', trusting')
        BY DEF SessionsWarned
      <3>1. Unaccepted(q) /\ q \notin slipped /\ q # opening.peer /\ q # warned /\ session'[q] = session[q]
        BY <2>1, <2>4, StillUnaccepted
      <3>2. Carries(q, session[q], syncing, opening, trusting)
        BY <3>1 DEF SessionsWarned
      <3>3. QED
        BY <2>1, <3>1, <3>2 DEF Carries
    <2>7. QED
      BY <2>5, <2>6
  <1>6. CASE OpenApply
    <2> DEFINE bundle == [peer |-> opening.peer, key |-> opening.key]
               saves == pinned[opening.peer] \in {NoPin, opening.key}
    <2>1. /\ opening.at = "derived" /\ opening' = Idle /\ UNCHANGED <<syncing, trusting>>
          /\ Apply(<<bundle>>, saves)
      BY <1>6 DEF OpenApply
    <2> HIDE DEF saves
    <2>2. bundle \in Offer
      BY <1>1, <2>1 DEF Worker, WorkerRecord, Offer
    <2>3. <<bundle>> \in Seq(Offer) /\ DOMAIN <<bundle>> = {1} /\ <<bundle>>[1] = bundle
      BY <2>2
    <2>4. bundle.peer = opening.peer /\ bundle.key = opening.key
      OBVIOUS
    <2> HIDE DEF bundle
    <2>5. PICK bundles \in Seq(Offer) : bundles = <<bundle>> /\ Apply(bundles, saves)
      BY <2>1, <2>3
    <2>6. /\ pinned' \in [Peer -> Key] /\ pinsFile' \in [Peer -> Key]
          /\ warned' \in Peer \union {NoPeer}
          /\ accepted' \in [Peer -> SUBSET (Key \ {NoPin})] /\ slipped' \subseteq Peer
          /\ UNCHANGED <<current, session>>
          /\ \A q \in Peer : Unaccepted(q)' /\ q \notin slipped' /\ q # warned' =>
               /\ Unaccepted(q) /\ q \notin slipped /\ q # warned
               /\ \A i \in DOMAIN bundles : ~(bundles[i].peer = q /\ bundles[i].key = session[q])
      BY <2>5, ApplyStep
    <2>7. TrustTypes'
      BY <2>1, <2>6, Workers DEF TrustTypes
    <2>8. SessionsWarned'
      <3> SUFFICES ASSUME NEW q \in Peer, Unaccepted(q)', q \notin slipped', q # warned'
                   PROVE  Carries(q, session'[q], syncing', opening', trusting')
        BY DEF SessionsWarned
      <3>1. /\ Unaccepted(q) /\ q \notin slipped /\ q # warned
            /\ ~(opening.peer = q /\ opening.key = session[q])
        BY <2>3, <2>4, <2>5, <2>6
      <3>2. Carries(q, session[q], syncing, opening, trusting)
        BY <3>1 DEF SessionsWarned
      <3>3. QED
        BY <2>1, <2>6, <3>1, <3>2 DEF Carries
    <2>9. QED
      BY <2>7, <2>8
  <1>7. CASE p \in Peer /\ ResetSession(p)
    <2>1. /\ session' = [session EXCEPT ![p] = NoPin] /\ Slip({})
          /\ opening' = opening \/ (opening = Idle /\ opening' = [Idle EXCEPT !.at = "started", !.peer = p])
          /\ UNCHANGED <<current, pinned, pinsFile, warned, syncing, trusting>>
      BY <1>7 DEF ResetSession
    <2>2. opening' \in Worker /\ (opening' = opening \/ opening.key = NoPin)
      BY <1>1, <1>7, <2>1, Workers
    <2>3. Carrying
      BY <2>1, <2>2, CarriesMore, SameMappings DEF Carrying
    <2>4. session' \in [Peer -> Key] /\ \A q \in Peer : session'[q] = session[q] \/ session'[q] = NoPin
      BY <1>1, <2>1, Keys
    <2>5. pinned' \in [Peer -> Key] /\ {} \in SUBSET Peer
      BY <1>1, <2>1
    <2>6. accepted' \in [Peer -> SUBSET (Key \ {NoPin})] /\ slipped' \subseteq Peer
      BY <2>1, <2>5, SlipStep
    <2>7. TrustTypes'
      BY <2>1, <2>2, <2>4, <2>6 DEF TrustTypes
    <2>8. SessionsWarned'
      BY <2>1, <2>3, <2>4, <2>5, SlipKeeps
    <2>9. QED
      BY <2>7, <2>8
  <1>8. QED
    BY <1>2, <1>3, <1>4, <1>5, <1>6, <1>7

-----------------------------------------------------------------------------
\* The record of the sync.
LEMMA Syncs ==
  ASSUME TrustTypes
  PROVE  /\ NoSync \in SyncWorker /\ NoSync.mappings = <<>>
         /\ \A batch \in SUBSET Peer :
              [NoSync EXCEPT !.at = "deriving", !.batch = batch, !.todo = batch, !.snapshot = pinned]
                \in SyncWorker
         /\ syncing \in SyncRecord
         /\ syncing.mappings \in Seq(Offer) /\ syncing.hold \in Seq(Offer)
         /\ \A i \in DOMAIN syncing.hold : syncing.hold[i] \in Offer
         /\ syncing.hold # <<>> => 1 \in DOMAIN syncing.hold /\ syncing.hold[1] \in Offer
         /\ Holds(syncing)
  <1>1. /\ NoSync \in SyncWorker /\ NoSync.mappings = <<>>
        /\ NoSync \in SyncRecord /\ NoSync.hold = <<>>
    <2>1. /\ NoSync.hold = <<>> /\ NoSync.mappings = <<>> /\ NoSync.at = "idle"
          /\ NoSync \in SyncRecord
      BY Keys DEF NoSync, SyncRecord
    <2>2. QED
      BY <2>1 DEF SyncWorker, Holds
  <1>2. ASSUME NEW batch \in SUBSET Peer
        PROVE  [NoSync EXCEPT !.at = "deriving", !.batch = batch, !.todo = batch, !.snapshot = pinned]
                 \in SyncWorker
    <2>1. pinned \in [Peer -> Key]
      BY DEF TrustTypes
    <2>2. PICK w \in SyncRecord : w = NoSync /\ w.hold = <<>>
      BY <1>1
    <2> DEFINE v == [w EXCEPT !.at = "deriving", !.batch = batch, !.todo = batch, !.snapshot = pinned]
    <2>3. v \in SyncRecord
      BY <2>1 DEF SyncRecord
    <2>4. v.hold = <<>>
      BY <2>2 DEF SyncRecord
    <2>5. QED
      BY <2>2, <2>3, <2>4 DEF SyncWorker, Holds
  <1>3. syncing \in SyncRecord /\ Holds(syncing)
    BY DEF TrustTypes, SyncWorker
  <1>4. /\ syncing.mappings \in Seq(Offer) /\ syncing.hold \in Seq(Offer)
    BY <1>3 DEF SyncRecord
  <1>5. /\ \A i \in DOMAIN syncing.hold : syncing.hold[i] \in Offer
        /\ syncing.hold # <<>> => 1 \in DOMAIN syncing.hold /\ syncing.hold[1] \in Offer
    BY <1>4
  <1>6. QED
    BY <1>1, <1>2, <1>3, <1>4, <1>5

-----------------------------------------------------------------------------
\* What the steps of the sync leave alone.
LEMMA SyncGoesOn ==
  ASSUME TrustInv, NEW w \in SyncRecord, syncing' = w,
         Holds(w),
         \A i \in DOMAIN syncing.mappings : \E j \in DOMAIN w.mappings : w.mappings[j] = syncing.mappings[i],
         UNCHANGED <<current, pinned, pinsFile, warned, opening, trusting>>,
         session' \in [Peer -> Key],
         \/ UNCHANGED <<session, accepted, slipped>>
         \/ \E peers \in SUBSET Peer :
              /\ Slip(peers)
              /\ \A p \in Peer : \/ session'[p] = session[p] \/ p \in peers
                                 \/ \E i \in DOMAIN w.mappings :
                                      w.mappings[i].peer = p /\ w.mappings[i].key = session'[p]
  PROVE  TrustInv'
  <1> USE DEF TrustInv
  <1>1. Carrying
    BY CarriesMore DEF Carrying
  <1>2. syncing' \in SyncWorker
    BY DEF SyncWorker
  <1>3. CASE UNCHANGED <<session, accepted, slipped>>
    <2>1. TrustTypes'
      BY <1>2, <1>3 DEF TrustTypes
    <2>2. QED
      BY <1>1, <1>3, <2>1, QuietStep
  <1>4. ASSUME NEW peers \in SUBSET Peer, Slip(peers),
               \A p \in Peer : \/ session'[p] = session[p] \/ p \in peers
                               \/ \E i \in DOMAIN w.mappings :
                                    w.mappings[i].peer = p /\ w.mappings[i].key = session'[p]
        PROVE  TrustInv'
    <2>1. pinned' \in [Peer -> Key]
      BY DEF TrustTypes
    <2>2. accepted' \in [Peer -> SUBSET (Key \ {NoPin})] /\ slipped' \subseteq Peer
      BY <1>4, <2>1, SlipStep
    <2>3. TrustTypes'
      BY <1>2, <2>2 DEF TrustTypes
    <2>4. \A p \in Peer : \/ session'[p] = session[p] \/ p \in peers
                          \/ Carries(p, session'[p], syncing', opening', trusting')
      BY <1>4 DEF Carries
    <2>5. SessionsWarned'
      BY <1>1, <1>4, <2>1, <2>4, SlipKeeps
    <2>6. QED
      BY <2>3, <2>5
  <1>5. QED
    BY <1>3, <1>4

LEMMA SyncStartStep ==
  ASSUME TrustInv, NEW batch \in SUBSET Peer, SyncStart(batch)
  PROVE  TrustInv'
  <1> USE DEF TrustInv
  <1>1. /\ syncing = NoSync /\ syncing' \in SyncWorker /\ NoSync.mappings = <<>>
        /\ UNCHANGED <<current, session, pinned, pinsFile, warned, opening, trusting, accepted, slipped>>
    BY Syncs DEF SyncStart
  <1>2. \A i \in DOMAIN syncing.mappings : FALSE
    BY <1>1
  <1>3. Carrying
    BY <1>1, <1>2, CarriesMore DEF Carrying
  <1>4. TrustTypes'
    BY <1>1 DEF TrustTypes
  <1>5. QED
    BY <1>1, <1>3, <1>4, QuietStep

\* The loops of the sync.
LEMMA SyncLoopStep ==
  ASSUME TrustInv, NEW p \in Peer, SyncFetch(p) \/ SyncCompare(p)
  PROVE  TrustInv'
  <1> USE DEF TrustInv
  <1> DEFINE given == [peer |-> p, key |-> current[p]]
             less == syncing.todo \ {p}
             more == Append(syncing.mappings, given)
  <1>1. given \in Offer
    BY DEF TrustTypes, Offer
  <1>2. /\ syncing \in SyncRecord /\ syncing.mappings \in Seq(Offer)
        /\ Holds(syncing)
    BY Syncs
  <1>3. less \in SUBSET Peer /\ syncing.batch \in SUBSET Peer
    BY <1>2 DEF SyncRecord
  <1>4. session \in [Peer -> Key]
    BY DEF TrustTypes
  <1> HIDE DEF given
  <1>5. <<given>> \in Seq(Offer) /\ <<>> \in Seq(Offer) /\ <<given>>[1] = given
    BY <1>1
  <1>6. /\ more \in Seq(Offer)
        /\ \A i \in DOMAIN syncing.mappings : i \in DOMAIN more /\ more[i] = syncing.mappings[i]
        /\ \E i \in DOMAIN more : more[i] = given
    <2>1. /\ Len(more) = Len(syncing.mappings) + 1 /\ Len(syncing.mappings) \in Nat
          /\ DOMAIN more = 1 .. Len(more) /\ DOMAIN syncing.mappings = 1 .. Len(syncing.mappings)
      BY <1>1, <1>2
    <2>2. more[Len(more)] = given /\ Len(more) \in DOMAIN more
      BY <1>1, <1>2, <2>1
    <2>3. QED
      BY <1>1, <1>2, <2>1, <2>2
  <1> HIDE DEF more, less
  <1>7. CASE SyncFetch(p)
    <2>1. /\ syncing.at = "deriving" /\ syncing.hold = <<>> /\ p \in syncing.todo
          /\ UNCHANGED <<current, session, pinned, pinsFile, warned, opening, trusting, accepted, slipped>>
          /\ \/ syncing' = [syncing EXCEPT !.hold = <<given>>]
             \/ syncing' = [syncing EXCEPT !.todo = less]
      BY <1>7 DEF SyncFetch, given, less
    <2>2. CASE syncing' = [syncing EXCEPT !.hold = <<given>>]
      <3> DEFINE w == [syncing EXCEPT !.hold = <<given>>]
      <3>1. w \in SyncRecord /\ w.at = "deriving" /\ w.hold = <<given>> /\ w.todo = syncing.todo /\ w.mappings = syncing.mappings
        <4>1. w \in SyncRecord
          BY <1>2, <1>5, <2>1 DEF SyncRecord
        <4>2. w.at = "deriving" /\ w.hold = <<given>> /\ w.todo = syncing.todo /\ w.mappings = syncing.mappings
          BY <1>2, <1>5, <2>1 DEF SyncRecord
        <4>3. QED
          BY <4>1, <4>2
      <3> HIDE DEF w
      <3>2. syncing' = w
        BY <2>2 DEF w
      <3>3. Holds(w)
        BY <1>5, <2>1, <3>1 DEF Holds, given
      <3>4. QED
        BY <1>4, <2>1, <3>1, <3>2, <3>3, SyncGoesOn
    <2>3. CASE syncing' = [syncing EXCEPT !.todo = less]
      <3> DEFINE w == [syncing EXCEPT !.todo = less]
      <3>1. w \in SyncRecord /\ w.hold = <<>> /\ w.mappings = syncing.mappings
        <4>1. w \in SyncRecord
          BY <1>2, <1>3, <2>1 DEF SyncRecord
        <4>2. w.hold = <<>> /\ w.mappings = syncing.mappings
          BY <1>2, <1>3, <2>1 DEF SyncRecord
        <4>3. QED
          BY <4>1, <4>2
      <3> HIDE DEF w
      <3>2. syncing' = w
        BY <2>3 DEF w
      <3>3. QED
        BY <1>4, <2>1, <3>1, <3>2, SyncGoesOn DEF Holds
    <2>4. QED
      BY <2>1, <2>2, <2>3
  <1>9. CASE SyncCompare(p)
    <2>1. /\ syncing.at = "comparing" /\ syncing.hold = <<>> /\ p \in syncing.todo
          /\ UNCHANGED <<current, session, pinned, pinsFile, warned, opening, trusting, accepted, slipped>>
          /\ \/ syncing' = [syncing EXCEPT !.todo = less]
             \/ syncing' = [syncing EXCEPT !.mappings = more, !.hold = <<given>>]
             \/ syncing' = [syncing EXCEPT !.mappings = more, !.todo = less]
      BY <1>9 DEF SyncCompare, given, more, less
    <2>2. CASE syncing' = [syncing EXCEPT !.todo = less]
      <3> DEFINE w == [syncing EXCEPT !.todo = less]
      <3>1. w \in SyncRecord /\ w.hold = <<>> /\ w.mappings = syncing.mappings
        <4>1. w \in SyncRecord
          BY <1>2, <1>3, <2>1 DEF SyncRecord
        <4>2. w.hold = <<>> /\ w.mappings = syncing.mappings
          BY <1>2, <1>3, <2>1 DEF SyncRecord
        <4>3. QED
          BY <4>1, <4>2
      <3> HIDE DEF w
      <3>2. syncing' = w
        BY <2>2 DEF w
      <3>3. QED
        BY <1>4, <2>1, <3>1, <3>2, SyncGoesOn DEF Holds
    <2>3. CASE syncing' = [syncing EXCEPT !.mappings = more, !.hold = <<given>>]
      <3> DEFINE w == [syncing EXCEPT !.mappings = more, !.hold = <<given>>]
      <3>1. w \in SyncRecord /\ w.hold = <<given>> /\ w.todo = syncing.todo /\ w.mappings = more
        <4>1. w \in SyncRecord
          BY <1>2, <1>5, <1>6 DEF SyncRecord
        <4>2. w.hold = <<given>> /\ w.todo = syncing.todo /\ w.mappings = more
          BY <1>2, <1>5, <1>6 DEF SyncRecord
        <4>3. QED
          BY <4>1, <4>2
      <3> HIDE DEF w
      <3>2. syncing' = w
        BY <2>3 DEF w
      <3>3. /\ \E i \in DOMAIN w.mappings : w.mappings[i] = w.hold[1]
            /\ \A i \in DOMAIN syncing.mappings : \E j \in DOMAIN w.mappings : w.mappings[j] = syncing.mappings[i]
        BY <1>5, <1>6, <3>1
      <3>4. Holds(w)
        BY <1>5, <2>1, <3>1, <3>3 DEF Holds, given
      <3>5. QED
        BY <1>4, <2>1, <3>1, <3>2, <3>3, <3>4, SyncGoesOn
    <2>4. CASE syncing' = [syncing EXCEPT !.mappings = more, !.todo = less]
      <3> DEFINE w == [syncing EXCEPT !.mappings = more, !.todo = less]
      <3>1. w \in SyncRecord /\ w.hold = <<>> /\ w.mappings = more
        <4>1. w \in SyncRecord
          BY <1>2, <1>3, <1>6, <2>1 DEF SyncRecord
        <4>2. w.hold = <<>> /\ w.mappings = more
          BY <1>2, <1>3, <1>6, <2>1 DEF SyncRecord
        <4>3. QED
          BY <4>1, <4>2
      <3> HIDE DEF w
      <3>2. syncing' = w
        BY <2>4 DEF w
      <3>3. \A i \in DOMAIN syncing.mappings : \E j \in DOMAIN w.mappings : w.mappings[j] = syncing.mappings[i]
        BY <1>6, <3>1
      <3>4. QED
        BY <1>4, <2>1, <3>1, <3>2, <3>3, SyncGoesOn DEF Holds
    <2>5. QED
      BY <2>1, <2>2, <2>3, <2>4
  <1>10. QED
    BY <1>7, <1>9

\* The peers are gone through once more.
LEMMA SyncUndecryptedStep ==
  ASSUME TrustInv, SyncUndecrypted
  PROVE  TrustInv'
  <1> USE DEF TrustInv
  <1> DEFINE w == [syncing EXCEPT !.at = "comparing", !.todo = syncing.batch]
  <1>1. /\ syncing \in SyncRecord /\ syncing.todo = {} /\ Holds(syncing)
        /\ syncing.batch \in SUBSET Peer
    BY Syncs DEF SyncUndecrypted, SyncRecord
  <1>2. /\ syncing' = w
        /\ UNCHANGED <<current, session, pinned, pinsFile, warned, opening, trusting, accepted, slipped>>
    BY DEF SyncUndecrypted
  <1>3. w \in SyncRecord
    BY <1>1 DEF SyncRecord
  <1>4. w.hold = syncing.hold /\ w.mappings = syncing.mappings
    BY <1>1 DEF SyncRecord
  <1> HIDE DEF w
  <1>5. w.hold = <<>>
    BY <1>1, <1>4 DEF Holds
  <1>6. session' \in [Peer -> Key]
    BY <1>2 DEF TrustTypes
  <1>7. QED
    BY <1>2, <1>3, <1>4, <1>5, <1>6, SyncGoesOn DEF Holds

\* A session is derived in a sync.
LEMMA SyncDeriveStep ==
  ASSUME TrustInv, SyncDerive
  PROVE  TrustInv'
  <1> USE DEF TrustInv
  <1> DEFINE held == syncing.hold[1]
             less == syncing.todo \ {held.peer}
             more == syncing.mappings \o syncing.hold
             w == [syncing EXCEPT !.hold = <<>>, !.todo = less, !.mappings = more]
  <1>1. /\ syncing.at = "deriving" /\ syncing.hold # <<>> /\ Derive(held, FALSE)
        /\ syncing' = w /\ Slip({})
        /\ UNCHANGED <<current, pinned, pinsFile, warned, opening, trusting>>
    BY DEF SyncDerive
  <1>2. /\ syncing \in SyncRecord /\ syncing.mappings \in Seq(Offer) /\ syncing.hold \in Seq(Offer)
        /\ held \in Offer /\ 1 \in DOMAIN syncing.hold
    BY <1>1, Syncs
  <1>3. less \in SUBSET Peer /\ <<>> \in Seq(Offer)
    BY <1>2 DEF SyncRecord
  <1>4. /\ more \in Seq(Offer)
        /\ \A i \in DOMAIN syncing.mappings : i \in DOMAIN more /\ more[i] = syncing.mappings[i]
        /\ \E i \in DOMAIN more : more[i] = held
    <2>1. PICK s \in Seq(Offer) : s = syncing.mappings
      BY <1>2
    <2>2. PICK t \in Seq(Offer) : t = syncing.hold /\ 1 \in DOMAIN t
      BY <1>2
    <2> DEFINE u == s \o t
    <2>3. /\ u \in Seq(Offer) /\ Len(u) = Len(s) + Len(t)
          /\ DOMAIN s = 1 .. Len(s) /\ DOMAIN t = 1 .. Len(t) /\ DOMAIN u = 1 .. Len(u)
          /\ Len(s) \in Nat /\ Len(t) \in Nat
      OBVIOUS
    <2>4. \A i \in 1 .. Len(s) : u[i] = s[i]
      OBVIOUS
    <2>5. u[Len(s) + 1] = t[1] /\ Len(s) + 1 \in DOMAIN u
      BY <2>2, <2>3
    <2>6. more = u /\ held = t[1]
      BY <2>1, <2>2
    <2> HIDE DEF u, more, held
    <2>7. \A i \in DOMAIN s : i \in DOMAIN u /\ u[i] = s[i]
      <3> TAKE i \in DOMAIN s
      <3>1. i \in 1 .. Len(s) /\ i \in 1 .. Len(u)
        BY <2>3
      <3>2. QED
        BY <2>3, <2>4, <3>1
    <2>8. \E i \in DOMAIN u : u[i] = held
      BY <2>5, <2>6
    <2>9. QED
      BY <2>1, <2>3, <2>6, <2>7, <2>8
  <1> HIDE DEF more, less, held
  <1>5. w \in SyncRecord /\ w.hold = <<>> /\ w.mappings = more
    <2>1. w \in SyncRecord
      BY <1>1, <1>2, <1>3, <1>4 DEF SyncRecord
    <2>2. w.hold = <<>> /\ w.mappings = more
      BY <1>1, <1>2, <1>3, <1>4 DEF SyncRecord
    <2>3. QED
      BY <2>1, <2>2
  <1> HIDE DEF w
  <1>6. held.peer \in Peer /\ held.key \in Key
    BY <1>2 DEF Offer
  <1>7. /\ session' \in [Peer -> Key]
        /\ \A p \in Peer : p # held.peer => session'[p] = session[p]
        /\ session'[held.peer] \in {session[held.peer], held.key}
    BY <1>1, <1>6, DeriveType
  <1>8. \A p \in Peer : \/ session'[p] = session[p] \/ p \in {}
                        \/ \E i \in DOMAIN w.mappings :
                             w.mappings[i].peer = p /\ w.mappings[i].key = session'[p]
    BY <1>4, <1>5, <1>7
  <1>9. {} \in SUBSET Peer
    OBVIOUS
  <1>10. \A i \in DOMAIN syncing.mappings : \E j \in DOMAIN w.mappings : w.mappings[j] = syncing.mappings[i]
    BY <1>4, <1>5
  <1>11. QED
    BY <1>1, <1>5, <1>7, <1>8, <1>9, <1>10, SyncGoesOn DEF Holds

\* A session is refreshed in a sync.
LEMMA SyncRefreshStep ==
  ASSUME TrustInv, SyncRefresh
  PROVE  TrustInv'
  <1> USE DEF TrustInv
  <1> DEFINE held == syncing.hold[1]
             less == syncing.todo \ {held.peer}
             w == [syncing EXCEPT !.hold = <<>>, !.todo = less]
             newer == [peer |-> held.peer, key |-> current[held.peer]]
             peers == IF current[held.peer] # held.key THEN {held.peer} ELSE {}
  <1>1. /\ syncing.at = "comparing" /\ syncing.hold # <<>>
        /\ syncing' = w
        /\ UNCHANGED <<current, pinned, pinsFile, warned, opening, trusting>>
        /\ (session' = session /\ Slip({})) \/ (Derive(newer, TRUE) /\ Slip(peers))
    BY DEF SyncRefresh
  <1>2. /\ syncing \in SyncRecord /\ syncing.mappings \in Seq(Offer) /\ held \in Offer
        /\ \E i \in DOMAIN syncing.mappings : syncing.mappings[i] = held
    BY <1>1, Syncs DEF Holds
  <1>3. less \in SUBSET Peer /\ <<>> \in Seq(Offer)
    BY <1>2 DEF SyncRecord
  <1> HIDE DEF held, less
  <1>4. held.peer \in Peer /\ held.key \in Key
    BY <1>2 DEF Offer
  <1>5. newer.peer = held.peer /\ newer.key = current[held.peer] /\ newer.key \in Key
    BY <1>4 DEF TrustTypes
  <1>6. w \in SyncRecord /\ w.hold = <<>> /\ w.mappings = syncing.mappings
    <2>1. w \in SyncRecord
      BY <1>1, <1>2, <1>3 DEF SyncRecord
    <2>2. w.hold = <<>> /\ w.mappings = syncing.mappings
      BY <1>1, <1>2, <1>3 DEF SyncRecord
    <2>3. QED
      BY <2>1, <2>2
  <1>7. peers \in SUBSET Peer /\ {} \in SUBSET Peer
    BY <1>4
  <1>8. held.peer \notin peers => newer.key = held.key
    BY <1>5
  <1> HIDE DEF w, newer, peers
  <1>9. CASE session' = session /\ Slip({})
    <2>1. session' \in [Peer -> Key]
      BY <1>9 DEF TrustTypes
    <2>2. \A p \in Peer : session'[p] = session[p]
      BY <1>9
    <2>3. QED
      BY <1>1, <1>6, <1>7, <1>9, <2>1, <2>2, SyncGoesOn DEF Holds
  <1>10. CASE Derive(newer, TRUE) /\ Slip(peers)
    <2>1. /\ session' \in [Peer -> Key]
          /\ \A p \in Peer : p # newer.peer => session'[p] = session[p]
          /\ session'[newer.peer] \in {session[newer.peer], newer.key}
      BY <1>4, <1>5, <1>10, DeriveType
    <2>2. \A p \in Peer : \/ session'[p] = session[p] \/ p \in peers
                          \/ \E i \in DOMAIN w.mappings :
                               w.mappings[i].peer = p /\ w.mappings[i].key = session'[p]
      BY <1>2, <1>5, <1>6, <1>8, <2>1
    <2>3. QED
      BY <1>1, <1>6, <1>7, <1>10, <2>1, <2>2, SyncGoesOn DEF Holds
  <1>11. QED
    BY <1>1, <1>9, <1>10

\* The result of a sync is applied.
LEMMA SyncApplyStep ==
  ASSUME TrustInv, SyncApply
  PROVE  TrustInv'
  <1> USE DEF TrustInv
  <1>1. /\ syncing' = NoSync /\ UNCHANGED <<opening, trusting>>
        /\ \E toFile \in BOOLEAN : Apply(syncing.mappings, toFile)
    BY DEF SyncApply
  <1>2. PICK bundles \in Seq(Offer) : bundles = syncing.mappings
    BY Syncs
  <1>3. PICK toFile : Apply(bundles, toFile)
    BY <1>1, <1>2
  <1>4. /\ pinned' \in [Peer -> Key] /\ pinsFile' \in [Peer -> Key]
        /\ warned' \in Peer \union {NoPeer}
        /\ accepted' \in [Peer -> SUBSET (Key \ {NoPin})] /\ slipped' \subseteq Peer
        /\ UNCHANGED <<current, session>>
        /\ \A q \in Peer : Unaccepted(q)' /\ q \notin slipped' /\ q # warned' =>
             /\ Unaccepted(q) /\ q \notin slipped /\ q # warned
             /\ \A i \in DOMAIN bundles : ~(bundles[i].peer = q /\ bundles[i].key = session[q])
    BY <1>3, ApplyStep
  <1>5. NoSync \in SyncWorker
    BY Syncs
  <1>6. TrustTypes'
    BY <1>1, <1>4, <1>5 DEF TrustTypes
  <1>7. SessionsWarned'
    <2> SUFFICES ASSUME NEW q \in Peer, Unaccepted(q)', q \notin slipped', q # warned'
                 PROVE  Carries(q, session'[q], syncing', opening', trusting')
      BY DEF SessionsWarned
    <2>1. /\ Unaccepted(q) /\ q \notin slipped /\ q # warned
          /\ \A i \in DOMAIN syncing.mappings :
               ~(syncing.mappings[i].peer = q /\ syncing.mappings[i].key = session[q])
      BY <1>2, <1>4
    <2>2. Carries(q, session[q], syncing, opening, trusting)
      BY <2>1 DEF SessionsWarned
    <2>3. QED
      BY <1>1, <1>4, <2>1, <2>2 DEF Carries
  <1>8. QED
    BY <1>6, <1>7

-----------------------------------------------------------------------------
\* The worker that refreshes the peer of a warning.
LEMMA TrustingStep ==
  ASSUME TrustInv, Trust \/ TrustFetch \/ TrustFails \/ TrustDerive \/ TrustApply
  PROVE  TrustInv'
  <1> USE DEF TrustInv
  <1>1. /\ opening \in Worker /\ trusting \in Worker /\ syncing \in SyncWorker
        /\ current \in [Peer -> Key \ {NoPin}] /\ session \in [Peer -> Key]
        /\ pinned \in [Peer -> Key] /\ warned \in Peer \union {NoPeer}
    BY DEF TrustTypes
  <1>2. CASE /\ trusting.key = NoPin /\ trusting' \in Worker
             /\ UNCHANGED <<current, session, pinned, pinsFile, warned, opening, syncing, accepted, slipped>>
    <2>1. Carrying
      BY <1>2, CarriesMore, SameMappings DEF Carrying
    <2>2. TrustTypes'
      BY <1>2 DEF TrustTypes
    <2>3. QED
      BY <1>2, <2>1, <2>2, QuietStep
  <1>3. CASE Trust
    <2>1. warned \in Peer
      BY <1>1, <1>3 DEF Trust
    <2>2. trusting.key = NoPin /\ trusting' \in Worker
      BY <1>3, <2>1, Workers DEF Trust
    <2>3. QED
      BY <1>2, <1>3, <2>2 DEF Trust
  <1>4. CASE TrustFetch
    <2>1. trusting.at = "started" /\ trusting.peer \in Peer
      BY <1>1, <1>4 DEF TrustFetch, Worker
    <2>2. current[trusting.peer] \in Key \ {NoPin}
      BY <1>1, <2>1
    <2>3. trusting.key = NoPin /\ trusting' \in Worker
      BY <1>1, <1>4, <2>1, <2>2, WorkerFetches DEF TrustFetch
    <2>4. QED
      BY <1>2, <1>4, <2>3 DEF TrustFetch
  <1>5. CASE TrustFails
    <2>1. trusting.key = NoPin /\ trusting' \in Worker
      BY <1>1, <1>5, Workers DEF TrustFails, Worker
    <2>2. QED
      BY <1>2, <1>5, <2>1 DEF TrustFails
  <1>6. CASE TrustDerive
    <2>1. /\ trusting.at = "fetched" /\ Derive(trusting, TRUE) /\ Slip({})
          /\ UNCHANGED <<current, pinned, pinsFile, warned, opening, syncing>>
      BY <1>6 DEF TrustDerive
    <2>2. /\ trusting' \in Worker /\ trusting'.peer = trusting.peer /\ trusting'.key = trusting.key
          /\ trusting.peer \in Peer /\ trusting.key \in Key \ {NoPin}
      BY <1>1, <1>6, WorkerDerives DEF TrustDerive
    <2>3. /\ session' \in [Peer -> Key]
          /\ \A q \in Peer : q # trusting.peer => session'[q] = session[q]
          /\ session'[trusting.peer] \in {session[trusting.peer], trusting.key}
      BY <2>1, <2>2, DeriveType
    <2>4. Carrying
      BY <2>1, <2>2, CarriesMore, SameMappings DEF Carrying
    <2>5. \A q \in Peer : session'[q] = session[q] \/ Carries(q, session'[q], syncing', opening', trusting')
      BY <2>2, <2>3 DEF Carries
    <2>6. pinned' \in [Peer -> Key] /\ {} \in SUBSET Peer
      BY <1>1, <2>1
    <2>7. accepted' \in [Peer -> SUBSET (Key \ {NoPin})] /\ slipped' \subseteq Peer
      BY <2>1, <2>6, SlipStep
    <2>8. TrustTypes'
      BY <2>1, <2>2, <2>3, <2>7 DEF TrustTypes
    <2>9. SessionsWarned'
      BY <2>1, <2>4, <2>5, <2>6, SlipKeeps
    <2>10. QED
      BY <2>8, <2>9
  <1>7. CASE TrustApply
    <2>1. /\ trusting.at = "derived" /\ trusting' = Idle /\ warned' = NoPeer
          /\ pinned' = [pinned EXCEPT ![trusting.peer] = trusting.key] /\ pinsFile' = pinned'
          /\ UNCHANGED <<current, session, opening, syncing>>
          /\ Slip({warned} \ {NoPeer})
      BY <1>7 DEF TrustApply
    <2>2. trusting.peer \in Peer /\ trusting.key \in Key \ {NoPin}
      BY <1>1, <2>1 DEF Worker, WorkerRecord
    <2>3. /\ pinned' \in [Peer -> Key] /\ pinned'[trusting.peer] = trusting.key
          /\ {warned} \ {NoPeer} \in SUBSET Peer
      BY <1>1, <2>1, <2>2
    <2>4. /\ accepted' \in [Peer -> SUBSET (Key \ {NoPin})] /\ slipped' \subseteq Peer
          /\ \A q \in Peer : accepted[q] \subseteq accepted'[q] /\ (pinned'[q] # NoPin => pinned'[q] \in accepted'[q])
          /\ \A q \in Peer : (q \in slipped \/ q \in {warned} \ {NoPeer}) /\ Unaccepted(q)' => q \in slipped'
      BY <2>1, <2>3, SlipStep
    <2>5. TrustTypes'
      BY <2>1, <2>3, <2>4, Workers DEF TrustTypes
    <2>6. SessionsWarned'
      <3> SUFFICES ASSUME NEW q \in Peer, Unaccepted(q)', q \notin slipped', q # warned'
                   PROVE  Carries(q, session'[q], syncing', opening', trusting')
        BY DEF SessionsWarned
      <3>1. Unaccepted(q) /\ q \notin slipped /\ q # warned /\ session'[q] = session[q]
        BY <2>1, <2>4, StillUnaccepted, TrustAssumption
      <3>2. Carries(q, session[q], syncing, opening, trusting)
        BY <3>1 DEF SessionsWarned
      <3>3. ~(trusting.peer = q /\ trusting.key = session[q])
        BY <2>2, <2>3, <2>4, <3>1 DEF Unaccepted
      <3>4. QED
        BY <2>1, <3>1, <3>2, <3>3 DEF Carries
    <2>7. QED
      BY <2>5, <2>6
  <1>8. QED
    BY <1>3, <1>4, <1>5, <1>6, <1>7

\* A peer that has changed its keys as often as it can has used the bound up.
LEMMA ChangeLeft ==
  ASSUME current \in [Peer -> Identity], IsFiniteSet(Changes), NEW p \in Peer, KeyChange(p)
  PROVE  current[p] < MaxChanges + 1
  <1> DEFINE later == 2 .. MaxChanges + 1
             own == {p} \X later
  <1>1. MaxChanges \in Nat /\ current[p] \in Nat /\ current[p] <= MaxChanges + 1
    BY TrustAssumption DEF Identity
  <1>2. IsFiniteSet(later) /\ Cardinality(later) = MaxChanges
    <2>1. IsFiniteSet(later) /\ Cardinality(later) = IF 2 > MaxChanges + 1 THEN 0 ELSE (MaxChanges + 1) - 2 + 1
      BY <1>1, FS_Interval
    <2>2. QED
      BY <1>1, <2>1
  <1>3. IsFiniteSet({p}) /\ Cardinality({p}) = 1
    BY FS_Singleton
  <1>4. Cardinality(own) = Cardinality({p}) * Cardinality(later)
    BY <1>2, <1>3, FS_Product
  <1>5. Cardinality(own) = MaxChanges
    BY <1>1, <1>2, <1>3, <1>4
  <1>6. Cardinality(Changes) < MaxChanges
    BY DEF KeyChange, Changes
  <1>7. SUFFICES ASSUME current[p] = MaxChanges + 1 PROVE FALSE
    BY <1>1
  <1>8. own \subseteq Changes
    BY <1>1, <1>7 DEF Changes
  <1>9. Cardinality(own) <= Cardinality(Changes) /\ Cardinality(Changes) \in Nat
    BY <1>8, FS_Subset, FS_CardinalityType
  <1>10. QED
    BY <1>1, <1>5, <1>6, <1>9

\* The peer changes its keys, or the program ends.
LEMMA OutsideStep ==
  ASSUME TrustInv, IsFiniteSet(Changes), (\E p \in Peer : KeyChange(p)) \/ TrustRestart
  PROVE  TrustInv'
  <1> USE DEF TrustInv
  <1>1. CASE \E p \in Peer : KeyChange(p)
    <2>1. PICK p \in Peer : KeyChange(p)
      BY <1>1
    <2>2. /\ current' = [current EXCEPT ![p] = @ + 1]
          /\ UNCHANGED <<session, pinned, pinsFile, warned, opening, syncing, trusting, accepted, slipped>>
      BY <2>1 DEF KeyChange
    <2>3. current' \in [Peer -> Key \ {NoPin}]
      <3>1. current \in [Peer -> Identity] /\ current[p] < MaxChanges + 1
        BY <2>1, ChangeLeft, Keys DEF TrustTypes
      <3>2. current[p] + 1 \in Identity
        BY <3>1, TrustAssumption DEF Identity
      <3>3. QED
        BY <2>2, <3>1, <3>2, Keys
    <2>4. TrustTypes'
      BY <2>2, <2>3 DEF TrustTypes
    <2>5. Carrying
      BY <2>2 DEF Carrying
    <2>6. QED
      BY <2>2, <2>4, <2>5, QuietStep
  <1>2. CASE TrustRestart
    <2>1. /\ pinned' = pinsFile /\ warned' = NoPeer
          /\ opening' = Idle /\ syncing' = NoSync /\ trusting' = Idle
          /\ UNCHANGED <<current, session, pinsFile>>
          /\ Slip(Peer)
      BY <1>2 DEF TrustRestart
    <2>2. pinned' \in [Peer -> Key] /\ Peer \in SUBSET Peer
      BY <2>1 DEF TrustTypes
    <2>3. /\ accepted' \in [Peer -> SUBSET (Key \ {NoPin})] /\ slipped' \subseteq Peer
          /\ \A q \in Peer : (q \in slipped \/ q \in Peer) /\ Unaccepted(q)' => q \in slipped'
      BY <2>1, <2>2, SlipStep
    <2>4. NoSync \in SyncWorker
      BY Syncs
    <2>5. TrustTypes'
      BY <2>1, <2>2, <2>3, <2>4, Workers DEF TrustTypes
    <2>6. SessionsWarned'
      BY <2>3 DEF SessionsWarned
    <2>7. QED
      BY <2>5, <2>6
  <1>3. QED
    BY <1>1, <1>2

LEMMA TrustPreserved ==
  ASSUME TrustInv, TrustShape, [TrustNext]_trustVars
  PROVE  TrustInv'
  <1>1. CASE \E p \in Peer : OpenChat(p) \/ ResetSession(p)
    BY <1>1, OpeningStep
  <1>2. CASE \E batch \in SUBSET Peer \ {{}} : SyncStart(batch)
    BY <1>2, SyncStartStep
  <1>3. CASE TrustRestart
    BY <1>3, OutsideStep DEF TrustShape
  <1>4. CASE \E p \in Peer : KeyChange(p)
    BY <1>4, OutsideStep DEF TrustShape
  <1>5. CASE \E p \in Peer : SyncFetch(p) \/ SyncCompare(p)
    BY <1>5, SyncLoopStep
  <1>6. CASE OpenFetch \/ OpenDerive \/ OpenFails \/ OpenApply
    BY <1>6, OpeningStep
  <1>7. CASE SyncUndecrypted
    BY <1>7, SyncUndecryptedStep
  <1>8. CASE SyncDerive
    BY <1>8, SyncDeriveStep
  <1>9. CASE SyncRefresh
    BY <1>9, SyncRefreshStep
  <1>10. CASE SyncApply
    BY <1>10, SyncApplyStep
  <1>11. CASE Trust \/ TrustFetch \/ TrustFails \/ TrustDerive \/ TrustApply
    BY <1>11, TrustingStep
  <1>12. CASE UNCHANGED trustVars
    <2>1. UNCHANGED <<current, session, pinned, pinsFile, warned, opening, syncing, trusting, accepted, slipped>>
      BY <1>12 DEF trustVars
    <2>2. TrustTypes'
      BY <2>1 DEF TrustInv, TrustTypes
    <2>3. Carrying
      BY <2>1 DEF Carrying
    <2>4. QED
      BY <2>1, <2>2, <2>3, QuietStep DEF TrustInv
  <1>13. QED
    BY <1>1, <1>2, <1>3, <1>4, <1>5, <1>6, <1>7, <1>8, <1>9, <1>10, <1>11, <1>12 DEF TrustNext

LEMMA TrustStarts == ASSUME TrustInit PROVE TrustInv
  <1>1. TrustTypes
    <2>1. NoSync \in SyncWorker
      BY Keys DEF NoSync, SyncWorker, SyncRecord, Holds
    <2>2. /\ current \in [Peer -> Key \ {NoPin}] /\ session \in [Peer -> Key]
          /\ pinned \in [Peer -> Key] /\ pinsFile \in [Peer -> Key]
      BY Keys, TrustAssumption DEF TrustInit, Identity
    <2>3. accepted \in [Peer -> SUBSET (Key \ {NoPin})] /\ slipped \subseteq Peer /\ warned \in Peer \union {NoPeer}
      BY DEF TrustInit
    <2>4. opening \in Worker /\ trusting \in Worker /\ syncing \in SyncWorker
      BY <2>1, Workers DEF TrustInit
    <2>5. QED
      BY <2>2, <2>3, <2>4 DEF TrustTypes
  <1>2. SessionsWarned
    BY DEF TrustInit, SessionsWarned, Unaccepted
  <1>3. QED
    BY <1>1, <1>2 DEF TrustInv

\* The worker's record of the sync in each of its steps.
LEMMA SyncShaped ==
  ASSUME TrustTypes, TrustShape, NEW p,
         \/ \E batch \in SUBSET Peer : SyncStart(batch)
         \/ p \in Peer /\ (SyncFetch(p) \/ SyncCompare(p))
         \/ SyncUndecrypted \/ SyncDerive \/ SyncRefresh \/ SyncApply
  PROVE  syncing'.todo \subseteq syncing'.batch /\ Len(syncing'.hold) <= 1
  <1>1. /\ syncing \in SyncRecord /\ NoSync \in SyncRecord
        /\ syncing.todo \subseteq syncing.batch /\ Len(syncing.hold) <= 1
        /\ syncing.batch \in SUBSET Peer /\ syncing.hold \in Seq(Offer) /\ syncing.mappings \in Seq(Offer)
    BY Syncs DEF TrustShape, SyncWorker, SyncRecord
  <1>2. NoSync.todo = {} /\ NoSync.batch = {} /\ NoSync.hold = <<>> /\ Len(<<>>) = 0
    BY DEF NoSync
  <1>3. ASSUME NEW batch \in SUBSET Peer, SyncStart(batch)
        PROVE  syncing'.todo \subseteq syncing'.batch /\ Len(syncing'.hold) <= 1
    <2>1. /\ syncing' = [NoSync EXCEPT !.at = "deriving", !.batch = batch, !.todo = batch, !.snapshot = pinned]
      BY <1>3 DEF SyncStart
    <2>2. syncing'.batch = batch /\ syncing'.todo = batch /\ syncing'.hold = NoSync.hold
      BY <2>1 DEF NoSync
    <2>3. QED
      BY <1>2, <2>2
  <1>4. ASSUME p \in Peer, SyncFetch(p) \/ SyncCompare(p)
        PROVE  syncing'.todo \subseteq syncing'.batch /\ Len(syncing'.hold) <= 1
    <2> DEFINE given == [peer |-> p, key |-> current[p]]
               more == Append(syncing.mappings, given)
    <2>1. \/ syncing' = [syncing EXCEPT !.todo = @ \ {p}]
          \/ syncing' = [syncing EXCEPT !.hold = <<given>>]
          \/ syncing' = [syncing EXCEPT !.mappings = more, !.hold = <<given>>]
          \/ syncing' = [syncing EXCEPT !.mappings = more, !.todo = @ \ {p}]
      BY <1>4 DEF SyncFetch, SyncCompare
    <2> HIDE DEF more
    <2>2. /\ syncing'.batch = syncing.batch
          /\ syncing'.todo \in {syncing.todo, syncing.todo \ {p}}
          /\ syncing'.hold \in {syncing.hold, <<given>>}
      BY <1>1, <2>1 DEF SyncRecord
    <2> HIDE DEF given
    <2> DEFINE one == <<given>>
    <2>3. Len(one) = 1
      OBVIOUS
    <2> HIDE DEF one
    <2>4. syncing'.hold = syncing.hold \/ syncing'.hold = one
      BY <2>2 DEF one
    <2>5. Len(syncing'.hold) <= 1
      <3>1. CASE syncing'.hold = syncing.hold
        BY <1>1, <3>1, Zenon
      <3>2. CASE syncing'.hold = one
        <4>1. Len(syncing'.hold) = 1
          BY <2>3, <3>2, Zenon
        <4>2. QED
          BY <4>1
      <3>3. QED
        BY <2>4, <3>1, <3>2, Zenon
    <2>6. syncing'.todo \subseteq syncing'.batch
      BY <1>1, <2>2
    <2>7. QED
      BY <2>5, <2>6
  <1>5. ASSUME SyncUndecrypted
        PROVE  syncing'.todo \subseteq syncing'.batch /\ Len(syncing'.hold) <= 1
    <2>1. syncing' = [syncing EXCEPT !.at = "comparing", !.todo = syncing.batch]
      BY <1>5 DEF SyncUndecrypted
    <2>2. syncing'.batch = syncing.batch /\ syncing'.todo = syncing.batch /\ syncing'.hold = syncing.hold
      BY <1>1, <2>1 DEF SyncRecord
    <2>3. QED
      BY <1>1, <2>2
  <1>6. ASSUME SyncDerive \/ SyncRefresh
        PROVE  syncing'.todo \subseteq syncing'.batch /\ Len(syncing'.hold) <= 1
    <2> DEFINE less == syncing.todo \ {syncing.hold[1].peer}
               more == syncing.mappings \o syncing.hold
    <2>1. \/ syncing' = [syncing EXCEPT !.hold = <<>>, !.todo = less, !.mappings = more]
          \/ syncing' = [syncing EXCEPT !.hold = <<>>, !.todo = less]
      BY <1>6 DEF SyncDerive, SyncRefresh
    <2>2. less \subseteq syncing.todo
      OBVIOUS
    <2> HIDE DEF less, more
    <2>3. syncing'.batch = syncing.batch /\ syncing'.todo = less /\ syncing'.hold = <<>>
      BY <1>1, <2>1 DEF SyncRecord
    <2>4. QED
      BY <1>1, <1>2, <2>2, <2>3
  <1>7. ASSUME SyncApply
        PROVE  syncing'.todo \subseteq syncing'.batch /\ Len(syncing'.hold) <= 1
    BY <1>2, <1>7 DEF SyncApply
  <1>8. QED
    BY <1>3, <1>4, <1>5, <1>6, <1>7

LEMMA ShapePreserved ==
  ASSUME TrustTypes, TrustShape, [TrustNext]_trustVars
  PROVE  TrustShape'
  <1>1. syncing'.todo \subseteq syncing'.batch /\ Len(syncing'.hold) <= 1
    <2>1. CASE \/ \E batch \in SUBSET Peer : SyncStart(batch)
               \/ \E p \in Peer : SyncFetch(p) \/ SyncCompare(p)
               \/ SyncUndecrypted \/ SyncDerive \/ SyncRefresh \/ SyncApply
      BY <2>1, SyncShaped
    <2>2. CASE syncing' = NoSync
      BY <2>2 DEF NoSync
    <2>3. CASE syncing' = syncing
      BY <2>3 DEF TrustShape
    <2>4. QED
      BY <2>1, <2>2, <2>3
         DEF TrustNext, trustVars, OpenChat, ResetSession, TrustRestart, KeyChange, OpenFetch, OpenDerive,
             OpenFails, OpenApply, Trust, TrustFetch, TrustFails, TrustDerive, TrustApply
  <1>2. flows' \in 0 .. MaxFlows
    BY TrustAssumption DEF TrustShape, TrustNext, trustVars
  <1>3. IsFiniteSet(Changes')
    <2>1. CASE current' = current
      BY <2>1 DEF TrustShape, Changes
    <2>2. ASSUME NEW p \in Peer, KeyChange(p)
          PROVE  IsFiniteSet(Changes')
      <3> DEFINE newer == <<p, current[p] + 1>>
      <3>1. current' = [current EXCEPT ![p] = @ + 1] /\ current \in [Peer -> Identity]
        BY <2>2, Keys DEF KeyChange, TrustTypes
      <3>2. Changes' \subseteq Changes \union {newer}
        <4> SUFFICES ASSUME NEW q \in Peer, NEW n \in 2 .. MaxChanges + 1, n <= current'[q],
                            ~(n <= current[q])
                     PROVE  <<q, n>> = newer
          BY DEF Changes
        <4>1. MaxChanges \in Nat /\ current[q] \in Nat /\ n \in Nat
          BY <3>1, TrustAssumption DEF Identity
        <4>2. q = p
          BY <3>1
        <4>3. n = current[p] + 1
          BY <3>1, <4>1, <4>2
        <4>4. QED
          BY <4>2, <4>3
      <3>3. IsFiniteSet(Changes \union {newer})
        BY FS_AddElement DEF TrustShape
      <3>4. QED
        BY <3>2, <3>3, FS_Subset
    <2>3. current' = current \/ \E p \in Peer : KeyChange(p)
      BY DEF TrustNext, trustVars, OpenChat, ResetSession, TrustRestart, OpenFetch, OpenDerive,
             OpenFails, OpenApply, Trust, TrustFetch, TrustFails, TrustDerive, TrustApply, SyncStart,
             SyncFetch, SyncCompare, SyncUndecrypted, SyncDerive, SyncRefresh, SyncApply, Apply
    <2>4. QED
      BY <2>1, <2>2, <2>3
  <1>4. QED
    BY <1>1, <1>2, <1>3 DEF TrustShape

LEMMA ShapeStarts == ASSUME TrustInit PROVE TrustShape
  <1>1. Changes = {}
    BY DEF TrustInit, Changes
  <1>2. IsFiniteSet(Changes)
    BY <1>1, FS_EmptySet
  <1>3. syncing.todo = {} /\ syncing.batch = {} /\ syncing.hold = <<>> /\ flows = 0
    BY DEF TrustInit, NoSync
  <1>4. QED
    BY <1>2, <1>3, TrustAssumption DEF TrustShape

LEMMA TrustTyped == ASSUME TrustTypes, TrustShape PROVE TrustTypeOK
  <1>1. /\ current \in [Peer -> Identity] /\ accepted \in [Peer -> SUBSET Identity]
        /\ {session, pinned, pinsFile} \subseteq [Peer -> Key]
        /\ warned \in Peer \union {NoPeer} /\ slipped \subseteq Peer
    BY Keys DEF TrustTypes
  <1>2. opening \in Deriving /\ trusting \in Deriving
    BY DEF TrustTypes, Worker, WorkerRecord, Deriving, Key
  <1>3. Offer = Bundle
    BY Keys DEF Offer, Bundle
  <1>4. syncing \in SyncRecord
    BY DEF TrustTypes, SyncWorker
  <1>5. /\ syncing.at \in {"idle", "deriving", "comparing"} /\ syncing.batch \subseteq Peer
        /\ syncing.snapshot \in [Peer -> Key]
        /\ syncing.hold \in Seq(Bundle) /\ syncing.mappings \in Seq(Bundle)
    BY <1>3, <1>4 DEF SyncRecord
  <1>6. QED
    BY <1>1, <1>2, <1>5 DEF TrustTypeOK, TrustShape, Key

LEMMA TrustInvariant == TrustSpec => [](TrustInv /\ TrustShape)
  <1>1. TrustInit => TrustInv /\ TrustShape
    BY TrustStarts, ShapeStarts
  <1>2. TrustInv /\ TrustShape /\ [TrustNext]_trustVars => (TrustInv /\ TrustShape)'
    BY TrustPreserved, ShapePreserved DEF TrustInv
  <1>3. QED
    BY <1>1, <1>2, PTL DEF TrustSpec

\* TrustTypeOK: every variable of the pinning has its type, and no more keys are given out
\* than the bound of KeyChange allows, which counts the changes of all peers.
THEOREM TrustTypeCorrect == TrustSpec => []TrustTypeOK
  <1>1. TrustInv /\ TrustShape => TrustTypeOK
    BY TrustTyped DEF TrustInv
  <1>2. QED
    BY <1>1, TrustInvariant, PTL

\* UnpinnedSessionWarned: the session of a peer is derived from a key that was pinned, or
\* the user is warned of the peer, or a worker's result with the key is still to come, for
\* any number of peers, changes and flows; what slips through is named by Slip.
THEOREM UnpinnedSessionWarnedHolds == TrustSpec => []UnpinnedSessionWarned
  <1>1. TrustInv => UnpinnedSessionWarned
    BY CarriedOf DEF TrustInv
  <1>2. QED
    BY <1>1, TrustInvariant, PTL
=============================================================================
