------------------------------ MODULE Versions ------------------------------
(***************************************************************************)
(* What becomes of an old client: the server refuses versions below its    *)
(* minimum, the client compares its version with the manifest, when it     *)
(* starts and whenever the user asks for it, and both parse versions on    *)
(* their own.  A release publishes a manifest first and raises the minimum *)
(* of the server then.                                                     *)
(***************************************************************************)
EXTENDS Naturals, Sequences

CONSTANTS
  Version,      \* versions as the sequences of their parts
  Text,         \* a part that is no number
  NoVersion,
  MaxRestarts   \* bound of the model: how often the client starts

ASSUME VersionAssumption ==
  /\ NoVersion \notin Version
  /\ Version \subseteq Seq(Nat \union {Text})
  /\ MaxRestarts \in Nat

VARIABLES
  minimum,    \* MIN_CLIENT_VERSION of the server
  manifest,   \* what the update server answers
  installed,  \* CARGO_PKG_VERSION of the client
  client,     \* is the program running
  check,      \* update_rx, with what the worker of a check has read
  offer,      \* update_info
  outdated,   \* the server has answered 426 to this version
  told,       \* minimum of the server when the manifest was read last; only if it was
              \* read after that answer, and the result has reached the client
  restarts

versionVars == <<minimum, manifest, installed, client, check, offer, outdated, told, restarts>>

Manifest == [version : Version, minimum : Version, mandatory : BOOLEAN]
Update == [version : Version \union {NoVersion}, mandatory : BOOLEAN]
NoOffer == [version |-> NoVersion, mandatory |-> FALSE]

\* A check is under way once its worker runs, and ends when the result is polled; `seen`
\* is the minimum of the server at the moment the worker read the manifest.
Check == [at : {"none", "asked", "read"}, offer : Update, seen : Version \union {NoVersion}]
NoCheck == [at |-> "none", offer |-> NoOffer, seen |-> NoVersion]

VersionTypeOK ==
  /\ minimum \in Version /\ installed \in Version
  /\ manifest \in Manifest
  /\ client \in {"off", "on"}
  /\ check \in Check
  /\ offer \in Update
  /\ outdated \in BOOLEAN
  /\ told \in Version \union {NoVersion}
  /\ restarts \in 0 .. MaxRestarts

-----------------------------------------------------------------------------
\* parse_version: the first three parts; one that is no number, or is not there, is 0.
ParseVersion(v) == [i \in 1 .. 3 |-> IF i <= Len(v) /\ v[i] \in Nat THEN v[i] ELSE 0]

\* version_gt
VersionGt(left, right) ==
  LET l == ParseVersion(left)
      r == ParseVersion(right)
  IN  \E i \in 1 .. 3 : l[i] > r[i] /\ \A j \in 1 .. i - 1 : l[j] = r[j]

VersionInit ==
  /\ manifest \in {m \in Manifest : m.version = m.minimum /\ ~m.mandatory}
  /\ minimum = manifest.minimum
  /\ installed = manifest.version
  /\ client = "off"
  /\ check = NoCheck
  /\ offer = NoOffer
  /\ outdated = FALSE
  /\ told = NoVersion
  /\ restarts = 0

\* The manifest of a release; what it supports is not newer than itself.
Publish(next) ==
  /\ next # manifest
  /\ ~VersionGt(manifest.version, next.version)
  /\ ~VersionGt(manifest.minimum, next.minimum)
  /\ ~VersionGt(next.minimum, next.version)
  /\ manifest' = next
  /\ UNCHANGED <<minimum, installed, client, check, offer, outdated, told, restarts>>

\* The server is started with the minimum that is published already.
Deploy ==
  /\ minimum' = manifest.minimum
  /\ UNCHANGED <<manifest, installed, client, check, offer, outdated, told, restarts>>

\* check_for_updates: not while a check is under way.
CheckForUpdates ==
  /\ check.at = "none"
  /\ check' = [NoCheck EXCEPT !.at = "asked"]

\* The program starts, and with it a check.
StartClient ==
  /\ client = "off"
  /\ restarts < MaxRestarts
  /\ restarts' = restarts + 1
  /\ client' = "on"
  /\ CheckForUpdates
  /\ UNCHANGED <<minimum, manifest, installed, offer, outdated, told>>

\* The button in the settings: a client that is running checks again.
CheckNow ==
  /\ client = "on"
  /\ CheckForUpdates
  /\ UNCHANGED <<minimum, manifest, installed, client, offer, outdated, told, restarts>>

\* Mutant of Offered: an update is mandatory only if the manifest says so.
OfferedOptional ==
  IF VersionGt(manifest.version, installed) \/ VersionGt(manifest.minimum, installed)
  THEN [version |-> manifest.version, mandatory |-> manifest.mandatory]
  ELSE NoOffer

\* check_for_update
Offered ==
  LET available   == VersionGt(manifest.version, installed)
      unsupported == VersionGt(manifest.minimum, installed)
  IN  IF available \/ unsupported
      THEN [version |-> manifest.version, mandatory |-> manifest.mandatory \/ unsupported]
      ELSE NoOffer

\* The worker of a check reads the manifest, or fails.
ReadManifest(fails) ==
  /\ check.at = "asked"
  /\ check' = [at    |-> "read",
               offer |-> IF fails THEN NoOffer ELSE Offered,
               seen  |-> IF outdated /\ ~fails THEN minimum ELSE NoVersion]
  /\ UNCHANGED <<minimum, manifest, installed, client, offer, outdated, told, restarts>>

\* poll_update_result: without an update, and after an error, update_info stays.
PollUpdateResult ==
  /\ check.at = "read"
  /\ check' = NoCheck
  /\ offer' = IF check.offer.version # NoVersion THEN check.offer ELSE offer
  /\ told' = IF check.seen # NoVersion THEN check.seen ELSE told
  /\ UNCHANGED <<minimum, manifest, installed, client, outdated, restarts>>

\* register_or_login
LoginAllowed == ~offer.mandatory

\* require_supported_client: any request of the client.  A mandatory update keeps it from
\* logging in, but not from creating an account, or from what one who is logged in does.
ClientAsks(loggingIn) ==
  /\ client = "on"
  /\ loggingIn => LoginAllowed
  /\ outdated' = (outdated \/ (VersionGt(minimum, <<0, 0, 0>>) /\ VersionGt(minimum, installed)))
  /\ UNCHANGED <<minimum, manifest, installed, client, check, offer, told, restarts>>

\* render_update_window: the version of the offer is downloaded and installed.
InstallOffer ==
  /\ offer.version # NoVersion
  /\ installed' = offer.version
  /\ outdated' = FALSE
  /\ client' = "off"
  /\ check' = NoCheck
  /\ offer' = NoOffer
  /\ told' = NoVersion
  /\ UNCHANGED <<minimum, manifest, restarts>>

StopClient ==
  /\ client = "on"
  /\ client' = "off"
  /\ check' = NoCheck
  /\ offer' = NoOffer
  /\ told' = NoVersion
  /\ UNCHANGED <<minimum, manifest, installed, outdated, restarts>>

VersionNext ==
  \/ \E next \in Manifest : Publish(next)
  \/ Deploy \/ StartClient \/ CheckNow \/ PollUpdateResult \/ InstallOffer \/ StopClient
  \/ \E fails \in BOOLEAN : ReadManifest(fails)
  \/ \E loggingIn \in BOOLEAN : ClientAsks(loggingIn)

\* A client that the server refused, and that has read the manifest since, at its start or
\* by a later check, keeps the user from logging in and offers a version that is newer
\* than its own and that the server accepted at that time; further checks that fail or
\* are still under way do not undo this.  Also when versions have fewer parts than three,
\* or a part that is no number.
RefusedIsOffered ==
  told # NoVersion =>
    /\ offer.mandatory
    /\ VersionGt(offer.version, installed)
    /\ ~VersionGt(told, offer.version)
=============================================================================
