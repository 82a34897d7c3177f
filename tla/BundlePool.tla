----------------------------- MODULE BundlePool -----------------------------
(***************************************************************************)
(* The one-time prekeys of a device and the database connections of the    *)
(* server: fetch_prekey_bundle holds one connection for its transaction    *)
(* while it asks the pool for a second one.                                *)
(***************************************************************************)
EXTENDS Places

CONSTANTS
  BundleCall,   \* calls of fetch_prekey_bundle that can be under way at once
  Connections,  \* max_connections
  Prekey,       \* the key ids that the device uploads
  Upload,       \* the uploads: sequences of prekeys
  NoPrekey      \* the device has none left

ASSUME PoolAssumption ==
  /\ Connections \in Nat \ {0}
  /\ Upload \subseteq Seq(Prekey)
  /\ NoPrekey \notin Prekey

VARIABLES
  prekeys,   \* table one_time_prekeys, by id
  consumed,  \* the rows that have consumed_at
  bundle,    \* the calls of fetch_prekey_bundle
  handedOut  \* how often each prekey was in a committed answer

bundleVars == <<prekeys, consumed, bundle, handedOut>>

\* The key ids that have a row.
Uploaded == {prekeys[i] : i \in DOMAIN prekeys}

BundleTypeOK ==
  /\ prekeys \in Seq(Prekey)
  /\ \A i, j \in DOMAIN prekeys : prekeys[i] = prekeys[j] => i = j
  /\ consumed \subseteq Uploaded
  /\ bundle \in [BundleCall -> [at : {"idle", "waits", "begun", "found", "picked"},
                                 prekey : Prekey \union {NoPrekey}]]
  /\ handedOut \in [Prekey -> Nat]

BundleInit ==
  /\ prekeys = <<>>
  /\ consumed = {}
  /\ bundle = [r \in BundleCall |-> [at |-> "idle", prekey |-> NoPrekey]]
  /\ handedOut = [k \in Prekey |-> 0]

-----------------------------------------------------------------------------
\* A transaction holds a connection; the lookup of the device is one statement, which
\* takes another and gives it back.
ConnectionFree ==
  Cardinality({r \in BundleCall : bundle[r].at \in {"begun", "found", "picked"}}) < Connections

BundleStep(r, from, to) ==
  /\ bundle[r].at = from
  /\ bundle' = [bundle EXCEPT ![r].at = to]
  /\ UNCHANGED <<prekeys, consumed, handedOut>>

\* insert_one_time_prekey, one after the other: ON CONFLICT DO NOTHING
InsertPrekeys(keys) ==
  LET new == {i \in DOMAIN keys : keys[i] \notin Uploaded /\ \A j \in 1 .. i - 1 : keys[j] # keys[i]}
  IN  prekeys' = prekeys \o At(keys, new)

\* upload_prekeys: one transaction.
UploadPrekeys(keys) ==
  /\ ConnectionFree
  /\ InsertPrekeys(keys)
  /\ UNCHANGED <<consumed, bundle, handedOut>>

BundleArrive(r) == BundleStep(r, "idle", "waits")

\* db.begin()
BundleBegin(r) == ConnectionFree /\ BundleStep(r, "waits", "begun")

\* find_device_bundle on a connection of its own
FindDevice(r) == ConnectionFree /\ BundleStep(r, "begun", "found")

\* The rows that are locked by a transaction that consumes them.
PrekeyLocked == {bundle[r].prekey : r \in {r \in BundleCall : bundle[r].at = "picked"}}

\* Mutant of Available: the rows are read without FOR UPDATE SKIP LOCKED.
AvailableUnlocked == {i \in DOMAIN prekeys : prekeys[i] \notin consumed}

\* WHERE consumed_at IS NULL FOR UPDATE SKIP LOCKED
Available == {i \in DOMAIN prekeys : prekeys[i] \notin consumed \union PrekeyLocked}

\* ORDER BY id LIMIT 1: the first row that is available, if one is.
Picks(k) ==
  \/ Available = {} /\ k = NoPrekey
  \/ \E i \in Available : k = prekeys[i] /\ \A j \in Available : i <= j

\* consume_one_time_prekey, before its transaction commits
ConsumePrekey(r) ==
  /\ bundle[r].at = "found"
  /\ \E k \in Prekey \union {NoPrekey} :
       Picks(k) /\ bundle' = [bundle EXCEPT ![r] = [at |-> "picked", prekey |-> k]]
  /\ UNCHANGED <<prekeys, consumed, handedOut>>

BundleEnd(r) == bundle' = [bundle EXCEPT ![r] = [at |-> "idle", prekey |-> NoPrekey]]

BundleCommit(r) ==
  /\ bundle[r].at = "picked"
  /\ LET k == bundle[r].prekey
     IN  IF k = NoPrekey
         THEN UNCHANGED <<consumed, handedOut>>
         ELSE /\ consumed' = consumed \union {k}
              /\ handedOut' = [handedOut EXCEPT ![k] = @ + 1]
  /\ BundleEnd(r)
  /\ UNCHANGED prekeys

\* A statement fails, the connection breaks or the server ends: rollback.
BundleFails(r) ==
  /\ bundle[r].at \in {"begun", "found", "picked"}
  /\ BundleEnd(r)
  /\ UNCHANGED <<prekeys, consumed, handedOut>>

\* Mutant of BundleTimeout: acquire_timeout ends the wait for the first connection only.
BundleTimeoutFirst(r) ==
  /\ ~ConnectionFree
  /\ bundle[r].at = "waits"
  /\ BundleEnd(r)
  /\ UNCHANGED <<prekeys, consumed, handedOut>>

\* No connection came free for five seconds: the call fails, and gives back its own.
BundleTimeout(r) ==
  /\ ~ConnectionFree
  /\ bundle[r].at \in {"waits", "begun"}
  /\ BundleEnd(r)
  /\ UNCHANGED <<prekeys, consumed, handedOut>>

BundleProgress(r) ==
  \/ BundleBegin(r) \/ FindDevice(r) \/ ConsumePrekey(r) \/ BundleCommit(r) \/ BundleTimeout(r)

BundleNext ==
  \/ \E keys \in Upload : UploadPrekeys(keys)
  \/ \E r \in BundleCall : BundleArrive(r) \/ BundleProgress(r) \/ BundleFails(r)

\* Statements are answered, and a wait for a connection ends within five seconds.
BundleFairness == \A r \in BundleCall : WF_bundleVars(BundleProgress(r))

-----------------------------------------------------------------------------
\* A one-time prekey is in one committed answer at most, and from then on consumed: not
\* two calls that pick at the same time, nor a repeated upload, hand it out again.
PrekeyOnce == \A k \in Prekey : handedOut[k] = IF k \in consumed THEN 1 ELSE 0

\* Every call ends, although calls that hold a connection each may all wait for another.
RequestsEnd == \A r \in BundleCall : bundle[r].at # "idle" ~> bundle[r].at = "idle"
=============================================================================
