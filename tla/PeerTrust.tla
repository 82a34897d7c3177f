------------------------------ MODULE PeerTrust ------------------------------
(***************************************************************************)
(* The identity keys of the peers in one client: the key the server gives  *)
(* out, the key the client has pinned, the key its session is derived      *)
(* from, and the warning when they differ.  Opening a chat, a sync and the *)
(* button "trust the new key" run as workers that derive sessions on their *)
(* own; the pins are compared when their results are applied.              *)
(***************************************************************************)
EXTENDS Naturals, Sequences, FiniteSets

CONSTANTS
  Peer,
  NoPeer,
  MaxChanges,  \* bound of the model: changes of identity keys
  MaxFlows     \* bound of the model: chats opened, sessions reset, syncs and restarts

ASSUME TrustAssumption ==
  /\ NoPeer \notin Peer
  /\ MaxChanges \in Nat
  /\ MaxFlows \in Nat

VARIABLES
  current,   \* current[p]: the key the server gives out for peer p
  session,   \* session[p]: the key the session with p is derived from
  pinned,    \* peer_identity_key_by_peer
  pinsFile,  \* what of it the history file has
  warned,    \* key_change_peer
  opening,   \* the worker that opens a chat
  syncing,   \* the worker that syncs
  trusting,  \* the worker that refreshes the peer of a warning
  accepted,  \* accepted[p]: the keys of p that were ever pinned
  slipped,   \* the peers with a session nobody will be warned of, see Slip
  flows      \* how many of the bounded steps there were

trustVars ==
  <<current, session, pinned, pinsFile, warned, opening, syncing, trusting, accepted, slipped, flows>>

NoPin == 0
Identity == 1 .. MaxChanges + 1
\* A bundle of a peer, as far as pins are concerned; at: how far its worker is.
Bundle == [peer : Peer, key : Identity]
Idle == [at |-> "idle", peer |-> NoPeer, key |-> NoPin]
Deriving == [at : {"idle", "started", "fetched", "derived"},
             peer : Peer \union {NoPeer}, key : {NoPin} \union Identity]
NoSync == [at |-> "idle", batch |-> {}, todo |-> {}, snapshot |-> [p \in Peer |-> NoPin],
           hold |-> <<>>, mappings |-> <<>>]

TrustTypeOK ==
  /\ current \in [Peer -> Identity]
  /\ {session, pinned, pinsFile} \subseteq [Peer -> {NoPin} \union Identity]
  /\ warned \in Peer \union {NoPeer}
  /\ opening \in Deriving /\ trusting \in Deriving
  /\ syncing.at \in {"idle", "deriving", "comparing"}
  /\ syncing.todo \subseteq syncing.batch /\ syncing.batch \subseteq Peer
  /\ syncing.snapshot \in [Peer -> {NoPin} \union Identity]
  /\ syncing.hold \in Seq(Bundle) /\ Len(syncing.hold) <= 1
  /\ syncing.mappings \in Seq(Bundle)
  /\ accepted \in [Peer -> SUBSET Identity]
  /\ slipped \subseteq Peer
  /\ flows \in 0 .. MaxFlows

TrustInit ==
  /\ current = [p \in Peer |-> 1]
  /\ session = [p \in Peer |-> NoPin]
  /\ pinned = [p \in Peer |-> NoPin]
  /\ pinsFile = [p \in Peer |-> NoPin]
  /\ warned = NoPeer
  /\ opening = Idle
  /\ syncing = NoSync
  /\ trusting = Idle
  /\ accepted = [p \in Peer |-> {}]
  /\ slipped = {}
  /\ flows = 0

\* The peer registers with other keys.
KeyChange(p) ==
  /\ Cardinality({change \in Peer \X (2 .. MaxChanges + 1) : change[2] <= current[change[1]]}) < MaxChanges
  /\ current' = [current EXCEPT ![p] = @ + 1]
  /\ UNCHANGED <<session, pinned, pinsFile, warned, opening, syncing, trusting, accepted, slipped>>

-----------------------------------------------------------------------------
\* Mutant of Verified: a warning that stands is not replaced.
VerifiedKeeps(state, m) ==
  IF state.pinned[m.peer] \notin {NoPin, m.key}
  THEN IF state.warned = NoPeer THEN [state EXCEPT !.warned = m.peer] ELSE state
  ELSE IF state.pinned[m.peer] # NoPin THEN state
  ELSE [state EXCEPT !.pinned[m.peer] = m.key]

\* verify_or_pin_peer_identity: a key that differs from the pin replaces the warning, the
\* first key of a peer is pinned.
Verified(state, m) ==
  IF state.pinned[m.peer] \notin {NoPin, m.key}
  THEN [state EXCEPT !.warned = m.peer,
                     !.hidden = (@ \union {state.warned}) \ {m.peer, NoPeer}]
  ELSE IF state.pinned[m.peer] # NoPin THEN state
  ELSE [state EXCEPT !.pinned[m.peer] = m.key]

\* The bundles of the results that are still to come.
Carried == {syncing.mappings[i] : i \in DOMAIN syncing.mappings} \union {opening, trusting}

Unaccepted(p) == session[p] \notin {NoPin} \union accepted[p]

\* The warnings of peers are lost, which counts for those with a session from a key that
\* was never pinned, and until that is over.
Slip(peers) ==
  /\ accepted' = [p \in Peer |-> accepted[p] \union ({pinned'[p]} \ {NoPin})]
  /\ slipped' = {p \in slipped \union peers : Unaccepted(p)'}

\* The bundles of a result, one after the other.
VerifiedAll(state, bundles) ==
  LET after[i \in 0 .. Len(bundles)] ==
        IF i = 0 THEN state ELSE Verified(after[i - 1], bundles[i])
  IN  after[Len(bundles)]

\* A result is applied; the pins are saved or not.
Apply(bundles, saved) ==
  LET result == VerifiedAll([pinned |-> pinned, warned |-> warned, hidden |-> {}], bundles)
  IN  /\ pinned' = result.pinned
      /\ warned' = result.warned
      /\ pinsFile' = IF saved THEN result.pinned ELSE pinsFile
      /\ UNCHANGED <<current, session>>
      /\ Slip(result.hidden)

\* derive_peer_shared_key_inner: the session is inserted when there is none, and replaced
\* for refresh_peer_shared_key.
Derive(m, replace) ==
  session' = IF replace \/ session[m.peer] = NoPin THEN [session EXCEPT ![m.peer] = m.key] ELSE session

-----------------------------------------------------------------------------
\* open_chat and run_open_chat_flow
OpenChat(p) ==
  /\ opening = Idle
  /\ opening' = [Idle EXCEPT !.at = "started", !.peer = p]
  /\ UNCHANGED <<current, session, pinned, pinsFile, warned, syncing, trusting, accepted, slipped>>

OpenFetch ==
  /\ opening.at = "started"
  /\ opening' = [opening EXCEPT !.at = "fetched", !.key = current[opening.peer]]
  /\ UNCHANGED <<current, session, pinned, pinsFile, warned, syncing, trusting, accepted, slipped>>

OpenDerive ==
  /\ opening.at = "fetched"
  /\ opening' = [opening EXCEPT !.at = "derived"]
  /\ Derive(opening, FALSE)
  /\ UNCHANGED <<current, pinned, pinsFile, warned, syncing, trusting>>
  /\ Slip({})

\* The bundle cannot be had, or the contact message is not sent: the session stays, and
\* its bundle is not compared with the pin.
OpenFails ==
  /\ opening.at \in {"started", "derived"}
  /\ opening' = Idle
  /\ UNCHANGED <<current, session, pinned, pinsFile, warned, syncing, trusting>>
  /\ Slip({opening.peer})

OpenApply ==
  /\ opening.at = "derived"
  /\ opening' = Idle
  /\ Apply(<<[peer |-> opening.peer, key |-> opening.key]>>,
           pinned[opening.peer] \in {NoPin, opening.key})
  /\ UNCHANGED <<syncing, trusting>>

\* reset_selected_chat_session: the chat is opened again, unless one is being opened.
ResetSession(p) ==
  /\ session' = [session EXCEPT ![p] = NoPin]
  /\ opening' = IF opening = Idle THEN [Idle EXCEPT !.at = "started", !.peer = p] ELSE opening
  /\ UNCHANGED <<current, pinned, pinsFile, warned, syncing, trusting>>
  /\ Slip({})

-----------------------------------------------------------------------------
\* sync_incoming: messages of the peers in batch are pending; the worker gets a copy of
\* the pins.
SyncStart(batch) ==
  /\ syncing = NoSync
  /\ syncing' = [NoSync EXCEPT !.at = "deriving", !.batch = batch, !.todo = batch, !.snapshot = pinned]
  /\ UNCHANGED <<current, session, pinned, pinsFile, warned, opening, trusting, accepted, slipped>>

\* The loop over the pending messages: a bundle is fetched where there is no session or
\* no pin, if the server answers.
SyncFetch(p) ==
  /\ syncing.at = "deriving" /\ syncing.hold = <<>> /\ p \in syncing.todo
  /\ \/ NoPin \in {session[p], syncing.snapshot[p]}
        /\ syncing' = [syncing EXCEPT !.hold = <<[peer |-> p, key |-> current[p]]>>]
     \/ syncing' = [syncing EXCEPT !.todo = @ \ {p}]
  /\ UNCHANGED <<current, session, pinned, pinsFile, warned, opening, trusting, accepted, slipped>>

SyncDerive ==
  /\ syncing.at = "deriving" /\ syncing.hold # <<>>
  /\ Derive(syncing.hold[1], FALSE)
  /\ syncing' = [syncing EXCEPT !.hold = <<>>, !.todo = @ \ {syncing.hold[1].peer},
                                !.mappings = @ \o syncing.hold]
  /\ UNCHANGED <<current, pinned, pinsFile, warned, opening, trusting>>
  /\ Slip({})

\* No message could be decrypted: the peers are gone through once more.
SyncUndecrypted ==
  /\ syncing.at = "deriving" /\ syncing.todo = {}
  /\ syncing' = [syncing EXCEPT !.at = "comparing", !.todo = syncing.batch]
  /\ UNCHANGED <<current, session, pinned, pinsFile, warned, opening, trusting, accepted, slipped>>

\* fetch_peer_bundle: the bundle goes into the result; one that matches the copied pins
\* has the session refreshed.
SyncCompare(p) ==
  LET bundle == [peer |-> p, key |-> current[p]]
  IN  /\ syncing.at = "comparing" /\ syncing.hold = <<>> /\ p \in syncing.todo
      /\ \/ syncing' = [syncing EXCEPT !.todo = @ \ {p}]
         \/ syncing' = IF syncing.snapshot[p] \in {NoPin, bundle.key}
                       THEN [syncing EXCEPT !.mappings = Append(@, bundle), !.hold = <<bundle>>]
                       ELSE [syncing EXCEPT !.mappings = Append(@, bundle), !.todo = @ \ {p}]
      /\ UNCHANGED <<current, session, pinned, pinsFile, warned, opening, trusting, accepted, slipped>>

\* The refresh fetches a bundle of its own, which is not compared and not part of the
\* result, or fails.
SyncRefresh ==
  LET p == syncing.hold[1].peer
  IN  /\ syncing.at = "comparing" /\ syncing.hold # <<>>
      /\ syncing' = [syncing EXCEPT !.hold = <<>>, !.todo = @ \ {p}]
      /\ UNCHANGED <<current, pinned, pinsFile, warned, opening, trusting>>
      /\ \/ session' = session /\ Slip({})
         \/ Derive([peer |-> p, key |-> current[p]], TRUE)
            /\ Slip(IF current[p] # syncing.hold[1].key THEN {p} ELSE {})

\* apply_sync_success
SyncApply ==
  /\ syncing # NoSync /\ syncing.hold = <<>> /\ syncing.todo = {}
  /\ syncing' = NoSync
  /\ \E saved \in BOOLEAN : Apply(syncing.mappings, saved)
  /\ UNCHANGED <<opening, trusting>>

-----------------------------------------------------------------------------
\* trust_new_peer_identity
Trust ==
  /\ trusting = Idle
  /\ warned # NoPeer
  /\ trusting' = [Idle EXCEPT !.at = "started", !.peer = warned]
  /\ UNCHANGED <<current, session, pinned, pinsFile, warned, opening, syncing, accepted, slipped>>

TrustFetch ==
  /\ trusting.at = "started"
  /\ trusting' = [trusting EXCEPT !.at = "fetched", !.key = current[trusting.peer]]
  /\ UNCHANGED <<current, session, pinned, pinsFile, warned, opening, syncing, accepted, slipped>>

TrustFails ==
  /\ trusting.at = "started"
  /\ trusting' = Idle
  /\ UNCHANGED <<current, session, pinned, pinsFile, warned, opening, syncing, accepted, slipped>>

TrustDerive ==
  /\ trusting.at = "fetched"
  /\ trusting' = [trusting EXCEPT !.at = "derived"]
  /\ Derive(trusting, TRUE)
  /\ UNCHANGED <<current, pinned, pinsFile, warned, opening, syncing>>
  /\ Slip({})

\* poll_trust_result: the key is pinned, and the warning is gone, whoever and whichever key it was
\* for.
TrustApply ==
  /\ trusting.at = "derived"
  /\ trusting' = Idle
  /\ pinned' = [pinned EXCEPT ![trusting.peer] = trusting.key]
  /\ pinsFile' = pinned'
  /\ warned' = NoPeer
  /\ UNCHANGED <<current, session, opening, syncing>>
  /\ Slip({warned} \ {NoPeer})

\* The program ends: the sessions are in their file, the pins as they were saved.
TrustRestart ==
  /\ pinned' = pinsFile
  /\ warned' = NoPeer
  /\ opening' = Idle /\ syncing' = NoSync /\ trusting' = Idle
  /\ UNCHANGED <<current, session, pinsFile>>
  /\ Slip(Peer)

\* A step of the user, of the timer or of the machine, which are bounded, or a step of a
\* worker or of the other end.
TrustNext ==
  \/ /\ flows < MaxFlows /\ flows' = flows + 1
     /\ \/ \E p \in Peer : OpenChat(p) \/ ResetSession(p)
        \/ \E batch \in SUBSET Peer \ {{}} : SyncStart(batch)
        \/ TrustRestart
  \/ /\ UNCHANGED flows
     /\ \/ \E p \in Peer : KeyChange(p) \/ SyncFetch(p) \/ SyncCompare(p)
        \/ OpenFetch \/ OpenDerive \/ OpenFails \/ OpenApply
        \/ SyncDerive \/ SyncUndecrypted \/ SyncRefresh \/ SyncApply
        \/ Trust \/ TrustFetch \/ TrustFails \/ TrustDerive \/ TrustApply

-----------------------------------------------------------------------------
\* A session is derived from a key that was pinned once, or its peer is warned of, or the
\* result of a worker is still to come that pins the key or warns of it.  What escapes: a
\* chat whose opening fails after the session was derived, a warning that another one
\* replaces or that goes with the trust in another peer, a refresh that gets a newer
\* bundle than the one compared, and the end of the program.
UnpinnedSessionWarned ==
  \A p \in Peer : Unaccepted(p) =>
    \/ p \in slipped
    \/ p = warned
    \/ \E m \in Carried : m.peer = p /\ m.key = session[p]
=============================================================================
