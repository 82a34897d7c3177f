# rsmsg: verification project

TLA+ models of rsmsg (an end-to-end encrypted messenger: an axum/PostgreSQL
server, a client library, a desktop client), the TLC configurations that check
them, and theorems proved with TLAPS. Every definition is translated from the
source; `PROJECT.json` maps it to the lines.

- [1. The system](#1-the-system)
- [2. Plan](#2-plan)
- [3. The models](#3-the-models)
- [4. Runs and bounds](#4-runs-and-bounds)
- [5. Fairness](#5-fairness)
- [6. Proofs](#6-proofs)
- [7. What the code does otherwise than documented](#7-what-the-code-does-otherwise-than-documented)
- [8. What is not modelled](#8-what-is-not-modelled)

## 1. The system

Clients talk to one server over HTTP (and optionally a websocket). The server
keeps accounts, device keys, sealed messages and blobs in PostgreSQL, and
presence, call signals and login counters in memory. A client keeps its keys,
its sessions with peers and its history in files, and runs every request in a
worker thread whose result the user interface polls, once per frame.

| Component | State | Operations | Correct when |
|---|---|---|---|
| Message store (`domain/messaging.rs`, `repository/messages.rs`, `services/messages.rs`) | table `messages`: `created_at`, `delivered_at`, `acked_at` | send, fetch pending, acknowledge, status query | a status is true of the recipient; nothing accepted twice, lost, or gone back; order kept |
| Block list (`domain/user.rs`, `repository/user_blocks.rs`) | table `user_blocks` | block, unblock, lookup | no message is stored under a block |
| Websocket session (`domain/realtime.rs`) | online set, last seen | poll tick drains and sends | as the store; a broken connection loses nothing |
| Presence (`domain/realtime.rs`) | the same | mark online, end of session, is online | a connected device is online |
| Peer sessions (`client-core/core.rs`, `session_store.rs`) | two chain keys and counters per peer, in memory under a mutex and in a file | derive, refresh, reset, seal, open, persist | what one client seals the other can open, in spite of loss, reordering, crash |
| Sync and read acknowledgement (`client-ui/app.rs`) | history, unread counters, workers in flight | sync, apply, mark read, acknowledge, delete chat | each text is shown once and in the end; only shown texts are acknowledged |
| Outgoing messages (`client-ui/app.rs`) | entries with a status, by index | send, poll result, apply statuses, logout | a status says what happened to that message |
| Call signalling (`domain/call_signaling.rs`) | one queue of 2048 signals | send, fetch by device and call | signals of a call arrive once, in order |
| Calls (`client-ui/app.rs`) | the active call, signal poll in flight, media session | start, answer, decline, hang up, 45 s timeout | both ends agree in the end that a call is over |
| Accounts and invites (`domain/user.rs`, `registration_invites.rs`) | `users`, `registration_invites` | register, login | one invite makes one account |
| Devices and tokens (`domain/device.rs`, `auth.rs`) | `devices`, `auth_tokens` | register, login, logout, authorize | only active tokens authorize |
| Prekeys (`repository/prekeys.rs`) and pool (`main.rs`) | `one_time_prekeys`, 10 connections | upload, consume | a prekey is handed out once; calls do not wait for each other for ever |
| Login rate limit (`login_rate_limit.rs`) | attempts and block time per account | allow, record failure or success | a bounded number of attempts |
| Blob store (`domain/blob.rs`) | `blobs` | create, append, fetch | nothing above the limit is kept |
| Peer identity pinning (`client-ui/app.rs`) | pinned keys per peer | pin, compare, trust | a changed key is not used before it is trusted |
| Local vault (`local_vault.rs`) | files | load, save | a crash leaves a readable file |
| Version gate and updater | minimum version | compare | versions are ordered |

How they interact: the sync worker calls the message store and the prekey
directory; its result is applied by the interface, which starts the
acknowledgement; sealing and opening share the sessions under one mutex that is
never held during a request; drains are called from two places of the server
(HTTP and websocket) for the same device; the block list and presence are read
by messages and by call signals; the prekey bundle feeds sessions and pinning.

What is hard: handlers of several statements interleave and may stop between
any two (dropped connection, rollback, crash); any answer may be lost after the
work was done; workers of one client share state and finish in any order; the
client may die between changing memory, writing a file and being answered; what
is fetched stays pending until it is acknowledged and is fetched again; limits
(100 messages a fetch, 2048 signals, 10 connections). `PROJECT.json` lists each
hazard at the line where it bites, with the properties that cover it.

## 2. Plan

In order of importance; steps 1 to 8 are done.

| Step | Modules | Abstract specification | Runs | Theorems |
|---|---|---|---|---|
| 1 | `Mailbox`, `MCMailbox`, `MailboxProofs` | `MessageLifecycle` | safety, order, liveness | all invariants, refinement |
| 2 | `PeerSessions`, `MCPeerSessions`, `PeerSessionsProofs` | | safety, liveness, starvation | all invariants |
| 3 | `ChatStatus`, `MCChatStatus`, `ChatStatusProofs` | | safety with liveness, a divergence | all invariants |
| 4 | `Places`, `SignalQueue`, `CallSignaling`, `Calls` composed with the queue, `MCCalls`, `SignalQueueProofs`, `CallsProofs` | | queue, safety with liveness, two divergences | all invariants |
| 5 | `Registration`, `BundlePool`, `DevicePresence`, `ServerPartsProofs` | | uniqueness, waiting for connections, tokens, presence | all invariants |
| 6 | `LoginRateLimit`, `BlobUpload`, `Playback`, `ClientPartsProofs` | | bounds on attempts, sizes and buffers | all invariants |
| 7 | `PeerTrust`, `LocalVault`, `Versions` | | key change between two fetches, torn writes, releases | all invariants, and `IdentityKept` |
| 8 | `Parts`, `MCParts`, `PartsProofs`, and the other proof modules | each part, implemented by `Parts` | | as listed in section 6 |
| 9, open | `Calls` with clients that end, and among three devices | | | |

The parts of steps 5 to 7 and `CallSignaling` have no state in common. `Parts`
puts them in one specification, in which each behaviour is one of one part, and
`MCParts` checks its instances in one graph; `MCServerLive` does the same for the
two liveness questions of the server.

Modules are parameterised by CONSTANTS with named assumptions and use no
RECURSIVE operator, so that each of them can be proved about. What the code does
in a loop over a list is stated by the set of places it concerns where it can be
(`Places`), and as a recursive function where one step depends on the last.

## 3. The models

### Mailbox (server)

| State | Code |
|---|---|
| `row[m]` | the row of table `messages` with that `message_id`: `at` is `created_at`, `delivered` and `acked` whether the two timestamps are set |
| `blocks` | table `user_blocks` |
| `send[r]` | a `send_message` call between two of its statements |
| `drain[x]` | a `drain_pending_messages` transaction: rows selected and locked, then committed and not yet answered |
| `got[d]` | what reached device `d` over HTTP or the websocket |
| `accepted[m]`, `history` fields | history variables, for the properties only |
| `clock` | the database clock |

A handler is one action per statement that another handler can come between.
`SendArrive`, `CheckBlocks`, `BeginInsert`, `CommitInsert` are `send_message`:
`created_at` is taken when the insert starts, the row is visible when it
commits, `ON CONFLICT DO NOTHING` keeps an earlier row. `DrainSelect` takes the
oldest unlocked pending rows up to the clamped limit and locks them,
`DrainCommit` sets `delivered_at` and releases them, `DrainReply` delivers the
whole batch, nothing, or (websocket) a first part. `DrainAbort`, `SendDropped`
and `Crash` are the rollbacks. `Ack` is one UPDATE, which waits for row locks.
Requests that are refused before any state is read or written (a wrong sender,
an unknown device) are not steps.

`MessageLifecycle` is the abstract specification: a message is unsent, stored,
delivered, read, in this order, and a device holds what it was handed out.
`Mailbox` implements it with `phase <- PhaseOf`, `held <- got`; `PhaseOf` is
what `message_status` tells the sender.

### PeerSessions (client library and client)

| State | Code |
|---|---|
| `session[c][p]`, `saved[c][p]` | `PeerSession` in memory and in the session file |
| `post[m]` | the worker that sends `m`: started, sealed with a counter, posted, ended |
| `box[c]`, `acked` | the server's rows for `c` by `created_at`, and those acknowledged (what `Mailbox` promises, one atomic step per request) |
| `sync[c]` | the sync worker: the batch and what is left of it, as sets of places in the box; how far the refresh is, what was opened |
| `history`, `copies`, `acking` | the incoming texts of the chat history, their entries, the acknowledgement in flight |
| `seen` | history variable: texts ever shown |

Both chains of a session start from the same static Diffie-Hellman key, so the
n-th key is a function of n: a message opens exactly when the receiving chain
has not passed its counter (`decrypt_with_session` skips forward and refuses a
counter it has passed). That reduces a session to two counters. A refresh or a
reset sets both to 0.

`SendText`/`OpenChat`, `Seal` (under the mutex), `Post` (outside it),
`PersistSent` are the sending workers. `SyncFetch`, `SyncDecrypt`,
`SyncRefresh` (once per message of the batch), `SyncRetry`, `SyncApply` are
`run_sync_flow` and `apply_sync_success`; a sync that fetched nothing keeps
nothing from one step to the next and is one action, `SyncNothing`. Opening a
batch and writing the session file is one action: a crash between the two is a
crash before both. `MarkRead` and `AckEnd` are the acknowledgement: entries
are marked read before it is answered, and an error makes them unread again.
`Crash` keeps the session file and the history file.

`MaxUpset` bounds crashes, resets and deleted chats together.

### ChatStatus (client)

| State | Code |
|---|---|
| `phase[m]` | what `message_status` would answer about `m`: the server's side, only going forward |
| `chat` | `history.chats[peer]`, the entries of one chat in memory |
| `file` | the history file: the entries last saved, and whether they were encrypted |
| `online` | `auth` is set (and with it `password`) |
| `loading` | the history a login worker has read, before its result is polled |
| `sending` | `send_rx`: the worker's text, the index of its entry, its result |
| `sync` | `sync_rx`: the ids asked about, the answer, the texts opened |

`SendText` pushes the entry, saves the history and starts the worker;
`SendEnd` is the request's end, where an error may hide a text that was stored,
or will be stored after the timeout (`StoreText` needs only that the worker was
started). `PollSend` applies the result to the entry at the saved index, if
there is one, and saves, whoever is logged in by then; so does `PollSync` after
pushing the opened texts the history lacks and applying the statuses.
`LoginLoad` and `LoginDone` are apart because the login worker reads the file
before its last two requests. `Logout` and `Restart` load what is readable
without a password, that is nothing once the file is encrypted; only `Restart`
ends the workers.

The other chats of the history are left out, being touched by none of these
actions but through the same save. Which incoming texts a sync opens is open,
the read marks of incoming entries are in `PeerSessions`, and other actions
that save an unchanged chat are one action, `SaveHistory`. `DeleteChat` needs
no user logged in: its confirmation stays open over a logout.

### SignalQueue and CallSignaling (server), Calls (clients)

`Places` has one operator, `At`: what stands at some places of a sequence, in the
order of the sequence; the queue, its fetches and the upload of prekeys use it.
`SignalQueue` holds what `send_call_signal` and `fetch_call_signals` do to the
queue under its lock, as operators on a sequence. `CallSignaling` is the server
around it, with numbered signals from anybody: `FetchSignals` takes its signals
out of the queue whether or not its answer arrives, and `SignalingRestart` ends
the queue with the process. `Calls` uses the same operators for the clients.

| State of `Calls` | Code |
|---|---|
| `active[d]` | `active_call`: the call, whether it is incoming, whether accepted |
| `starting[d]` | `call_rx`: how far `run_start_call_flow` is |
| `poll[d]` | `call_signal_rx`: a fetch for one call or for any, and its answer |
| `strays[d]` | fetches whose receiver was dropped when the call was left |
| `posting` | signals of worker threads that have not reached the server |
| `invite[c]` | the encrypted message that invites to `c`, in the store or shown |
| `media[d]` | `webrtc_session` and `webrtc_rx`: making an offer, a reply, or applying one |
| `accepted`, `met`, `muddled` | history variables |

`StartCall`, `StartInvite`, `StartSignal`, `PollCall` start a call: an encrypted
message and a signal invite, then the caller's window opens. `PollStart`,
`PollFetch` and then `Ring` (no active call: the first invite rings and the rest
is ignored) or `Hear` (signals are applied in order up to the first that ends
the call, whatever call they name). `ShowInvite` is the part of `push_incoming`
about calls. `Accept`, `Decline`, `HangUp`, `NoAnswer` change the state at once
and leave the signal to a thread, so two signals of one device may be queued in
either order (`Post`), or get lost without anybody noticing. Two equal signals
that are under way at once count as one.

The code misdirects signals in four ways, which `muddled` records and the
invariants except, so that they say what holds otherwise: a device that hears a
signal of another call; a call that rings or is refused a second time by its
second invite; an own call that replaces one that came in; a signal that is
ignored by a device that has not been in its call yet. A lost signal muddles
its call too. Two of these are the findings of section 7.

### Registration (server)

| State | Code |
|---|---|
| `day` | the database clock, in steps of a day |
| `invites` | table `registration_invites`: `expires_at`, `used_by_user_id` |
| `accounts` | table `users`; which invite made the account, and when, for the property only |
| `registration` | the calls of `register` and how far their transactions are |

`FindInvite` waits for the row lock (`FOR UPDATE`) and looks at what is
committed, with the `NOW()` of the transaction's begin; `CreateUser` waits for
an insert of the same nickname that is not committed and then fails or goes on;
`RegisterCommit` is `mark_used`, whose row count nobody looks at, and the commit.
`RegisterFails` is a rollback between any two of them.

### BundlePool (server)

`prekeys` and `consumed` are table `one_time_prekeys`; `bundle` the calls of
`fetch_prekey_bundle`, each a transaction (one connection) that asks the pool
for a second one (`find_device_bundle`, `messaging.rs:24`), then picks the first
prekey that is neither consumed nor locked and commits. `BundleTimeout` is the
pool's `acquire_timeout` of five seconds (`main.rs`), the only thing that ends
the wait when all connections are held by calls that want another.
`UploadPrekeys` keeps rows that are there already: it appends what stands at the
places of its list whose prekey has no row and no earlier place. Other users of the pool are
left out: they take one connection and give it back.

### BlobUpload (client and server)

| State | Code |
|---|---|
| `blobs` | table `blobs`, the data as the chunks appended to it |
| `upload` | the send worker of a device: file picked, read and encrypted, blob created, next chunk |
| `fileSent`, `download`, `saved` | the messages that name a blob; the workers that save one; the files saved |
| `refused` | history variable: sizes of files the server called too large |

The size is checked when the file is picked, when it is read (it may have
changed), and by the server after a chunk was stored (`append_blob_chunk`), or
before for a blob in one piece (`UploadWhole`). Encryption adds `Overhead`. An
answer may be lost after any step that stored something; the client then gives
up, which is what keeps a chunk from being stored twice in a blob that is named.
`Bytes` adds up the chunks of a blob; one that was uploaded whole is one chunk of
any size.

### DevicePresence (server)

One device, its tokens and websockets, and the clients that log in as it.
`onlineSet` and `seenAgo` are `ONLINE_DEVICES` and `DEVICE_LAST_SEEN` of
`realtime.rs`, the latter as the time that has passed. `SocketOpen`,
`SocketInsert`, `SocketMark`, `SocketClose` are the steps of `ws_realtime` and
`run_session`: the end of any websocket takes the device out of the set. A
logout forgets the token at once and leaves the request to a thread
(`Logout`, then `LogoutAuthorize` and `LogoutRevoke`, or `LogoutFails`).
`PollPeriod` is the time by which a websocket's loop comes round, 1.2 s and what
its drain and sends take; that it is not above the 20 s of `OnlineTTL` assumes
that the latter take less than 18.8 s.

### LoginRateLimit (server)

The entry of one account, with times counted from now. `LoginAllow`,
`LoginFailed` and `LoginSucceeded` are the lock sections of `login_rate_limit.rs`
as `handlers/user.rs` calls them, with the password check between them;
`failed` is a history variable: `failed[a]` are the failures of the last `a`
seconds.

### LocalVault (client library)

The key file of one profile, `keyFile`, with the password that locks it, the
unencrypted file of an older version, `legacy`, and the login worker that moves
the one to the other (`Migrated`), reads it (`LoadKeys`; what does not open
counts as absent, and new keys are made), writes it back (`SaveKeys`) and
publishes it (`RegisterSend`, `UpsertDevice`, which may happen after the worker
gave up). A write or copy is done, not begun, or torn. `forfeit` is a history
variable: the accounts whose key a failed write, or a login with another
password, has cost the profile. There is one profile and one program on it;
another computer that logs in to the account publishes keys of its own under the
same `DEFAULT_DEVICE_ID`, which for the peers is a change of identity and in
`PeerTrust`.

### PeerTrust (client)

| State | Code |
|---|---|
| `current[p]` | the identity key the server gives out for `p` |
| `session[p]` | the key the session with `p` is derived from |
| `pinned`, `pinsFile` | `peer_identity_key_by_peer` in memory and in the history file; the signing key goes with it |
| `warned` | `key_change_peer` |
| `opening`, `syncing`, `trusting` | the workers of `open_chat`, `sync_incoming` and `trust_new_peer_identity` |
| `accepted`, `slipped` | history variables |

A worker fetches a bundle and derives a session in one step each, and the pins
are compared when its result is applied, against the copy it was started with
(the refresh of a sync) or against the pins of that time. A sync has at most one
message of each peer. `slipped` names what escapes a warning by the code as it
is, so that `UnpinnedSessionWarned` says what holds otherwise: opening a chat
fails after the session was derived, one warning replaces another, trusting one
peer clears the warning of another, a refresh gets a newer bundle than the one
compared, and the end of the program. Logout and login load the pins as
`TrustRestart` does, except that the warning stays. `VerifiedAll` compares the
bundles of a result one after the other, since one warning replaces another.

### Playback (client)

`waiting` is how many samples are queued for the loudspeaker, by the WebRTC
track and the data channel; `playing` the variable of the output stream's
closure; `heard` and `broken` are history variables. `Callback` is one call of
that closure, frame by frame (`BufferOut`, `FrameOut`), with the threshold to start, the one
to stop and the two at which old samples are dropped.

### Versions (server and client)

`VersionGt` and `ParseVersion` are the comparison that `version_gate.rs` and
`updater.rs` have each a copy of. A release publishes its manifest (`Publish`)
and then raises the server's minimum (`Deploy`). The client checks for updates
when it starts (`StartClient`) and whenever the user presses the button in the
settings (`CheckNow`), which are open before and after a login; `CheckForUpdates` does
nothing while a check is under way. A check is read by its worker (`ReadManifest`)
and applied later (`PollUpdateResult`), so that a refusal, a release or a new
minimum may come in between; without an update and after an error the client keeps
the offer it has. It is refused by the gate (`ClientAsks`) and installs what is
offered. `outdated`, `told` and the field `seen` of a check are history variables: the server has
refused this version, and the minimum it had when the manifest was read after that.
`RefusedIsOffered` says of every check, not only of the first, that such a client must
update and is offered a version that is newer and not refused in its turn.

## 4. Runs and bounds

| Run | Instance | Shows |
|---|---|---|
| `mailbox_safety` | 2 users with a device each, 2 messages to the same device, 2 sends and 2 drains in flight, limits 0 (clamped to 1) and 9 (clamped to 2), 2 inserts | every invariant of `Mailbox`, and the refinement |
| `mailbox_order` | 3 messages from one device to another, 2 sends, one drain at a time, 3 inserts | order of receipt |
| `server_live` | 2 messages, one send and one drain at a time; or 3 bundle requests, 2 connections, 2 prekeys | every stored message arrives; every bundle request ends |
| `sessions_safety` | 2 clients, one contact message and two texts, a fetch returns 2, one crash, reset or deleted chat | invariants of `PeerSessions` |
| `sessions_live` | 2 clients, one contact message and one text, the same upset | texts are shown unless starved |
| `chat` | two texts sent, one incoming, two logouts, deletions or ends of the program | invariants of `ChatStatus`, and that statuses settle |
| `chat_kept` | one text each way, one upset | a divergence of section 7 |
| `parts` | one of ten parts: | |
| | signaling: 2 devices, 2 calls, a queue of 3, limits 0, 2 and 9 (capped to 3), 4 signals | `SignalsConserved`, `SignalsInOrder` |
| | registration: 2 calls, 2 nicknames, 2 invites that last one of three days | `OneInviteOneAccount` |
| | prekeys: 3 calls, 3 connections, 2 prekeys, an upload that overlaps another | `PrekeyOnce` |
| | blobs: 2 devices, 2 blobs, a limit of 4, files of 1, 4 and 5, chunks of 2, overhead 1 | `ReferencedComplete`, `BlobBounded` |
| | presence: 2 clients, tokens and websockets, a mark lasts 2, a loop takes 1 | `ConnectedIsOnline`, `LateLogoutHarmless` |
| | rate: 2 logins at once, 3 attempts, a window of 2, a block of 4 | `AttemptsBounded` |
| | vault: 2 accounts, 2 passwords, 3 keys | `IdentityKept` |
| | trust: 2 peers, 2 changes of keys, 3 chats opened, resets, syncs and restarts | `UnpinnedSessionWarned` |
| | playback: thresholds 2, 5, 9 and 20, packets of 1, 3 and 8, buffers of 0, 1 and 4 | `NoStutter` |
| | versions: 4 versions with two to four parts, two of them with a part that is no number, 2 starts, any number of checks | `RefusedIsOffered` |
| `calls` | one call, one click on decline or hang up, one loss | invariants of `Calls`, and that nobody waits or talks alone for ever |
| `calls_busy`, `calls_unasked` | one call; one call each way; nothing lost | two divergences of section 7 |
| `sessions_starved` | 2 clients, a contact message each way and one text, nothing fails | the finding of section 7 |

Why the bounds are enough for what they show: two drains are what it takes for
two to overlap, two sends for a repeated message id or for inserts that commit
in the other order than they started, limit 1 with two pending messages for a
batch that is cut, limit 2 for one that is not. With three messages in
`mailbox_order` the store can hold one message that was handed out, one that is
locked by an aborted drain and a newer one. One upset is what it takes to use a
counter twice, to restart a chain or to bring back a deleted text; with one
contact message and two texts a batch can be stale as a whole, in part, or in
its first message only. Symmetry is used for safety only, among calls, drains
and messages that the instance does not tell apart.

In `chat` two upsets are what it takes to log out with work in flight and
log in again before the program ends or the chat is deleted; two texts and an
incoming one fill a chat again up to an index that a result still refers to.

In `parts`, four signals fill a queue of three and push one out. Three
connections let two calls hold a prekey each while the third connection is used
for lookups; two connections, in `server_live`, can all be held by calls that
wait for another. A file of 4 with its overhead is the file the client allows and
the server refuses, in three chunks of which the last is short. Two websockets
are what it takes for one to end while the other is open, two clients for a late
logout beside another login. Two logins at once make the gap between the lock
sections cost one attempt more, and two windows of two fit between the failures
of one span. Two accounts have the same password in some initial states and
different ones in others. Two peers are what it takes for one warning to
replace another, two changes for a key to change between two fetches of one
worker after an earlier change. Peers, and passwords, are alike for all modules
of `parts`, which gives its symmetry.

In `calls` a
click and a loss are what it takes for an end to leave while the other answers,
gives up or misses a signal; two signals per fetch split the four or five
signals of a call over several answers. A second call to follow the first makes
the graph too large for a run with liveness; where calls meet is what
`calls_unasked` is about.

Deadlock is not checked for `PeerSessions`, where all messages may have been
sent, chats deleted and workers ended, nor in `parts` and `server_live`, where
what is bounded (messages, days, releases, restarts) may be used up; in the other
runs something is always enabled and deadlock is checked.

## 5. Fairness

`Mailbox`: devices poll for ever (`app.rs`, every two seconds, one poll at a
time), so a drain that is possible again and again is taken; a transaction that
is possible again and again commits in the end; answers may be lost, but not
for ever (strong fairness of the full answer). Acknowledgements and sends have
no fairness.

`BundlePool`: statements are answered and a wait for a connection ends after five
seconds at the latest (weak fairness of a call's progress, the timeout among its
steps). Nobody is obliged to make a request.

`PeerSessions`: the sync worker is restarted every two seconds and each of its
steps ends (weak fairness); bundle requests, refreshes and acknowledgements may
fail but not for ever (strong fairness of the successful outcome); the user
comes back to each chat (strong fairness of `SelectChat`), which is what the
acknowledgement depends on. Fairness is assumed only of clients that texts are
sent to, and nobody is obliged to send. Upsets are bounded, so no crash happens
for ever.

`ChatStatus`: requests end (30 s timeout of the transport) and results are
polled once per frame (weak fairness); while a user is logged in a sync is
started every two seconds, and its status query is answered in the end (strong
fairness: it may fail, but not for ever). Sending, logging in, deleting and the
server's own progress have no fairness. `StatusesSettle` asks only of a user
who stays logged in.

`Calls`: requests end and results are polled in each frame (weak fairness, of
lost requests too); a call that has waited 45 seconds is given up in the first
frame that has no fetch under way, which comes again and again (strong fairness
of `NoAnswer`). Nobody has to click, accept or fetch messages.

## 6. Proofs

Every invariant of the passing runs, the refinement of `MessageLifecycle` and the
action property `IdentityKept` are proved, for every value of the constants that
satisfies the named assumptions. For three of the four runs that show a violation
it is proved as well where it comes from. The instances of
section 4 show that the assumptions can be met and that the interesting cases
happen; the proofs show that nothing depends on their size.

| Module | Proves about | Rests on |
|---|---|---|
| `MailboxProofs` | `Mailbox` | `MailboxAssumption`, `NoneAssumption` |
| `PeerSessionsProofs` | `PeerSessions` | `PeerSessionsAssumption` |
| `ChatStatusProofs` | `ChatStatus` | `ChatStatusAssumption`, `NoneAssumption` |
| `SignalQueueProofs` | `Places`, `SignalQueue`: lemmas only | `QueueAssumption` |
| `CallsProofs` | `Calls` | `CallsAssumption`, `NoneAssumption` |
| `ServerPartsProofs` | `Registration`, `DevicePresence`, `CallSignaling`, `BundlePool`, `LoginRateLimit` | the assumption of each |
| `ClientPartsProofs` | `LocalVault`, `Versions`, `Playback`, `BlobUpload`, `PeerTrust` | the assumption of each |
| `PartsProofs` | `Parts`: the ten parts of the last two modules in one specification | those |

The assumptions say which sets are finite, that placeholders (`None`, `NoPeer`
and the like) are no values, and how limits compare (a block lasts longer than a
window, a threshold to start lies above the one to stop).

### Lemmas about loops

The library's rules of induction take an operator as a parameter, which none of
the provers can instantiate. `SignalQueueProofs` states what the proofs need with sets
instead: `SetInduction` (a set with 0 that has `n + 1` whenever it has `n` has
every number), `StepsExist` (a course of `n` steps of a function exists, so a
recursive function that is defined step by step has the values its definition
says), both from the library's well-foundedness of the numbers. From them follow
`AtInOrder` (what `At` returns stands in the order of its places), and what
`Bytes`, `BufferOut` and `VerifiedAll` compute for every input. `LargestExists` in
`PeerSessionsProofs` uses the order of finite subsets in the same way.

### Mailbox

- `TypeCorrect`, `BatchStaysUnread`: `TypeOK` and `SelectedStayPending` are
  proved together: `DrainCommit` and `DrainReply` write rows of a batch, and
  that these rows exist is what `SelectedStayPending` says; it is preserved by
  `Ack` because an acknowledgement does not touch locked rows.
- `StatusIsTrue`, `ReadIsTrue`: neither `HeldIsDelivered` nor
  `ReadWasReceived` is inductive: an answer on its way is held by nobody yet.
  `DeliveryInv` adds that the batch of a committed drain is delivered and
  addressed to the drain's device (`CommittedDelivered`); it is established by
  `DrainCommit` from `SelectedStayPending` and carried to `got` by `DrainReply`.
- `DrainsStayDisjoint` from the locks of `DrainSelect`; `AcceptedExactlyOnce`
  from rows never going away.
- `BlocksRespected`: `CallsClear` says of each call under way that at some moment
  since its arrival there was no block, or that it is still to find the one there is.
- `StampsFollowOrder`: `StampInv` adds that the clock is ahead of all rows and of
  the stamps that calls have taken, and that what was stored before a call began
  is stamped before it.
- `DeliveredInOrder`: from `StampInv`, the rows a drain holds have every earlier
  one either handed out or in the same batch (`BatchInOrder`). It has a
  hypothesis, `OneDrainAtATime`, without which the property is
  false: two drains may answer in the other order.
- `MailboxImplementsLifecycle`: every step of `Next` is a step of
  `MessageLifecycle` or leaves its variables unchanged, given these invariants
  before and after the step.

### PeerSessions

- `TypeCorrect`, with the places of a batch being places of the box
  (`BatchInBox`).
- `NoDuplicatesHolds`, `AckedWasShownHolds`: `HistoryInv` counts the entries of a
  text, one when it is shown and none otherwise (`OneCopy`), and says that what is
  shown or being acknowledged was shown once (`ShownNow`, `AckShown`).
- `ReceiveBehindSentHolds`: `ChainInv` adds the session file, which a crash makes
  current (`SavedBehindSent`), and that a receiving chain stands behind the counter
  of a message in the box, which was posted (`MailPosted`). The chain advances to
  the largest counter of what was opened, hence `LargestExists`.
- `LostBehindContactHolds`: where `EveryTextShown` is violated (section 7), proved
  for any number of clients: a text behind a contact message of its sender, with a
  counter that is not above the contact message's, is never shown. Only what was
  shown is acknowledged, which a contact message never is, so a batch has every
  contact message ahead of what it has (`BatchWhole`). What a sync opens, and what
  was ever shown, is therefore behind none (`OpenedInFront`, `SeenInFront`), and
  remains so (`StaysInFront`): a box only grows at its end, by messages it does not
  have (`StoredOnce`), and a counter is fixed once the message is posted.

### ChatStatus

`TypeCorrect`, `StatusNotAheadHolds` and `OneEntryEachHolds`. None of the last two
is inductive: logout and login replace the chat by the file or by a history read
earlier, so `ChatInv` states them of every copy of the entries (`Sound`), and a
result finds its entry by an index alone. What makes that safe is `Indexed`: in
every copy the index holds the entry of the worker's text or of an incoming text
that took its place, because one text is sent at a time and a history that waits
to be loaded was read while nobody was logged in, hence could send. `ResultTrue`
and `AnswersTrue` say that results and answers in flight are true, and stay so
because the server goes forward (`ForwardStep`).

`HistoryKeptOnline` says where the violation of `HistoryKept` (section 7) comes
from: with the hypothesis `ResultsOnline`, that no result is applied while nobody is
logged in, nothing leaves the file unless its chat is deleted. The invariant is
`Holding`: what a user who is logged in has in memory, and what a login has read,
holds every entry of the file.

### Calls

The proofs go by three descriptions of a step that hold of every action: where
signals come from and where they go (`Flow`: what is under way stays so, or is
received, or dropped without harm to a call that is not muddled), what a step does to a window
(`Moves`), and how a call begins (`Beginnings`). The invariants are then preserved
by the description instead of by each of twenty actions.

- `TypeCorrect`, with a session being made for the call of the window only.
- `NobodyAloneHolds`: `AloneInv`. Who is through with a call that is not muddled
  has told the other, or the signal is under way (`ToldInv`), and such a signal is
  only ever sent by one who is through (`EndingsInv`); a call that was offered has
  a caller (`OfferedInv`), one that was answered a callee (`AnsweredInv`).
- `MediaMadeHolds`: `MediaInv`. Each end has its own kind of session
  (`SessionsInv`), offers and replies go to the right end (`PayloadsInv`), nothing
  happens at the callee before the caller has offered (`OffersFirst`), and what was
  offered or replied is under way or was taken up (`OffersInv`, `RepliesInv`).
- `AcceptedFirstHolds`: where `MediaAfterAccept` is violated (section 7), what holds
  all the same: unless a signal of the call was lost or misdirected, no client
  takes a call for accepted, or makes a session for its sound, before the user who
  is called has clicked. `ClickedInv` adds that an answer under way is one to a call that was
  accepted, and so is an offer or a reply of a call that is not muddled. A client
  begins such a session only after it has heard one of these (`SessionBegins`).

### The parts of the server

- `OneInviteOneAccountHolds`: the invariant says nothing of calls under way, so
  `RegistrationInv` adds that a call that holds the lock of an invite is alone in
  that, and that the invite is unused and good for it (`HoldersAlone`), and the
  same of nicknames that are inserted and not committed (`NamesAlone`).
- `ConnectedIsOnlineHolds`: since the end of one websocket empties the set for
  all, the set is of no use; what holds is that the device was seen since each
  open websocket was heard of last (`SeenWithSockets`), which is less than
  `PollPeriod` ago.
- `LateLogoutHarmlessHolds`: a token is with one client or with one logout, and
  was given out once (`TokensApart`).
- `SignalsConservedHolds`, `SignalsInOrderHolds`: the queue is increasing, and a
  device has received what comes before anything of the same call that still waits
  for it (`ReceivedFirst`).
- `PrekeyOnceHolds`: two calls that have picked hold different prekeys, which
  nobody has consumed (`LocksApart`).
- `AttemptsBoundedHolds`: `OpenBounded` and `BlockedBounded` bound the failures of
  every age, not only of the whole window, by what the current window has counted,
  what earlier ones may have left, and the logins still under way.

### The parts of the client

- `IdentityKeptHolds`: `VaultInv` says of each account that has not forfeited its
  key that what is published, requested or carried by a login is the key the
  profile has, and that a login goes on without a file of this version only if the
  old file had nothing for that account, which the move of the old file needs.
- `RefusedIsOfferedHolds`: what is published supports itself and asks for no less
  than the server, and `VersionGt` is transitive, so what a worker reads after a
  refusal is an update that the server takes (`RefusedReads`). `VersionInv` says this
  of a result on its way as well, and that none from before the refusal can replace
  the offer once the client was told: there is one check at a time.
- `NoStutterHolds`: while it plays, what was heard and what waits are together at
  least the room between the two thresholds (`Steady`), frame by frame through a
  buffer.
- `ReferencedCompleteHolds`, `BlobBoundedHolds`: `UploadInv` says of each blob
  under way that it is its worker's own, holds the chunks sent so far, each once and
  in order, as many chunks and bytes as the worker counts, within the limit, and is
  named by no message; and of each message that its blob is the file.
- `UnpinnedSessionWarnedHolds`: the property is inductive with the types of the
  workers (`TrustTypes`): one that has fetched a bundle carries its key until its
  result is applied, and the bundle that a refresh goes with is in the result
  already. `AllMet` is the lemma about a result: each of its bundles ends up pinned,
  warned of, or with its warning replaced, and so does the warning that stood.
- `TrustTypeCorrect`: a key is a number up to the bound of the changes of all peers,
  so the type needs more than `TrustTypes`: each key is at most the number of
  changes so far (`ChangeLeft`), which are finitely many. That is part of the
  invariant (`TrustShape`); that there are finitely many peers is not assumed.

### The parts together

The run `parts` checks one specification, whose initial states choose a part that
then runs alone, and the theorems above are about ten. `PartsImplementEach` relates
them: a step of `Parts` is a step of the chosen part and leaves the variables of the
others unchanged, so `PartsSpec` implements the specification of each.
`PartsTypeCorrect` and `PartsCorrect` carry the type invariant and the properties
that the run checks over to it.

### What the attempts found

Two things in the models were wrong, and showed because a proof did not go
through. `AttemptsBounded` claimed two windows' worth of failures for any number of
logins at once; when there are more of them than failures that block, some can
outlast the whole block and be counted in a third window (five logins, three
attempts, a window of 2 and a block of 5 show it). The property says so now. And the
type of a chunk was bounded by the chunk size, which a blob uploaded in one piece
does not obey. Where the models had folds and filters of sequences (the batch of a
sync, the queue of signals, the upload of prekeys) they now speak of sets of places,
which says the same and can be proved about.

### What stays with TLC

- `EveryMessageArrives`, `RequestsEnd`, `ShownUnlessStarved`, `StatusesSettle`,
  `CallerNotKept` and `OtherFollows`: liveness under fairness, which the prover does
  not reach.
- `HistoryKept`, `BusyInAnother`, `MediaAfterAccept` and `EveryTextShown`, which the
  code violates (section 7). For all but `BusyInAnother` a theorem above says where
  the violation comes from, or what holds in its place.

## 7. What the code does otherwise than documented

`docs/ARCHITECTURE.md:60-62` describes delivery: the server returns pending
envelopes, the recipient decrypts them. `sessions_starved` shows two users who
open a chat with each other, after which one writes, and the text is never
decrypted although nothing fails. The contact messages that opening a chat
sends are never acknowledged (`app.rs:1879-1892`), so every later sync fetches
them again, finds them stale and refreshes the session (`app.rs:3333-3376`),
which also sets the counter of the sending chain back to 0 (`core.rs:600-610`).
The next text takes a counter that a contact message took before. At the
recipient each refresh opens the contact message first, which is earlier in the
box, and the text is stale again.

`ShownUnlessStarved` says that this is the only way to lose a text in the
model: ahead of it in the box is a message of the same sender, with a counter
not below its own, that nothing will acknowledge. Such a message is a contact
message, or a text marked read whose acknowledgement died with the client.

`docs/USER_GUIDE.md:143` says that the history is stored on the device, and line
158 that deleting local data loses it. `chat_kept` shows that logging out loses
it too, when a text is being sent: logout empties the history in memory
(`app.rs:642`), the result of the send comes and is saved (`app.rs:1489`), and
the empty history replaces the encrypted file, now in clear. `apply_sync_success`
does the same (`app.rs:1648`).

`crates/client-ui/locales/en.json:21` has the text "User is busy in another
call." `calls_busy` shows a callee that is in no other call: the invite signal
rings, then the encrypted invite of the same call is fetched, and
`push_incoming` (`app.rs:1963`) answers busy because a call is active, without
comparing the two. The caller closes the call.

`en.json:35` says "Incoming call. Media starts after you accept."
`calls_unasked` shows two users who call each other. One accepts; the other has
the incoming call in the window when the answer to the own call is brought by a
fetch that was started before. `poll_call_signals` (`app.rs:1097`) marks the
incoming call accepted and starts the WebRTC offer.

## 8. What is not modelled

Left out for good: microphone, camera, codecs, video and the peer connections of
WebRTC (work of libraries and devices; `Playback` has the queue behind them), the
desktop shell (rendering, settings, translations, tray), the statistics log, the
cryptographic primitives (one value in, one value out; the models use only that
chain keys are determined by the shared key and the position, and that what was
encrypted opens whole or not at all), HTTP plumbing and wire types.
`PROJECT.json` gives the reason per component.

Inside the modelled parts: identity keys do not change in `PeerSessions`, the
session file is always written when the code writes it (an error of the write
is ignored by the code), logout is in `ChatStatus` only, where one account uses
the profile and one client core its files, and a client blocked
by its own list is one that does not send. In `Calls` clients neither end nor
log out during a call, the checks of `send_call_signal` (online, not blocked)
are losses of a post, and microphone, camera and playback follow from `active`
and `media`.

Two programs on one profile, and a client core that is replaced by a login while
a worker of the old one is in flight, are not modelled: nothing the code says
tells which of the two should win the file. Neither is the arithmetic of
resampling, which is listed as a hazard.
