------------------------------ MODULE Mailbox ------------------------------
(***************************************************************************)
(* The message store of the server: the handlers send_message,             *)
(* fetch_pending and ack_message, the polling loop of a websocket session, *)
(* and the block list they consult, over the tables "messages" and         *)
(* "user_blocks".                                                          *)
(*                                                                         *)
(* A handler is split where another handler's statement can come between   *)
(* two of its own: send_message checks the block list in one statement and *)
(* inserts in another, the insert takes its created_at when it starts and  *)
(* becomes visible when it commits, and a drain holds row locks from its   *)
(* SELECT ... FOR UPDATE SKIP LOCKED until its transaction ends.           *)
(***************************************************************************)
EXTENDS Integers, FiniteSets

CONSTANTS
  Device,      \* registered devices
  User,        \* accounts
  Owner,       \* Owner[d]: the account device d belongs to
  Msg,         \* message ids, each drawn by the sender for one message
  From, To,    \* the sender and the recipient device of each message
  Request,     \* slots for send_message calls in flight
  Drainer,     \* slots for drains in flight: fetch_pending calls and websocket polls
  AskedLimit,  \* the limits callers ask for
  MaxLimit,    \* the cap on a drain's limit (500 in fetch_pending)
  MaxClock,    \* bound of the model: how many inserts are started in all
  None         \* no row, no call

Positive == Nat \ {0}

ASSUME MailboxAssumption ==
  /\ IsFiniteSet(Msg)
  /\ Owner \in [Device -> User]
  /\ From \in [Msg -> Device]
  /\ To \in [Msg -> Device]
  /\ AskedLimit \subseteq Int
  /\ MaxLimit \in Positive
  /\ MaxClock \in Nat

VARIABLES
  row,      \* row[m]: the row of table messages with message_id m, or None
  blocks,   \* table user_blocks: the pairs <<blocker, blocked>>
  send,     \* send[r]: the send_message call in slot r, or None
  drain,    \* drain[x]: the drain in slot x, or None
  got,      \* got[d]: the messages whose envelope reached device d
  accepted, \* accepted[m]: how many calls answered "accepted: true" for m
  clock     \* the database clock, one tick per insert started

vars == <<row, blocks, send, drain, got, accepted, clock>>

(***************************************************************************)
(* The values of the tables and of the calls in flight.  The fields below  *)
(* the line are history: what was true when the call arrived.              *)
(***************************************************************************)
History == [clear : BOOLEAN,        \* since arrival, neither user blocked the other at some moment
            after : SUBSET Msg]     \* messages for the same recipient stored before arrival

Row == [at : Nat, delivered : BOOLEAN, acked : BOOLEAN, history : History]

SendCall == [pc : {"arrived", "checked", "stamped"}, msg : Msg, at : Nat,
             history : History]

DrainCall == [pc : {"selected", "committed"}, dev : Device, batch : SUBSET Msg]

ASSUME NoneAssumption == None \notin Row \union SendCall \union DrainCall

TypeOK ==
  /\ row \in [Msg -> Row \union {None}]
  /\ blocks \subseteq User \X User
  /\ send \in [Request -> SendCall \union {None}]
  /\ drain \in [Drainer -> DrainCall \union {None}]
  /\ got \in [Device -> SUBSET Msg]
  /\ accepted \in [Msg -> Nat]
  /\ clock \in Nat

-----------------------------------------------------------------------------
Init ==
  /\ row = [m \in Msg |-> None]
  /\ blocks = {}
  /\ send = [r \in Request |-> None]
  /\ drain = [x \in Drainer |-> None]
  /\ got = [d \in Device |-> {}]
  /\ accepted = [m \in Msg |-> 0]
  /\ clock = 0

Stored(m) == row[m] # None

(* Mutant of Pending: a row once handed out is not handed out again. *)
PendingOnlyUndelivered(d) ==
  {m \in Msg : Stored(m) /\ To[m] = d /\ ~row[m].acked /\ ~row[m].delivered}

\* WHERE to_device = d AND acked_at IS NULL
Pending(d) == {m \in Msg : Stored(m) /\ To[m] = d /\ ~row[m].acked}

\* The rows a drain has selected FOR UPDATE and not yet committed.
Selecting(x) == drain[x] # None /\ drain[x].pc = "selected"
Locked == UNION {drain[x].batch : x \in {y \in Drainer : Selecting(y)}}

(* Mutant of Oldest: ORDER BY created_at DESC. *)
Newest(S, n) == {m \in S : Cardinality({k \in S : row[k].at > row[m].at}) < n}

\* ORDER BY created_at LIMIT n
Oldest(S, n) == {m \in S : Cardinality({k \in S : row[k].at < row[m].at}) < n}

\* limit.clamp(1, MaxLimit)
Clamp(n) == IF n < 1 THEN 1 ELSE IF n > MaxLimit THEN MaxLimit ELSE n

\* The first messages of a batch, in the order the rows were returned.
Prefixes(S) == {P \in SUBSET S : \A m \in P, k \in S : row[k].at < row[m].at => k \in P}

(* Mutant of BlockedIn: only the sender's own block is looked up. *)
BlockedOneWay(pairs, u, v) == <<u, v>> \in pairs

\* A row of user_blocks between the two users, in either direction.
BlockedIn(pairs, u, v) == <<u, v>> \in pairs \/ <<v, u>> \in pairs
Blocked(pairs, m) == BlockedIn(pairs, Owner[From[m]], Owner[To[m]])

\* For the history only: no row joins the two users, whoever made it.
Clear(pairs, m) == \A p \in pairs : {p[1], p[2]} # {Owner[From[m]], Owner[To[m]]}

-----------------------------------------------------------------------------
(***************************************************************************)
(* POST /v1/messages/send.  A call whose authenticated device is not the   *)
(* sender, or whose recipient device is not registered, is refused before  *)
(* any state is read or written and is not modelled as a step.             *)
(***************************************************************************)
SendArrive(r, m) ==
  /\ send[r] = None
  /\ send' = [send EXCEPT ![r] =
                [pc |-> "arrived", msg |-> m, at |-> 0,
                 history |-> [clear |-> Clear(blocks, m),
                              after |-> {k \in Msg : Stored(k) /\ To[k] = To[m]}]]]
  /\ UNCHANGED <<row, blocks, drain, got, accepted, clock>>

\* The block lookup: a blocked pair, in either direction, is answered 403.
CheckBlocks(r) ==
  /\ send[r] # None
  /\ send[r].pc = "arrived"
  /\ send' = [send EXCEPT ![r] = IF Blocked(blocks, @.msg) THEN None
                                 ELSE [@ EXCEPT !.pc = "checked"]]
  /\ UNCHANGED <<row, blocks, drain, got, accepted, clock>>

(* Mutants of BeginInsert: created_at kept in whole seconds; a clock set back. *)
BeginInsertWholeSeconds(r) ==
  /\ send[r] # None
  /\ send[r].pc = "checked"
  /\ clock < MaxClock
  /\ clock' = clock + 1
  /\ send' = [send EXCEPT ![r] = [@ EXCEPT !.pc = "stamped", !.at = (clock' + 1) \div 2]]
  /\ UNCHANGED <<row, blocks, drain, got, accepted>>

BeginInsertClockBack(r) ==
  /\ send[r] # None
  /\ send[r].pc = "checked"
  /\ clock < MaxClock
  /\ clock' = clock - 1
  /\ send' = [send EXCEPT ![r] = [@ EXCEPT !.pc = "stamped", !.at = clock + 1]]
  /\ UNCHANGED <<row, blocks, drain, got, accepted>>

\* The INSERT starts: created_at is the time its statement begins.
BeginInsert(r) ==
  /\ send[r] # None
  /\ send[r].pc = "checked"
  /\ clock < MaxClock
  /\ clock' = clock + 1
  /\ send' = [send EXCEPT ![r] = [@ EXCEPT !.pc = "stamped", !.at = clock']]
  /\ UNCHANGED <<row, blocks, drain, got, accepted>>

(* Mutant of CommitInsert: ON CONFLICT DO UPDATE. *)
CommitInsertOverwrites(r) ==
  /\ send[r] # None
  /\ send[r].pc = "stamped"
  /\ LET m == send[r].msg IN
       /\ row' = [row EXCEPT ![m] = [at |-> send[r].at, delivered |-> FALSE,
                                     acked |-> FALSE, history |-> send[r].history]]
       /\ accepted' = [accepted EXCEPT ![m] = @ + 1]
  /\ send' = [send EXCEPT ![r] = None]
  /\ UNCHANGED <<blocks, drain, got, clock>>

\* It commits: ON CONFLICT (message_id) DO NOTHING keeps an earlier row, and
\* the call answers accepted = (rows_affected = 1).
CommitInsert(r) ==
  /\ send[r] # None
  /\ send[r].pc = "stamped"
  /\ LET m == send[r].msg IN
       IF Stored(m)
         THEN UNCHANGED <<row, accepted>>
         ELSE /\ row' = [row EXCEPT ![m] = [at |-> send[r].at, delivered |-> FALSE,
                                            acked |-> FALSE, history |-> send[r].history]]
              /\ accepted' = [accepted EXCEPT ![m] = @ + 1]
  /\ send' = [send EXCEPT ![r] = None]
  /\ UNCHANGED <<blocks, drain, got, clock>>

\* The caller hangs up, or a statement fails: the handler is gone.
SendDropped(r) ==
  /\ send[r] # None
  /\ send' = [send EXCEPT ![r] = None]
  /\ UNCHANGED <<row, blocks, drain, got, accepted, clock>>

-----------------------------------------------------------------------------
(***************************************************************************)
(* drain_pending_messages, called by POST /v1/messages/fetch-pending and   *)
(* by every tick of a websocket session's poll.                            *)
(***************************************************************************)

(* Mutant of DrainSelect: FOR UPDATE SKIP LOCKED dropped. *)
DrainSelectUnlocked(x, d, asked) ==
  /\ drain[x] = None
  /\ drain' = [drain EXCEPT ![x] =
                 [pc |-> "selected", dev |-> d, batch |-> Oldest(Pending(d), Clamp(asked))]]
  /\ UNCHANGED <<row, blocks, send, got, accepted, clock>>

DrainSelect(x, d, asked) ==
  /\ drain[x] = None
  /\ drain' = [drain EXCEPT ![x] =
                 [pc |-> "selected", dev |-> d,
                  batch |-> Oldest(Pending(d) \ Locked, Clamp(asked))]]
  /\ UNCHANGED <<row, blocks, send, got, accepted, clock>>

(* Mutant of DrainCommit: the answer is sent and the transaction rolled back. *)
DrainCommitRolledBack(x) ==
  /\ Selecting(x)
  /\ drain' = [drain EXCEPT ![x] = [@ EXCEPT !.pc = "committed"]]
  /\ UNCHANGED <<row, blocks, send, got, accepted, clock>>

\* Every selected row gets delivered_at, and the transaction commits.
DrainCommit(x) ==
  /\ Selecting(x)
  /\ row' = [m \in Msg |-> IF m \in drain[x].batch
                             THEN [row[m] EXCEPT !.delivered = TRUE] ELSE row[m]]
  /\ drain' = [drain EXCEPT ![x] = [@ EXCEPT !.pc = "committed"]]
  /\ UNCHANGED <<blocks, send, got, accepted, clock>>

\* A statement fails or the caller hangs up: the transaction rolls back.
DrainAbort(x) ==
  /\ Selecting(x)
  /\ drain' = [drain EXCEPT ![x] = None]
  /\ UNCHANGED <<row, blocks, send, got, accepted, clock>>

\* What reaches the device: the whole batch or nothing over HTTP, any first
\* part of it over a websocket that breaks while the messages are sent.
DrainReply(x, arrives) ==
  /\ drain[x] # None
  /\ drain[x].pc = "committed"
  /\ arrives \in Prefixes(drain[x].batch)
  /\ got' = [got EXCEPT ![drain[x].dev] = @ \union arrives]
  /\ drain' = [drain EXCEPT ![x] = None]
  /\ UNCHANGED <<row, blocks, send, accepted, clock>>

(***************************************************************************)
(* POST /v1/messages/ack, by a device for messages it has received.  The   *)
(* UPDATE waits for the row locks of a drain; an empty list is answered    *)
(* without a statement; rows acknowledged before are left alone.           *)
(***************************************************************************)

(* Mutants of Ack: no wait for row locks; the list of ids not looked at. *)
AckThroughLocks(d, S) ==
  /\ S # {}
  /\ S \subseteq got[d]
  /\ row' = [m \in Msg |-> IF m \in S \intersect Pending(d)
                             THEN [row[m] EXCEPT !.acked = TRUE] ELSE row[m]]
  /\ UNCHANGED <<blocks, send, drain, got, accepted, clock>>

AckWholeMailbox(d, S) ==
  /\ S # {}
  /\ S \subseteq got[d]
  /\ Pending(d) \intersect Locked = {}
  /\ row' = [m \in Msg |-> IF m \in Pending(d)
                             THEN [row[m] EXCEPT !.acked = TRUE] ELSE row[m]]
  /\ UNCHANGED <<blocks, send, drain, got, accepted, clock>>

Ack(d, S) ==
  /\ S # {}
  /\ S \subseteq got[d]
  /\ S \intersect Locked = {}
  /\ row' = [m \in Msg |-> IF m \in S \intersect Pending(d)
                             THEN [row[m] EXCEPT !.acked = TRUE] ELSE row[m]]
  /\ UNCHANGED <<blocks, send, drain, got, accepted, clock>>

-----------------------------------------------------------------------------
\* POST /v1/users/block: nobody blocks himself.
Block(u, v) ==
  /\ u # v
  /\ blocks' = blocks \union {<<u, v>>}
  /\ UNCHANGED <<row, send, drain, got, accepted, clock>>

\* POST /v1/users/unblock.  Calls in flight remember that the pair was clear.
Unblock(u, v) ==
  /\ blocks' = blocks \ {<<u, v>>}
  /\ send' = [r \in Request |->
                IF send[r] # None /\ Clear(blocks', send[r].msg)
                  THEN [send[r] EXCEPT !.history.clear = TRUE] ELSE send[r]]
  /\ UNCHANGED <<row, drain, got, accepted, clock>>

\* The server process dies: every call in flight is gone, the tables stay.
Crash ==
  /\ send' = [r \in Request |-> None]
  /\ drain' = [x \in Drainer |-> None]
  /\ UNCHANGED <<row, blocks, got, accepted, clock>>

-----------------------------------------------------------------------------
SendStep(r) ==
  \/ \E m \in Msg : SendArrive(r, m)
  \/ CheckBlocks(r) \/ BeginInsert(r) \/ CommitInsert(r) \/ SendDropped(r)

DrainStep(x) ==
  \/ \E d \in Device, asked \in AskedLimit : DrainSelect(x, d, asked)
  \/ DrainCommit(x) \/ DrainAbort(x)
  \/ \E arrives \in SUBSET Msg : DrainReply(x, arrives)

Next ==
  \/ \E r \in Request : SendStep(r)
  \/ \E x \in Drainer : DrainStep(x)
  \/ \E d \in Device, S \in SUBSET Msg : Ack(d, S)
  \/ \E u, v \in User : Block(u, v) \/ Unblock(u, v)
  \/ Crash

Spec == Init /\ [][Next]_vars

(***************************************************************************)
(* A device polls for ever (app.rs, every two seconds, one poll at a time: *)
(* the runs under fairness have one drain slot), the server ends what it   *)
(* starts, and answers get through again and again although any one of     *)
(* them may be lost.  Nobody is obliged to acknowledge anything.           *)
(***************************************************************************)
Fairness ==
  \A d \in Device :
    /\ SF_vars(\E x \in Drainer, asked \in AskedLimit : DrainSelect(x, d, asked))
    /\ SF_vars(\E x \in Drainer : drain[x] # None /\ drain[x].dev = d /\ DrainCommit(x))
    /\ SF_vars(\E x \in Drainer : drain[x] # None /\ drain[x].dev = d
                                    /\ DrainReply(x, drain[x].batch))

FairSpec == Spec /\ Fairness

-----------------------------------------------------------------------------
\* Two drains that overlap never hold the same row, so no message is handed to
\* two connections of a device by transactions in flight at the same time
\* (FOR UPDATE SKIP LOCKED).
DisjointDrains ==
  \A x, y \in Drainer :
    x # y /\ Selecting(x) /\ Selecting(y) => drain[x].batch \intersect drain[y].batch = {}

\* What a drain has selected stays unread until it commits: no acknowledgement
\* gets between its SELECT and its UPDATE.
SelectedStayPending ==
  \A x \in Drainer : Selecting(x) => drain[x].batch \subseteq Pending(drain[x].dev)

\* A message the recipient holds is shown as delivered to its sender, and only
\* the recipient it was addressed to ever holds it, whatever transaction rolled
\* back or answer was lost on the way.
HeldIsDelivered ==
  \A d \in Device : \A m \in got[d] : Stored(m) /\ To[m] = d /\ row[m].delivered

\* The sender is shown "read" only for a message that was delivered and that the
\* recipient's device really received.
ReadWasReceived ==
  \A m \in Msg : Stored(m) /\ row[m].acked => row[m].delivered /\ m \in got[To[m]]

\* A send that arrived under a block is not stored unless the block was lifted
\* while the call ran: the check of user_blocks is not skipped or one-sided.
BlockRespected ==
  \A m \in Msg : Stored(m) => row[m].history.clear

\* Of all the calls that carry one message id, in any order and after any loss or
\* crash, exactly the one that stored the row was answered "accepted: true".
AcceptedOnce ==
  \A m \in Msg : accepted[m] = IF Stored(m) THEN 1 ELSE 0

\* A message whose send began after another message for the same device was
\* stored carries a later created_at.
StampOrder ==
  \A m \in Msg : Stored(m) =>
    \A k \in row[m].history.after : Stored(k) /\ row[k].at < row[m].at

\* A device whose drains never overlap receives such messages in that order,
\* whatever was rolled back, lost, cut short or acknowledged in between.
InOrder ==
  \A m \in Msg : m \in got[To[m]] => row[m].history.after \subseteq got[To[m]]

\* A stored message reaches its recipient, even if nothing is ever acknowledged,
\* as long as no more messages are pending than one drain may return.
EveryMessageArrives ==
  \A m \in Msg : Stored(m) ~> m \in got[To[m]]

-----------------------------------------------------------------------------
\* The tables and the devices' holdings, seen as the life of each message.
PhaseOf(m) == IF ~Stored(m) THEN "unsent"
              ELSE IF row[m].acked THEN "read"
              ELSE IF row[m].delivered THEN "delivered" ELSE "stored"

Lifecycle == INSTANCE MessageLifecycle
               WITH phase <- [m \in Msg |-> PhaseOf(m)], held <- got

\* Every step of the handlers is a step of a message's life, or none: a message
\* never goes back from read to delivered or from delivered to stored, whatever
\* the interleaving, and is read only by a device that holds it.
ImplementsLifecycle == Lifecycle!LifecycleSpec
=============================================================================
