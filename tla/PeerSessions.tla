---------------------------- MODULE PeerSessions ----------------------------
(***************************************************************************)
(* The peer sessions of the clients (client-core) and the synchronisation  *)
(* flow that uses them (client-ui): sealing a message with the next key of *)
(* a chain, fetching what is pending, opening it, replacing sessions when  *)
(* nothing opens, showing it, and acknowledging what the user has read.    *)
(*                                                                         *)
(* Both chains of a session start from the same static Diffie-Hellman key  *)
(* of the two devices, so the n-th key of a chain is a function of n and a *)
(* message opens exactly when the receiver reaches the sender's counter: a *)
(* session is its two counters.  Identity keys do not change here.         *)
(*                                                                         *)
(* Concurrent actors of one client: the user interface, the sync worker,   *)
(* one worker for texts, one for opening a chat, one for acknowledgements. *)
(* They share the sessions under a mutex that is released between the      *)
(* sealing of a message and its POST.                                      *)
(***************************************************************************)
EXTENDS Integers, FiniteSets, Sequences, Functions

CONSTANTS
  Device,      \* one device per client
  Msg,         \* message ids, each drawn by its sender for one message
  From, To,    \* the sender and the recipient of each message
  Contact,     \* the messages that carry no text: sent when a chat is opened
  FetchLimit,  \* how many pending messages one fetch returns (100)
  MaxUpset,    \* bound of the model: crashes, session resets and deleted chats in all
  None         \* no session, no worker, no chat selected

Text == Msg \ Contact

ASSUME PeerSessionsAssumption ==
  /\ IsFiniteSet(Msg)
  /\ From \in [Msg -> Device]
  /\ To \in [Msg -> Device]
  /\ \A m \in Msg : From[m] # To[m]
  /\ Contact \subseteq Msg
  /\ FetchLimit \in Nat \ {0}
  /\ MaxUpset \in Nat

VARIABLES
  session,   \* session[c][p]: client c's session with p in memory, or None
  saved,     \* saved[c][p]: the same in c's session file
  post,      \* post[m]: the worker that sends m and the counter it sealed m with
  box,       \* box[c]: the messages stored for c, by created_at
  acked,     \* the messages acknowledged in the store
  sync,      \* sync[c]: c's sync worker, or None
  history,   \* history[m]: how the recipient's history shows the incoming text m
  copies,    \* copies[m]: how many entries of that history carry m's id
  seen,      \* the texts their recipient's history has ever shown
  acking,    \* acking[c]: the messages of c's acknowledgement in flight
  selected,  \* selected[c]: the chat c's user is looking at, or None
  upsets     \* crashes, session resets and deleted chats so far

serverVars == <<box, acked>>
uiVars     == <<history, copies, seen, acking, selected>>
vars == <<session, saved, post, serverVars, sync, uiVars, upsets>>

Session == [send : Nat, recv : Nat]
Worker  == [pc : {"unsent", "started", "sealed", "posted", "ended"}, counter : Nat]
Sync    == [pc : {"fetched", "refresh", "apply"},
            batch : SUBSET Nat,     \* the fetched messages, as places in the box
            left : SUBSET Nat,      \* those of them the refresh has not come to
            refreshed : BOOLEAN, opened : SUBSET Msg]

TypeOK ==
  /\ session \in [Device -> [Device -> Session \union {None}]]
  /\ saved \in [Device -> [Device -> Session \union {None}]]
  /\ post \in [Msg -> Worker]
  /\ box \in [Device -> Seq(Msg)]
  /\ acked \subseteq Msg
  /\ sync \in [Device -> Sync \union {None}]
  /\ history \in [Msg -> {"none", "unread", "reverted", "read"}]
  /\ copies \in [Msg -> Nat]
  /\ seen \subseteq Text
  /\ acking \in [Device -> SUBSET Msg]
  /\ selected \in [Device -> Device \union {None}]
  /\ upsets \in 0 .. MaxUpset

Init ==
  /\ session = [c \in Device |-> [p \in Device |-> None]]
  /\ saved = session
  /\ post = [m \in Msg |-> [pc |-> "unsent", counter |-> 0]]
  /\ box = [c \in Device |-> <<>>]
  /\ acked = {}
  /\ sync = [c \in Device |-> None]
  /\ history = [m \in Msg |-> "none"]
  /\ copies = [m \in Msg |-> 0]
  /\ seen = {}
  /\ acking = [c \in Device |-> {}]
  /\ selected = [c \in Device |-> None]
  /\ upsets = 0

-----------------------------------------------------------------------------
NewSession == [send |-> 0, recv |-> 0]

Stored(m) == m \in Range(box[To[m]])
InFlight(m) == post[m].pc \in {"started", "sealed", "posted"}

\* One worker at a time sends texts, one opens chats (send_rx, open_chat_rx).
WorkerFree(m) ==
  \A k \in Msg : From[k] = From[m] /\ (k \in Contact <=> m \in Contact) => ~InFlight(k)

-----------------------------------------------------------------------------
(***************************************************************************)
(* Sending.                                                                *)
(***************************************************************************)
\* The user sends a text in the selected chat, with which there is a session.
SendText(m) ==
  /\ m \in Text
  /\ post[m].pc = "unsent"
  /\ WorkerFree(m)
  /\ selected[From[m]] = To[m]
  /\ session[From[m]][To[m]] # None
  /\ post' = [post EXCEPT ![m].pc = "started"]
  /\ UNCHANGED <<session, saved, serverVars, sync, uiVars, upsets>>

\* The user opens a chat: a session is derived unless there is one, and a
\* contact message is on its way.
OpenChat(m) ==
  /\ m \in Contact
  /\ post[m].pc = "unsent"
  /\ WorkerFree(m)
  /\ session' = [session EXCEPT ![From[m]][To[m]] = IF @ = None THEN NewSession ELSE @]
  /\ saved' = [saved EXCEPT ![From[m]] = session'[From[m]]]
  /\ post' = [post EXCEPT ![m].pc = "started"]
  /\ UNCHANGED <<serverVars, sync, uiVars, upsets>>

\* Under the mutex: the message takes the counter, the chain moves on.  Without
\* a session the worker gives up.
Seal(m) ==
  /\ post[m].pc = "started"
  /\ LET c == From[m]
         p == To[m]
     IN IF session[c][p] = None
          THEN /\ post' = [post EXCEPT ![m].pc = "ended"]
               /\ UNCHANGED session
          ELSE /\ post' = [post EXCEPT ![m] = [pc |-> "sealed",
                                               counter |-> session[c][p].send]]
               /\ session' = [session EXCEPT ![c][p].send = @ + 1]
  /\ UNCHANGED <<saved, serverVars, sync, uiVars, upsets>>

\* The POST: the server stores the message, or it never gets there.
Post(m, stored) ==
  /\ post[m].pc = "sealed"
  /\ post' = [post EXCEPT ![m].pc = "posted"]
  /\ box' = IF stored THEN [box EXCEPT ![To[m]] = Append(@, m)] ELSE box
  /\ UNCHANGED <<session, saved, acked, sync, uiVars, upsets>>

\* Only then are the sessions written to the file, whatever the POST returned.
PersistSent(m) ==
  /\ post[m].pc = "posted"
  /\ post' = [post EXCEPT ![m].pc = "ended"]
  /\ saved' = [saved EXCEPT ![From[m]] = session[From[m]]]
  /\ UNCHANGED <<session, serverVars, sync, uiVars, upsets>>

-----------------------------------------------------------------------------
(***************************************************************************)
(* Synchronisation (run_sync_flow).                                        *)
(***************************************************************************)
\* Of a batch of c, the messages that open with the sessions s: each one whose
\* counter the receiving chain has not passed, by itself or by opening an earlier
\* one of the batch.
Opening(c, s, batch) ==
  {box[c][i] : i \in {j \in batch :
     LET m == box[c][j] IN
       /\ s[From[m]] # None
       /\ post[m].counter >= s[From[m]].recv
       /\ \A k \in batch : k < j /\ From[box[c][k]] = From[m] =>
            post[box[c][k]].counter < post[m].counter}}

\* Mutant of Advanced: a message that does not open moves the chain as well.
AdvancedByStale(c, s, batch) ==
  [p \in Device |->
     LET from == {i \in batch : From[box[c][i]] = p}
     IN IF from = {} \/ s[p] = None THEN s[p]
        ELSE [s[p] EXCEPT !.recv = @ + Cardinality(from)]]

\* The sessions after that: each receiving chain is one past the last key used.
Advanced(c, s, batch) ==
  [p \in Device |->
     LET used == {post[m].counter : m \in {k \in Opening(c, s, batch) : From[k] = p}}
     IN IF used = {} THEN s[p]
        ELSE [s[p] EXCEPT !.recv = 1 + CHOOSE n \in used : \A k \in used : k <= n]]

\* What is pending for c, as places in its box: the store returns it oldest first.
Pending(c) == {i \in DOMAIN box[c] : box[c][i] \notin acked}

\* The first n places of a set of places.
First(n, places) == {i \in places : Cardinality({j \in places : j < i}) < n}

\* A fetch whose answer is lost changes nothing here; for one that answers with
\* nothing see SyncNothing.
SyncFetch(c) ==
  /\ sync[c] = None
  /\ Pending(c) # {}
  /\ sync' = [sync EXCEPT ![c] =
               [pc |-> "fetched", batch |-> First(FetchLimit, Pending(c)),
                left |-> First(FetchLimit, Pending(c)), refreshed |-> FALSE, opened |-> {}]]
  /\ UNCHANGED <<session, saved, post, serverVars, uiVars, upsets>>

\* The peers of the batch the client has no session with.
Unknown(c) == {p \in Device : session[c][p] = None
                              /\ \E i \in sync[c].batch : From[box[c][i]] = p}

\* Mutant of SyncDecrypt: what was decrypted is acknowledged at once.
SyncDecryptAcks(c, derived) ==
  /\ sync[c] # None
  /\ sync[c].pc = "fetched"
  /\ derived \subseteq Unknown(c)
  /\ LET s == [p \in Device |-> IF p \in derived THEN NewSession ELSE session[c][p]]
         opened == Opening(c, s, sync[c].batch)
     IN /\ session' = [session EXCEPT ![c] = Advanced(c, s, sync[c].batch)]
        /\ sync' = [sync EXCEPT ![c].opened = opened, ![c].pc = "apply"]
        /\ acked' = acked \union (opened \intersect Text)
  /\ saved' = [saved EXCEPT ![c] = session'[c]]
  /\ UNCHANGED <<post, box, uiVars, upsets>>

\* A session is derived for each unknown peer whose bundle could be fetched, then
\* the batch is tried.  If nothing of it opens the sessions are to be refreshed.
SyncDecrypt(c, derived) ==
  /\ sync[c] # None
  /\ sync[c].pc = "fetched"
  /\ derived \subseteq Unknown(c)
  /\ LET batch == sync[c].batch
         s == [p \in Device |-> IF p \in derived THEN NewSession ELSE session[c][p]]
         opened == Opening(c, s, batch)
     IN /\ session' = [session EXCEPT ![c] = Advanced(c, s, batch)]
        /\ sync' = [sync EXCEPT ![c].opened = opened,
                                ![c].pc = IF opened = {} THEN "refresh" ELSE "apply"]
  /\ saved' = [saved EXCEPT ![c] = session'[c]]
  /\ UNCHANGED <<post, serverVars, uiVars, upsets>>

\* For each message of the batch in turn, the session with its sender is replaced
\* by a new one.  The bundle is fetched twice, first to compare the identity and
\* then to derive the key: the second fetch may fail where the first did not.
SyncRefresh(c, fetched, derived) ==
  /\ derived => fetched
  /\ sync[c] # None
  /\ sync[c].pc = "refresh"
  /\ \E i \in sync[c].left :
       /\ \A j \in sync[c].left : i <= j
       /\ session' = IF derived THEN [session EXCEPT ![c][From[box[c][i]]] = NewSession]
                                ELSE session
       /\ sync' = [sync EXCEPT ![c].left = @ \ {i}, ![c].refreshed = @ \/ fetched]
  /\ saved' = IF derived THEN [saved EXCEPT ![c] = session'[c]] ELSE saved
  /\ UNCHANGED <<post, serverVars, uiVars, upsets>>

\* Mutant of SyncRetry: what the retry opened is not handed to the interface.
SyncRetryForgets(c) ==
  /\ sync[c] # None
  /\ sync[c].pc = "refresh"
  /\ sync[c].left = {}
  /\ session' = [session EXCEPT ![c] = Advanced(c, @, sync[c].batch)]
  /\ saved' = [saved EXCEPT ![c] = session'[c]]
  /\ sync' = [sync EXCEPT ![c].pc = "apply"]
  /\ UNCHANGED <<post, serverVars, uiVars, upsets>>

\* Then the same batch is tried once more, if the identity of any sender was
\* confirmed.
SyncRetry(c) ==
  /\ sync[c] # None
  /\ sync[c].pc = "refresh"
  /\ sync[c].left = {}
  /\ IF sync[c].refreshed
       THEN /\ session' = [session EXCEPT ![c] = Advanced(c, @, sync[c].batch)]
            /\ saved' = [saved EXCEPT ![c] = session'[c]]
            /\ sync' = [sync EXCEPT ![c].pc = "apply",
                                    ![c].opened = Opening(c, session[c], sync[c].batch)]
       ELSE /\ sync' = [sync EXCEPT ![c].pc = "apply"]
            /\ UNCHANGED <<session, saved>>
  /\ UNCHANGED <<post, serverVars, uiVars, upsets>>

-----------------------------------------------------------------------------
(***************************************************************************)
(* The history and the acknowledgement of what was read.                   *)
(***************************************************************************)
\* The texts mark_selected_chat_read acknowledges: those of the selected chat not
\* yet marked read, unless an acknowledgement is in flight.
ToAck(c, p, h) ==
  IF acking[c] # {} THEN {}
  ELSE {m \in Text : To[m] = c /\ From[m] = p /\ h[m] \in {"unread", "reverted"}}

\* They are marked read, and the history saved, before the answer is there.
MarkRead(c, p, h) ==
  LET ids == ToAck(c, p, h) IN
    /\ history' = [m \in Msg |-> IF m \in ids THEN "read" ELSE h[m]]
    /\ acking' = [acking EXCEPT ![c] = @ \union ids]

\* Mutant of SyncApply: a message the history has is pushed again.
SyncApplyAgain(c) ==
  /\ sync[c] # None
  /\ sync[c].pc = "apply"
  /\ LET pushed == sync[c].opened \intersect Text IN
       /\ MarkRead(c, selected[c], [m \in Msg |-> IF m \in pushed THEN "unread" ELSE history[m]])
       /\ copies' = [m \in Msg |-> IF m \in pushed THEN copies[m] + 1 ELSE copies[m]]
       /\ seen' = seen \union pushed
  /\ sync' = [sync EXCEPT ![c] = None]
  /\ UNCHANGED <<session, saved, post, serverVars, selected, upsets>>

\* push_incoming for each opened message: one the history has is skipped, a
\* contact message leaves no entry.  Then the selected chat is marked read.
SyncApply(c) ==
  /\ sync[c] # None
  /\ sync[c].pc = "apply"
  /\ LET pushed == {m \in sync[c].opened : m \in Text /\ history[m] = "none"}
         h == [m \in Msg |-> IF m \in pushed THEN "unread" ELSE history[m]]
     IN /\ MarkRead(c, selected[c], h)
        /\ copies' = [m \in Msg |-> IF m \in pushed THEN copies[m] + 1 ELSE copies[m]]
        /\ seen' = seen \union pushed
  /\ sync' = [sync EXCEPT ![c] = None]
  /\ UNCHANGED <<session, saved, post, serverVars, selected, upsets>>

\* A sync that fetched nothing: it still writes the sessions, and the interface
\* still marks the selected chat read.
SyncNothing(c) ==
  /\ sync[c] = None
  /\ Pending(c) = {}
  /\ saved' = [saved EXCEPT ![c] = session[c]]
  /\ MarkRead(c, selected[c], history)
  /\ UNCHANGED <<session, post, serverVars, sync, copies, seen, selected, upsets>>

\* The user selects a chat of the list, or a chat he opened is ready.
SelectChat(c, p) ==
  /\ p # c
  /\ session[c][p] # None \/ \E m \in Text : To[m] = c /\ From[m] = p /\ copies[m] > 0
  /\ selected' = [selected EXCEPT ![c] = p]
  /\ MarkRead(c, p, history)
  /\ UNCHANGED <<session, saved, post, serverVars, sync, copies, seen, upsets>>

\* A click on the selected chat leaves it.
LeaveChat(c) ==
  /\ selected[c] # None
  /\ selected' = [selected EXCEPT ![c] = None]
  /\ UNCHANGED <<session, saved, post, serverVars, sync, history, copies, seen, acking, upsets>>

\* The acknowledgement ends.  An error, also one of a lost answer, makes the texts
\* unread again in memory.
AckEnd(c, applied, answered) ==
  /\ acking[c] # {}
  /\ answered => applied
  /\ acked' = IF applied THEN acked \union acking[c] ELSE acked
  /\ history' = IF answered THEN history
                ELSE [m \in Msg |-> IF m \in acking[c] /\ history[m] # "none"
                                      THEN "reverted" ELSE history[m]]
  /\ acking' = [acking EXCEPT ![c] = {}]
  /\ UNCHANGED <<session, saved, post, box, sync, copies, seen, selected, upsets>>

\* Mutant of DeleteChat: it takes one copy of each text of the chat away.
DeleteChatOnce(c, p) ==
  /\ upsets < MaxUpset
  /\ upsets' = upsets + 1
  /\ LET chat == {m \in Text : To[m] = c /\ From[m] = p} IN
       /\ \E m \in chat : copies[m] > 0
       /\ history' = [m \in Msg |-> IF m \in chat THEN "none" ELSE history[m]]
       /\ copies' = [m \in Msg |-> IF m \in chat THEN copies[m] - 1 ELSE copies[m]]
  /\ selected' = [selected EXCEPT ![c] = IF @ = p THEN None ELSE @]
  /\ UNCHANGED <<session, saved, post, serverVars, sync, seen, acking>>

\* delete_chat_locally.
DeleteChat(c, p) ==
  /\ upsets < MaxUpset
  /\ upsets' = upsets + 1
  /\ LET chat == {m \in Text : To[m] = c /\ From[m] = p} IN
       /\ \E m \in chat : copies[m] > 0
       /\ history' = [m \in Msg |-> IF m \in chat THEN "none" ELSE history[m]]
       /\ copies' = [m \in Msg |-> IF m \in chat THEN 0 ELSE copies[m]]
  /\ selected' = [selected EXCEPT ![c] = IF @ = p THEN None ELSE @]
  /\ UNCHANGED <<session, saved, post, serverVars, sync, seen, acking>>

\* reset_peer_session, for the selected chat.  The chat is opened anew at once: the
\* worker of OpenChat, if it gets as far as a new session, comes next.
ResetSession(c) ==
  /\ upsets < MaxUpset
  /\ upsets' = upsets + 1
  /\ selected[c] # None
  /\ session' = [session EXCEPT ![c][selected[c]] = None]
  /\ saved' = [saved EXCEPT ![c] = session'[c]]
  /\ UNCHANGED <<post, serverVars, sync, uiVars>>

\* The client dies and is started again: its workers are gone, the sessions are
\* those of the file, and what was marked read stays so in the history file.  A
\* text made unread by a failed acknowledgement is so in the file only if the
\* history was saved since.
Crash(c, stillRead) ==
  /\ upsets < MaxUpset
  /\ upsets' = upsets + 1
  /\ stillRead \subseteq {m \in Msg : To[m] = c /\ history[m] = "reverted"}
  /\ session' = [session EXCEPT ![c] = saved[c]]
  /\ post' = [m \in Msg |-> IF From[m] = c /\ InFlight(m)
                              THEN [post[m] EXCEPT !.pc = "ended"] ELSE post[m]]
  /\ sync' = [sync EXCEPT ![c] = None]
  /\ history' = [m \in Msg |-> IF m \in stillRead THEN "read" ELSE history[m]]
  /\ acking' = [acking EXCEPT ![c] = {}]
  /\ selected' = [selected EXCEPT ![c] = None]
  /\ UNCHANGED <<saved, serverVars, copies, seen>>

-----------------------------------------------------------------------------
SendStep(m) ==
  \/ SendText(m) \/ OpenChat(m) \/ Seal(m) \/ PersistSent(m)
  \/ \E stored \in BOOLEAN : Post(m, stored)

SyncStep(c) ==
  \/ SyncNothing(c) \/ SyncFetch(c)
  \/ \E derived \in SUBSET Device : SyncDecrypt(c, derived)
  \/ \E fetched, derived \in BOOLEAN : SyncRefresh(c, fetched, derived)
  \/ SyncRetry(c) \/ SyncApply(c)

UserStep(c) ==
  \/ \E p \in Device : SelectChat(c, p) \/ DeleteChat(c, p)
  \/ \E applied, answered \in BOOLEAN : AckEnd(c, applied, answered)
  \/ LeaveChat(c) \/ ResetSession(c)
  \/ \E stillRead \in SUBSET Msg : Crash(c, stillRead)

Next ==
  \/ \E m \in Msg : SendStep(m)
  \/ \E c \in Device : SyncStep(c) \/ UserStep(c)

Spec == Init /\ [][Next]_vars

(***************************************************************************)
(* Fairness, for the clients texts are sent to: the sync worker is started *)
(* every two seconds and runs to its end; a request repeated for ever is   *)
(* answered again and again; the user keeps coming back to each chat.      *)
(* Nobody is obliged to send.                                              *)
(***************************************************************************)
RefreshItem(c, m) ==
  /\ sync[c] # None
  /\ \E i \in sync[c].left : box[c][i] = m /\ \A j \in sync[c].left : i <= j
  /\ SyncRefresh(c, TRUE, TRUE)

Fairness ==
  \A c \in {To[m] : m \in Text} :
    /\ WF_vars(SyncStep(c))
    /\ SF_vars(sync[c] # None /\ SyncDecrypt(c, Unknown(c)))
    /\ \A m \in {k \in Msg : To[k] = c} : SF_vars(RefreshItem(c, m))
    /\ \A p \in {From[k] : k \in {i \in Text : To[i] = c}} : SF_vars(SelectChat(c, p))
    /\ SF_vars(AckEnd(c, TRUE, TRUE))

FairSpec == Spec /\ Fairness

-----------------------------------------------------------------------------
\* However often a text is fetched, decrypted again after a refresh, or pushed
\* by a sync that overlapped a crash, the history never shows it twice.
NoDuplicates == \A m \in Msg : copies[m] <= 1

\* The store is never told that a text was read before the recipient's history
\* has shown it: decrypting it, or fetching it, is not enough.
AckedWasShown == acked \subseteq seen

\* A receiving chain is never past the messages its peer has sealed: it has
\* skipped no key that a later message could need.
ReceiveBehindSent ==
  \A c, p \in Device : session[c][p] # None /\ session[c][p].recv > 0 =>
    \E m \in Msg : /\ From[m] = p /\ To[m] = c /\ Stored(m)
                   /\ post[m].counter + 1 = session[c][p].recv

\* Pending for ever: a contact message, which nothing acknowledges, or a text
\* marked read whose acknowledgement was lost with the client.
Stuck(k) ==
  /\ Stored(k) /\ k \notin acked
  /\ k \in Contact \/ (history[k] = "read" /\ k \notin acking[To[k]])

\* Such a message of the same sender is ahead of m with a counter not below m's:
\* each time the session is refreshed it takes the chain past m.
Starved(m) ==
  \E i, j \in DOMAIN box[To[m]] :
    LET k == box[To[m]][i] IN
      /\ i < j /\ box[To[m]][j] = m
      /\ From[k] = From[m] /\ Stuck(k) /\ post[k].counter >= post[m].counter

\* Every stored text is shown, in spite of counters used out of order, reused
\* after a crash or a reset, or taken from a replaced session, unless it is
\* starved by a message that is never acknowledged.
ShownUnlessStarved == \A m \in Text : Stored(m) ~> (m \in seen \/ Starved(m))

\* What the documentation says of every message: the recipient decrypts it.
EveryTextShown == \A m \in Text : Stored(m) ~> m \in seen
=============================================================================
