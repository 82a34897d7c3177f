----------------------------- MODULE ChatStatus -----------------------------
(***************************************************************************)
(* The texts a client sends in one chat, as its history shows them: the    *)
(* entry made when the user sends, the worker whose result is applied to   *)
(* the entry by its index, the statuses a sync asks the server for, the    *)
(* deletion of the chat, and the history file across logout, login and     *)
(* the end of the program.                                                 *)
(*                                                                         *)
(* What happens to a stored text on the server is left to phase, which     *)
(* only goes forward (MessageLifecycle).  Which incoming texts a sync      *)
(* opens is left open (PeerSessions); they matter here because they take   *)
(* places in the chat.                                                     *)
(***************************************************************************)
EXTENDS Integers, Sequences, SequencesExt

CONSTANTS
  Msg,       \* the texts this client sends, each under an id of its own
  Incoming,  \* the texts of the peer
  MaxUpset,  \* bound of the model: deleted chats, logouts and ends of the program in all
  None       \* no worker

ASSUME ChatStatusAssumption ==
  /\ Msg \intersect Incoming = {}
  /\ IsFiniteSet(Incoming)
  /\ MaxUpset \in Nat

VARIABLES
  phase,    \* phase[m]: what the server would answer about m
  started,  \* the texts whose worker was started
  chat,     \* the entries of the chat in memory; an absent chat has none
  file,     \* the history file: the entries and whether they are encrypted
  online,   \* a user is logged in
  loading,  \* the entries a login worker has read from the file, or None
  sending,  \* the send worker: its text, the index of its entry, its result
  sync,     \* the sync worker: the ids it asks about, what it brings back
  upsets    \* deleted chats, logouts and ends of the program so far

vars == <<phase, started, chat, file, online, loading, sending, sync, upsets>>

Phase  == {"unsent", "sent", "delivered", "read"}
Status == {"sending", "failed", "sent", "delivered", "read"}
Entry  == [id : Msg \union Incoming, status : Status]

SendWorker == [msg : Msg, index : Nat, result : {"none", "sent", "failed"}]
SyncWorker == [asked : SUBSET Msg, answered : BOOLEAN,
               answer : [Msg -> Phase], opened : SUBSET Incoming]

ASSUME NoneAssumption == None \notin Seq(Entry) \union SendWorker \union SyncWorker

TypeOK ==
  /\ phase \in [Msg -> Phase]
  /\ started \subseteq Msg
  /\ chat \in Seq(Entry)
  /\ file \in [chat : Seq(Entry), locked : BOOLEAN]
  /\ online \in BOOLEAN
  /\ loading \in Seq(Entry) \union {None}
  /\ sending \in SendWorker \union {None}
  /\ sync \in SyncWorker \union {None}
  /\ upsets \in 0 .. MaxUpset

Init ==
  /\ phase = [m \in Msg |-> "unsent"]
  /\ started = {}
  /\ chat = <<>>
  /\ file = [chat |-> <<>>, locked |-> FALSE]
  /\ online = FALSE
  /\ loading = None
  /\ sending = None
  /\ sync = None
  /\ upsets = 0

-----------------------------------------------------------------------------
Ids(entries) == {entries[i].id : i \in DOMAIN entries}

\* save_history: encrypted with the password, which is known while a user is
\* logged in.
Saved(entries) == [chat |-> entries, locked |-> online]

\* What a start or a logout reads without a password: nothing of an encrypted file.
ReadableWithoutPassword == IF file.locked THEN <<>> ELSE file.chat

-----------------------------------------------------------------------------
(***************************************************************************)
(* The server: a started request may be stored late, even after its worker *)
(* has ended, or never; then the message is delivered and read.            *)
(***************************************************************************)
StoreText(m) ==
  /\ m \in started
  /\ phase[m] = "unsent"
  /\ phase' = [phase EXCEPT ![m] = "sent"]
  /\ UNCHANGED <<started, chat, file, online, loading, sending, sync, upsets>>

Advance(m) ==
  /\ phase[m] \in {"sent", "delivered"}
  /\ phase' = [phase EXCEPT ![m] = IF @ = "sent" THEN "delivered" ELSE "read"]
  /\ UNCHANGED <<started, chat, file, online, loading, sending, sync, upsets>>

-----------------------------------------------------------------------------
(***************************************************************************)
(* Sending.                                                                *)
(***************************************************************************)
\* Mutant of SendText: the index is taken before the entry is pushed.
SendTextIndexBefore(m) ==
  /\ online
  /\ sending = None
  /\ m \notin started
  /\ started' = started \union {m}
  /\ chat' = Append(chat, [id |-> m, status |-> "sending"])
  /\ file' = Saved(chat')
  /\ sending' = [msg |-> m, index |-> Len(chat), result |-> "none"]
  /\ UNCHANGED <<phase, online, loading, sync, upsets>>

\* send_current_message: one worker at a time.
SendText(m) ==
  /\ online
  /\ sending = None
  /\ m \notin started
  /\ started' = started \union {m}
  /\ chat' = Append(chat, [id |-> m, status |-> "sending"])
  /\ file' = Saved(chat')
  /\ sending' = [msg |-> m, index |-> Len(chat'), result |-> "none"]
  /\ UNCHANGED <<phase, online, loading, sync, upsets>>

\* The request ends.  A success is one of a stored text; an error may be the loss of
\* the answer about a stored text.
SendEnd(result) ==
  /\ sending # None
  /\ sending.result = "none"
  /\ result = "sent" => phase[sending.msg] # "unsent"
  /\ sending' = [sending EXCEPT !.result = result]
  /\ UNCHANGED <<phase, started, chat, file, online, loading, sync, upsets>>

\* Mutant of PollSend: it does not wait for the result.
PollSendEarly ==
  /\ sending # None
  /\ chat' = IF sending.index \in DOMAIN chat
               THEN [chat EXCEPT ![sending.index].status = sending.result] ELSE chat
  /\ file' = Saved(chat')
  /\ sending' = None
  /\ UNCHANGED <<phase, started, online, loading, sync, upsets>>

\* poll_send_result: the entry at the index the text had, if there is one, gets the
\* result, and the history is saved, whoever is logged in by now.
PollSend ==
  /\ sending # None
  /\ sending.result # "none"
  /\ chat' = IF sending.index \in DOMAIN chat
               THEN [chat EXCEPT ![sending.index].status = sending.result] ELSE chat
  /\ file' = Saved(chat')
  /\ sending' = None
  /\ UNCHANGED <<phase, started, online, loading, sync, upsets>>

-----------------------------------------------------------------------------
(***************************************************************************)
(* Synchronisation.                                                        *)
(***************************************************************************)
\* Mutant of AskedAbout: a failed text is not asked about.
AskedAboutSent ==
  {m \in Msg : \E i \in DOMAIN chat :
     chat[i].id = m /\ chat[i].status \in {"sending", "sent", "delivered"}}

\* outgoing_message_ids: of every outgoing text not known to be read.
AskedAbout == {m \in Msg : \E i \in DOMAIN chat : chat[i].id = m /\ chat[i].status # "read"}

SyncStart ==
  /\ online
  /\ sync = None
  /\ sync' = [asked |-> AskedAbout, answered |-> FALSE,
              answer |-> [m \in Msg |-> "unsent"], opened |-> {}]
  /\ UNCHANGED <<phase, started, chat, file, online, loading, sending, upsets>>

\* The fetch has brought some texts; the status query is answered, or fails and is
\* taken for an empty answer.
SyncAnswer(opened, known) ==
  /\ sync # None
  /\ ~sync.answered
  /\ sync' = [sync EXCEPT !.answered = TRUE, !.answer = phase, !.opened = opened,
                          !.asked = IF known THEN @ ELSE {}]
  /\ UNCHANGED <<phase, started, chat, file, online, loading, sending, upsets>>

\* A sync whose fetch failed leaves no trace.
SyncFails ==
  /\ sync # None
  /\ ~sync.answered
  /\ sync' = None
  /\ UNCHANGED <<phase, started, chat, file, online, loading, sending, upsets>>

\* Mutant of Pushed: push_incoming does not look for the id in the history.
PushedAlways == sync.opened

\* push_incoming: the opened texts the history does not have.
Pushed == sync.opened \ Ids(chat)

\* apply_outgoing_statuses: the server answers about the texts it stores.
WithStatuses(entries) ==
  [i \in DOMAIN entries |->
     IF entries[i].id \in sync.asked /\ sync.answer[entries[i].id] # "unsent"
       THEN [entries[i] EXCEPT !.status = sync.answer[entries[i].id]]
       ELSE entries[i]]

Received(order) ==
  chat \o [i \in DOMAIN order |-> [id |-> order[i], status |-> "delivered"]]

\* apply_sync_success: texts are pushed in the order they were opened, the statuses
\* applied, and the history is saved if anything was opened or changed.
PollSync ==
  /\ sync # None
  /\ sync.answered
  /\ \E order \in SetToSeqs(Pushed) : chat' = WithStatuses(Received(order))
  /\ file' = IF sync.opened # {} \/ chat' # chat THEN Saved(chat') ELSE file
  /\ sync' = None
  /\ UNCHANGED <<phase, started, online, loading, sending, upsets>>

-----------------------------------------------------------------------------
(***************************************************************************)
(* The history and its file.                                               *)
(***************************************************************************)
\* Selecting or opening a chat, and other actions of a user who is logged in, save
\* the history as well.
SaveHistory ==
  /\ online
  /\ file' = Saved(chat)
  /\ UNCHANGED <<phase, started, chat, online, loading, sending, sync, upsets>>

\* delete_chat_locally, confirmed in a window that a logout leaves open.
DeleteChat ==
  /\ upsets < MaxUpset
  /\ upsets' = upsets + 1
  /\ chat' = <<>>
  /\ file' = Saved(chat')
  /\ UNCHANGED <<phase, started, online, loading, sending, sync>>

\* run_login_flow reads the history before its last requests; poll_login_result puts
\* it in the place of the one in memory.
LoginLoad ==
  /\ ~online
  /\ loading = None
  /\ loading' = file.chat
  /\ UNCHANGED <<phase, started, chat, file, online, sending, sync, upsets>>

LoginDone ==
  /\ loading # None
  /\ online' = TRUE
  /\ chat' = loading
  /\ loading' = None
  /\ UNCHANGED <<phase, started, file, sending, sync, upsets>>

LoginFails ==
  /\ loading # None
  /\ loading' = None
  /\ UNCHANGED <<phase, started, chat, file, online, sending, sync, upsets>>

\* logout: the history is the one readable without a password; workers go on.
Logout ==
  /\ online
  /\ upsets < MaxUpset
  /\ upsets' = upsets + 1
  /\ online' = FALSE
  /\ chat' = ReadableWithoutPassword
  /\ UNCHANGED <<phase, started, file, loading, sending, sync>>

\* The program ends, its workers with it, and is started again.
Restart ==
  /\ upsets < MaxUpset
  /\ upsets' = upsets + 1
  /\ online' = FALSE
  /\ chat' = ReadableWithoutPassword
  /\ loading' = None
  /\ sending' = None
  /\ sync' = None
  /\ UNCHANGED <<phase, started, file>>

-----------------------------------------------------------------------------
Next ==
  \/ \E m \in Msg : StoreText(m) \/ Advance(m) \/ SendText(m)
  \/ \E result \in {"sent", "failed"} : SendEnd(result)
  \/ PollSend
  \/ SyncStart \/ SyncFails \/ PollSync
  \/ \E opened \in SUBSET Incoming, known \in BOOLEAN : SyncAnswer(opened, known)
  \/ SaveHistory \/ DeleteChat
  \/ LoginLoad \/ LoginDone \/ LoginFails \/ Logout \/ Restart

Spec == Init /\ [][Next]_vars

(***************************************************************************)
(* Fairness: requests end (30 s timeout) and results are polled once per   *)
(* frame; a sync is started every two seconds and its status query is not  *)
(* lost for ever.                                                          *)
(***************************************************************************)
Fairness ==
  /\ WF_vars(\E result \in {"sent", "failed"} : SendEnd(result))
  /\ WF_vars(PollSend)
  /\ WF_vars(SyncStart)
  /\ SF_vars(\E opened \in SUBSET Incoming : SyncAnswer(opened, TRUE))
  /\ WF_vars(PollSync)

FairSpec == Spec /\ Fairness

-----------------------------------------------------------------------------
Claims(status) == CASE status = "sent"      -> {"sent", "delivered", "read"}
                    [] status = "delivered" -> {"delivered", "read"}
                    [] status = "read"      -> {"read"}
                    [] OTHER                -> Phase

\* The entries in memory, in the file and on their way from the file.
Copies == {chat, file.chat} \union ({loading} \ {None})

\* No entry of a sent text, in memory, in the file or on its way from the file,
\* claims more than is true of the message on the server: a late result, a stale
\* answer or an index into a chat that was deleted and filled again never says so.
StatusNotAhead ==
  \A entries \in Copies :
    \A i \in DOMAIN entries :
      entries[i].id \in Msg => phase[entries[i].id] \in Claims(entries[i].status)

\* Each text has at most one entry, however logout, login and results that come late
\* replace and refill the chat.
OneEntryEach ==
  \A i, j \in DOMAIN chat : chat[i].id = chat[j].id => i = j

\* In the end each text that was stored is shown as what it is, to a user who stays
\* logged in: a send that failed only for the client, a late result over a newer
\* status and a stale history are all corrected.
StatusesSettle ==
  <>[](online => \A i \in DOMAIN chat :
         chat[i].id \in Msg /\ phase[chat[i].id] # "unsent" =>
           chat[i].status = phase[chat[i].id])

\* Only deleting a chat takes entries out of the file on the user's device.
HistoryKept ==
  [][\A m \in Ids(file.chat) : m \notin Ids(file'.chat) => DeleteChat]_vars
=============================================================================
