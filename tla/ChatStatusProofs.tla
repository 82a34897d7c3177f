-------------------------- MODULE ChatStatusProofs --------------------------
(***************************************************************************)
(* Theorems about ChatStatus, for every set of texts and every bound on    *)
(* logouts, deletions and ends of the program.                             *)
(***************************************************************************)
EXTENDS ChatStatus, SequenceTheorems, FiniteSetTheorems, TLAPS

(***************************************************************************)
(* The inductive invariant.  Every copy of the entries is sound on its     *)
(* own, since any of them may become the chat.  A result finds its entry   *)
(* by an index alone: what it finds is the entry of its text, or of an     *)
(* incoming text that took its place, because no other text is sent before *)
(* the result is applied.                                                  *)
(***************************************************************************)
True(entry) == entry.id \in Msg => phase[entry.id] \in Claims(entry.status)

Unique(entries) ==
  \A i, j \in DOMAIN entries : entries[i].id = entries[j].id => i = j

Known(entries) == \A i \in DOMAIN entries : entries[i].id \in started \union Incoming

Indexed(entries) ==
  sending # None /\ sending.index \in DOMAIN entries =>
    entries[sending.index].id \in {sending.msg} \union Incoming

Sound(entries) ==
  /\ \A i \in DOMAIN entries : True(entries[i])
  /\ Unique(entries)
  /\ Known(entries)
  /\ Indexed(entries)

\* A success is one of a stored text, an answer never ahead of what is stored.
ResultTrue  == sending # None /\ sending.result = "sent" => phase[sending.msg] # "unsent"
AnswersTrue ==
  sync # None /\ sync.answered =>
    \A m \in Msg : sync.answer[m] # "unsent" => phase[m] \in Claims(sync.answer[m])

ChatInv ==
  /\ TypeOK
  /\ loading # None => ~online
  /\ \A entries \in Copies : Sound(entries)
  /\ ResultTrue
  /\ AnswersTrue

-----------------------------------------------------------------------------
(***************************************************************************)
(* Types.                                                                  *)
(***************************************************************************)
\* A worker or a loaded history that is there is one of its kind.
LEMMA Records ==
  ASSUME TypeOK
  PROVE  /\ sending # None => sending \in SendWorker
         /\ sync # None => sync \in SyncWorker
         /\ loading # None => loading \in Seq(Entry)
         /\ \A entries \in Copies : entries \in Seq(Entry)
  BY DEF TypeOK, Copies

LEMMA NotNone == \A x \in Seq(Entry) \union SendWorker \union SyncWorker : x # None
  BY NoneAssumption

LEMMA SavedType ==
  ASSUME TypeOK, NEW entries \in Seq(Entry)
  PROVE  Saved(entries) \in [chat : Seq(Entry), locked : BOOLEAN]
  BY DEF TypeOK, Saved

LEMMA UpsetsType ==
  ASSUME TypeOK, upsets < MaxUpset
  PROVE  upsets + 1 \in 0 .. MaxUpset
  <1>1. MaxUpset \in Nat /\ upsets \in 0 .. MaxUpset
    BY ChatStatusAssumption DEF TypeOK
  <1>2. QED
    BY <1>1

\* An entry put at the end: the rest stays as it was.
LEMMA AppendEntry ==
  ASSUME NEW s \in Seq(Entry), NEW e \in Entry
  PROVE  /\ Append(s, e) \in Seq(Entry)
         /\ Len(Append(s, e)) = Len(s) + 1
         /\ Append(s, e)[Len(s) + 1] = e
         /\ \A i \in DOMAIN s : Append(s, e)[i] = s[i]
         /\ DOMAIN Append(s, e) = DOMAIN s \union {Len(s) + 1}
         /\ Len(s) + 1 \notin DOMAIN s
  BY AppendProperties

\* A status set at an index.
LEMMA SetStatus ==
  ASSUME NEW s \in Seq(Entry), NEW i \in DOMAIN s, NEW status \in Status
  PROVE  LET t == [s EXCEPT ![i].status = status]
         IN  /\ t \in Seq(Entry)
             /\ DOMAIN t = DOMAIN s
             /\ t[i].status = status
             /\ \A j \in DOMAIN s : t[j].id = s[j].id /\ (j # i => t[j] = s[j])
  <1>1. \A j \in DOMAIN s : s[j] \in Entry
    OBVIOUS
  <1>2. s[i] \in Entry /\ [s[i] EXCEPT !.status = status] \in Entry
    BY <1>1 DEF Entry
  <1>3. [s EXCEPT ![i] = [s[i] EXCEPT !.status = status]] \in Seq(Entry)
    BY <1>2
  <1>4. QED
    BY <1>1, <1>2, <1>3 DEF Entry

\* What push_incoming adds: new texts, each once.
LEMMA ReceivedEntries ==
  ASSUME TypeOK, sync # None, NEW order \in SetToSeqs(Pushed)
  PROVE  /\ Received(order) \in Seq(Entry)
         /\ \A i \in DOMAIN chat : i \in DOMAIN Received(order) /\ Received(order)[i] = chat[i]
         /\ \A i \in DOMAIN Received(order) \ DOMAIN chat :
              /\ Received(order)[i].id \in Incoming \ Ids(chat)
              /\ \A j \in DOMAIN Received(order) :
                   Received(order)[j].id = Received(order)[i].id => i = j
  <1> DEFINE n == Cardinality(Pushed)
             new == [i \in DOMAIN order |-> [id |-> order[i], status |-> "delivered"]]
  <1>1. chat \in Seq(Entry)
    BY DEF TypeOK
  <1>2. Pushed \subseteq Incoming
    BY Records DEF Pushed, SyncWorker
  <1>3. n \in Nat
    BY <1>2, ChatStatusAssumption, FS_Subset, FS_CardinalityType
  <1>4. order \in [1 .. n -> Pushed] /\ \A i, j \in 1 .. n : i # j => order[i] # order[j]
    BY DEF SetToSeqs
  <1>5. /\ new \in Seq(Entry) /\ Len(new) = n
        /\ \A i \in 1 .. n : new[i].id = order[i]
    <2>1. \A i \in 1 .. n : order[i] \in Msg \union Incoming
      BY <1>2, <1>4
    <2>2. DOMAIN order = 1 .. n
      BY <1>4
    <2>3. \A i \in 1 .. n : [id |-> order[i], status |-> "delivered"] \in Entry
      BY <2>1 DEF Entry, Status
    <2> HIDE DEF n
    <2>4. QED
      BY <1>3, <2>2, <2>3
  <1> HIDE DEF new, n
  <1>6. /\ chat \o new \in Seq(Entry)
        /\ Len(chat \o new) = Len(chat) + n
        /\ \A i \in 1 .. Len(chat) + n :
             (chat \o new)[i] = IF i <= Len(chat) THEN chat[i] ELSE new[i - Len(chat)]
    BY <1>1, <1>5, ConcatProperties
  <1>7. Received(order) = chat \o new
    BY DEF Received, new
  <1>8. DOMAIN chat = 1 .. Len(chat) /\ DOMAIN (chat \o new) = 1 .. Len(chat) + n
        /\ Len(chat) \in Nat
    BY <1>1, <1>6
  <1>9. ASSUME NEW i \in DOMAIN (chat \o new) \ DOMAIN chat
        PROVE  /\ (chat \o new)[i].id \in Incoming \ Ids(chat)
               /\ i - Len(chat) \in 1 .. n
               /\ (chat \o new)[i].id = order[i - Len(chat)]
    <2>1. i - Len(chat) \in 1 .. n
      BY <1>3, <1>8
    <2>2. (chat \o new)[i] = new[i - Len(chat)]
      BY <1>6, <1>8
    <2>3. order[i - Len(chat)] \in Pushed
      BY <1>4, <2>1
    <2>4. QED
      BY <1>2, <1>5, <2>1, <2>2, <2>3 DEF Pushed
  <1>10. ASSUME NEW i \in DOMAIN (chat \o new) \ DOMAIN chat, NEW j \in DOMAIN (chat \o new),
                (chat \o new)[j].id = (chat \o new)[i].id
         PROVE  i = j
    <2>1. CASE j \in DOMAIN chat
      <3>1. (chat \o new)[j].id \in Ids(chat)
        BY <2>1, <1>3, <1>6, <1>8 DEF Ids
      <3>2. QED
        BY <3>1, <1>9, <1>10
    <2>2. CASE j \notin DOMAIN chat
      <3>1. i - Len(chat) = j - Len(chat)
        BY <2>2, <1>4, <1>9, <1>10
      <3>2. QED
        BY <3>1, <1>8
    <2>3. QED
      BY <2>1, <2>2
  <1>11. \A i \in DOMAIN chat : i \in DOMAIN (chat \o new) /\ (chat \o new)[i] = chat[i]
    BY <1>3, <1>6, <1>8
  <1>12. QED
    BY <1>6, <1>7, <1>9, <1>10, <1>11

\* The statuses of an answer change nothing but statuses.
LEMMA StatusesEntries ==
  ASSUME TypeOK, sync # None, NEW entries \in Seq(Entry)
  PROVE  /\ WithStatuses(entries) \in Seq(Entry)
         /\ DOMAIN WithStatuses(entries) = DOMAIN entries
         /\ \A i \in DOMAIN entries :
              /\ WithStatuses(entries)[i].id = entries[i].id
              /\ \/ WithStatuses(entries)[i] = entries[i]
                 \/ /\ entries[i].id \in Msg
                    /\ sync.answer[entries[i].id] # "unsent"
                    /\ WithStatuses(entries)[i].status = sync.answer[entries[i].id]
  <1> DEFINE answered(i) == entries[i].id \in sync.asked
                              /\ sync.answer[entries[i].id] # "unsent"
             w(i) == IF answered(i)
                       THEN [entries[i] EXCEPT !.status = sync.answer[entries[i].id]]
                       ELSE entries[i]
  <1>1. sync.asked \subseteq Msg /\ sync.answer \in [Msg -> Phase]
    BY Records DEF SyncWorker
  <1>2. ASSUME NEW i \in DOMAIN entries
        PROVE  /\ w(i) \in Entry /\ w(i).id = entries[i].id
               /\ \/ w(i) = entries[i]
                  \/ /\ entries[i].id \in Msg
                     /\ sync.answer[entries[i].id] # "unsent"
                     /\ w(i).status = sync.answer[entries[i].id]
    <2>1. entries[i] \in Entry
      OBVIOUS
    <2>2. CASE answered(i)
      <3>1. sync.answer[entries[i].id] \in Status /\ entries[i].id \in Msg
        BY <1>1, <2>2 DEF Phase, Status
      <3>2. w(i) = [entries[i] EXCEPT !.status = sync.answer[entries[i].id]]
        BY <2>2
      <3>3. QED
        BY <2>1, <2>2, <3>1, <3>2 DEF Entry
    <2>3. CASE ~answered(i)
      BY <2>1, <2>3
    <2>4. QED
      BY <2>2, <2>3
  <1>3. WithStatuses(entries) = [i \in DOMAIN entries |-> w(i)]
    BY DEF WithStatuses
  <1> HIDE DEF w
  <1>4. [i \in DOMAIN entries |-> w(i)] \in Seq(Entry)
    BY <1>2
  <1>5. QED
    BY <1>2, <1>3, <1>4

LEMMA TypeInit == Init => TypeOK
  <1> SUFFICES ASSUME Init
               PROVE  TypeOK
    OBVIOUS
  <1>1. <<>> \in Seq(Entry)
    OBVIOUS
  <1>2. upsets \in 0 .. MaxUpset
    BY ChatStatusAssumption DEF Init
  <1>3. [chat |-> <<>>, locked |-> FALSE] \in [chat : Seq(Entry), locked : BOOLEAN]
    BY <1>1
  <1>4. [m \in Msg |-> "unsent"] \in [Msg -> Phase]
    BY DEF Phase
  <1>5. QED
    BY <1>1, <1>2, <1>3, <1>4 DEF Init, TypeOK

\* Every step of a user, a worker and the server keeps the variables typed.
LEMMA TypeStep == TypeOK /\ [Next]_vars => TypeOK'
  <1> SUFFICES ASSUME TypeOK, [Next]_vars
               PROVE  TypeOK'
    OBVIOUS
  <1>1. ASSUME NEW m \in Msg, StoreText(m) \/ Advance(m)
        PROVE  TypeOK'
    BY <1>1 DEF StoreText, Advance, TypeOK, Phase
  <1>2. ASSUME NEW m \in Msg, SendText(m)
        PROVE  TypeOK'
    <2>1. [id |-> m, status |-> "sending"] \in Entry
      BY DEF Entry, Status
    <2>2. chat' \in Seq(Entry) /\ Len(chat') \in Nat
      BY <1>2, <2>1, AppendEntry DEF SendText, TypeOK
    <2>3. sending' \in SendWorker
      BY <1>2, <2>2 DEF SendText, SendWorker
    <2>4. file' \in [chat : Seq(Entry), locked : BOOLEAN]
      BY <1>2, <2>2, SavedType DEF SendText
    <2>5. QED
      BY <1>2, <2>2, <2>3, <2>4 DEF SendText, TypeOK
  <1>3. ASSUME NEW result \in {"sent", "failed"}, SendEnd(result)
        PROVE  TypeOK'
    BY <1>3, Records DEF SendEnd, TypeOK, SendWorker
  <1>4. ASSUME PollSend
        PROVE  TypeOK'
    <2>1. sending.result \in Status
      BY <1>4, Records DEF PollSend, SendWorker, Status
    <2>2. chat' \in Seq(Entry)
      BY <1>4, <2>1, SetStatus DEF PollSend, TypeOK
    <2>3. file' \in [chat : Seq(Entry), locked : BOOLEAN]
      BY <1>4, <2>2, SavedType DEF PollSend
    <2>4. QED
      BY <1>4, <2>2, <2>3 DEF PollSend, TypeOK
  <1>5. ASSUME SyncStart
        PROVE  TypeOK'
    <2>1. sync' \in SyncWorker
      BY <1>5 DEF SyncStart, SyncWorker, Phase, AskedAbout
    <2>2. QED
      BY <1>5, <2>1 DEF SyncStart, TypeOK
  <1>6. ASSUME NEW opened \in SUBSET Incoming, NEW known \in BOOLEAN, SyncAnswer(opened, known)
        PROVE  TypeOK'
    <2>1. sync' \in SyncWorker
      BY <1>6, Records DEF SyncAnswer, SyncWorker, TypeOK
    <2>2. QED
      BY <1>6, <2>1 DEF SyncAnswer, TypeOK
  <1>7. ASSUME PollSync
        PROVE  TypeOK'
    <2>1. chat' \in Seq(Entry)
      BY <1>7, ReceivedEntries, StatusesEntries DEF PollSync
    <2>2. file' \in [chat : Seq(Entry), locked : BOOLEAN]
      BY <1>7, <2>1, SavedType DEF PollSync, TypeOK
    <2>3. QED
      BY <1>7, <2>1, <2>2 DEF PollSync, TypeOK
  <1>8. ASSUME DeleteChat
        PROVE  TypeOK'
    <2>1. chat' \in Seq(Entry)
      BY <1>8 DEF DeleteChat
    <2>2. file' \in [chat : Seq(Entry), locked : BOOLEAN]
      BY <1>8, <2>1, SavedType DEF DeleteChat
    <2>3. upsets' \in 0 .. MaxUpset
      BY <1>8, UpsetsType DEF DeleteChat
    <2>4. QED
      BY <1>8, <2>1, <2>2, <2>3 DEF DeleteChat, TypeOK
  <1>9. ASSUME SaveHistory
        PROVE  TypeOK'
    BY <1>9, SavedType DEF SaveHistory, TypeOK
  <1>10. ASSUME SyncFails \/ LoginLoad \/ LoginDone \/ LoginFails
         PROVE  TypeOK'
    BY <1>10 DEF SyncFails, LoginLoad, LoginDone, LoginFails, TypeOK
  <1>11. ASSUME Logout \/ Restart
         PROVE  TypeOK'
    <2>1. chat' \in Seq(Entry)
      <3>1. ReadableWithoutPassword \in {<<>>, file.chat}
        BY DEF ReadableWithoutPassword
      <3>2. file.chat \in Seq(Entry) /\ <<>> \in Seq(Entry)
        BY DEF TypeOK
      <3>3. chat' = ReadableWithoutPassword
        BY <1>11 DEF Logout, Restart
      <3>4. QED
        BY <3>1, <3>2, <3>3
    <2>2. upsets' \in 0 .. MaxUpset
      BY <1>11, UpsetsType DEF Logout, Restart
    <2>3. QED
      BY <1>11, <2>1, <2>2 DEF Logout, Restart, TypeOK
  <1>12. CASE UNCHANGED vars
    BY <1>12 DEF vars, TypeOK
  <1>13. QED
    BY <1>1, <1>2, <1>3, <1>4, <1>5, <1>6, <1>7, <1>8, <1>9, <1>10, <1>11, <1>12 DEF Next

-----------------------------------------------------------------------------
(***************************************************************************)
(* Soundness of a copy, and what keeps it.                                 *)
(***************************************************************************)
\* The server only goes forward: what a status claims stays true.
Forward == \A m \in Msg, status \in Status :
             phase[m] \in Claims(status) => phase'[m] \in Claims(status)

LEMMA ForwardStep == TypeOK /\ [Next]_vars => Forward
  <1> SUFFICES ASSUME TypeOK, [Next]_vars, NEW m \in Msg, NEW status \in Status,
                      phase[m] \in Claims(status)
               PROVE  phase'[m] \in Claims(status)
    BY DEF Forward
  <1>1. CASE phase' = phase
    BY <1>1
  <1>2. ASSUME NEW k \in Msg, StoreText(k) \/ Advance(k)
        PROVE  phase'[m] \in Claims(status)
    BY <1>2 DEF StoreText, Advance, Claims, Status, Phase, TypeOK
  <1>3. QED
    BY <1>1, <1>2
       DEF Next, SendText, SendEnd, PollSend, SyncStart, SyncAnswer, SyncFails, PollSync,
           SaveHistory, DeleteChat, LoginLoad, LoginDone, LoginFails, Logout, Restart, vars

\* A sound copy stays sound while nothing is sent and no result is applied.
SameSending ==
  sending' # None => /\ sending # None
                     /\ sending'.msg = sending.msg
                     /\ sending'.index = sending.index

LEMMA SoundStays ==
  ASSUME NEW entries \in Seq(Entry), Sound(entries),
         Forward, started \subseteq started', SameSending
  PROVE  Sound(entries)'
  <1>1. \A i \in DOMAIN entries : entries[i].status \in Status
    <2>1. \A i \in DOMAIN entries : entries[i] \in Entry
      OBVIOUS
    <2>2. QED
      BY <2>1 DEF Entry
  <1>2. \A i \in DOMAIN entries : True(entries[i])'
    BY <1>1 DEF Sound, True, Forward
  <1>3. Known(entries)'
    BY DEF Sound, Known
  <1>4. Indexed(entries)'
    BY DEF Sound, Indexed, SameSending
  <1>5. QED
    BY <1>2, <1>3, <1>4 DEF Sound, Unique

LEMMA SoundEmpty == Sound(<<>>) /\ Sound(<<>>)'
  BY DEF Sound, True, Unique, Known, Indexed

LEMMA ChatInit == Init => ChatInv
  <1> SUFFICES ASSUME Init
               PROVE  ChatInv
    OBVIOUS
  <1>1. Copies = {<<>>}
    BY DEF Init, Copies
  <1>2. ResultTrue /\ AnswersTrue
    BY DEF Init, ResultTrue, AnswersTrue
  <1>3. QED
    BY <1>1, <1>2, SoundEmpty, TypeInit DEF Init, ChatInv

\* Sending appends the only entry of its text, at the index the worker is given.
LEMMA SendTextSound ==
  ASSUME ChatInv, NEW m \in Msg, SendText(m), NEW entries \in Copies'
  PROVE  Sound(entries)'
  <1> DEFINE e == [id |-> m, status |-> "sending"]
             n == Len(chat) + 1
  <1>1. chat \in Seq(Entry) /\ e \in Entry /\ Sound(chat)
    BY DEF ChatInv, TypeOK, Copies, Entry, Status
  <1>2. entries = Append(chat, e)
    BY DEF SendText, Copies, ChatInv, Saved
  <1>3. /\ entries[n] = e
        /\ DOMAIN entries = DOMAIN chat \union {n}
        /\ Len(entries) = n
        /\ \A i \in DOMAIN chat : entries[i] = chat[i]
        /\ n \notin DOMAIN chat
    BY <1>1, <1>2, AppendEntry
  <1>4. \A i \in DOMAIN chat : chat[i].id # m
    BY <1>1, ChatStatusAssumption DEF Sound, Known, SendText
  <1>5. /\ phase' = phase /\ started' = started \union {m}
        /\ sending' = [msg |-> m, index |-> Len(entries), result |-> "none"]
        /\ phase[m] \in Phase
    BY <1>2 DEF SendText, ChatInv, TypeOK
  <1>6. e.id = m /\ phase[m] \in Claims(e.status)
    BY <1>5 DEF Claims
  <1> HIDE DEF e, n
  <1>7. \A i \in DOMAIN entries : True(entries[i])'
    BY <1>1, <1>3, <1>5, <1>6 DEF Sound, True
  <1>8. Unique(entries)
    BY <1>1, <1>3, <1>4, <1>6 DEF Sound, Unique
  <1>9. Known(entries)'
    BY <1>1, <1>3, <1>5, <1>6 DEF Sound, Known
  <1>10. Indexed(entries)'
    BY <1>3, <1>5, <1>6 DEF Indexed
  <1>11. QED
    BY <1>7, <1>8, <1>9, <1>10 DEF Sound, Unique

\* A result sets the status of its own text, or of an incoming one, and no other copy
\* waits for it any longer.
LEMMA PollSendSound ==
  ASSUME ChatInv, PollSend, NEW entries \in Copies'
  PROVE  Sound(entries)'
  <1> DEFINE i == sending.index
             t == [chat EXCEPT ![i].status = sending.result]
  <1>1. /\ chat \in Seq(Entry) /\ Sound(chat) /\ sending \in SendWorker
        /\ \A copy \in Copies : copy \in Seq(Entry) /\ Sound(copy)
    BY Records DEF ChatInv, TypeOK, Copies, PollSend
  <1>2. /\ Forward /\ started' = started /\ phase' = phase /\ SameSending /\ sending' = None
    BY ForwardStep DEF PollSend, ChatInv, Next, SameSending
  <1>3. CASE entries \in Copies
    BY <1>1, <1>2, <1>3, SoundStays
  <1>4. CASE entries \notin Copies
    <2>1. entries = chat' /\ i \in DOMAIN chat /\ entries = t
      BY <1>4 DEF PollSend, Copies, Saved
    <2>2. sending.result \in Status /\ sending.result \in {"sent", "failed"}
      BY <1>1 DEF PollSend, SendWorker, Status
    <2>3. /\ DOMAIN entries = DOMAIN chat
          /\ entries[i].status = sending.result
          /\ \A j \in DOMAIN chat : /\ entries[j].id = chat[j].id
                                    /\ j # i => entries[j] = chat[j]
      BY <1>1, <2>1, <2>2, SetStatus
    <2>4. chat[i].id \in Msg => phase[chat[i].id] \in Claims(sending.result)
      <3>1. ASSUME chat[i].id \in Msg
            PROVE  chat[i].id = sending.msg
        BY <1>1, <2>1, <3>1, ChatStatusAssumption DEF Sound, Indexed, PollSend
      <3>2. sending.msg \in Msg /\ phase[sending.msg] \in Phase
        BY <1>1 DEF SendWorker, ChatInv, TypeOK
      <3>3. sending.result = "sent" => phase[sending.msg] # "unsent"
        BY DEF ChatInv, ResultTrue, PollSend
      <3>4. QED
        BY <2>2, <3>1, <3>2, <3>3 DEF Claims, Phase
    <2> HIDE DEF i, t
    <2>5. \A j \in DOMAIN entries : True(entries[j])'
      BY <1>1, <1>2, <2>3, <2>4 DEF Sound, True
    <2>6. Unique(entries) /\ Known(entries)'
      BY <1>1, <1>2, <2>3 DEF Sound, Unique, Known
    <2>7. Indexed(entries)'
      BY <1>2 DEF Indexed
    <2>8. QED
      BY <2>5, <2>6, <2>7 DEF Sound, Unique
  <1>5. QED
    BY <1>3, <1>4

\* A sync adds texts the chat does not have, behind what is there, and answers that
\* are no more than true.
LEMMA PollSyncSound ==
  ASSUME ChatInv, PollSync, NEW entries \in Copies'
  PROVE  Sound(entries)'
  <1>1. /\ chat \in Seq(Entry) /\ Sound(chat) /\ sync \in SyncWorker /\ sync # None
        /\ \A copy \in Copies : copy \in Seq(Entry) /\ Sound(copy)
    BY Records DEF ChatInv, TypeOK, Copies, PollSync
  <1>2. /\ Forward /\ started' = started /\ phase' = phase
        /\ SameSending /\ sending' = sending
    BY ForwardStep DEF PollSync, ChatInv, Next, SameSending
  <1>3. CASE entries \in Copies
    BY <1>1, <1>2, <1>3, SoundStays
  <1>4. CASE entries \notin Copies
    <2>1. entries = chat'
      BY <1>4 DEF PollSync, Copies, Saved
    <2>2. PICK order \in SetToSeqs(Pushed) : entries = WithStatuses(Received(order))
      BY <2>1 DEF PollSync
    <2> DEFINE r == Received(order)
    <2>3. /\ r \in Seq(Entry)
          /\ \A i \in DOMAIN chat : i \in DOMAIN r /\ r[i] = chat[i]
          /\ \A i \in DOMAIN r \ DOMAIN chat :
               /\ r[i].id \in Incoming \ Ids(chat)
               /\ \A j \in DOMAIN r : r[j].id = r[i].id => i = j
      BY <1>1, ReceivedEntries DEF ChatInv
    <2> HIDE DEF r
    <2>4. /\ DOMAIN entries = DOMAIN r
          /\ \A i \in DOMAIN r :
               /\ entries[i].id = r[i].id
               /\ \/ entries[i] = r[i]
                  \/ /\ r[i].id \in Msg
                     /\ sync.answer[r[i].id] # "unsent"
                     /\ entries[i].status = sync.answer[r[i].id]
      BY <1>1, <2>2, <2>3, StatusesEntries DEF ChatInv, r
    <2>5. \A i \in DOMAIN r : True(r[i])
      BY <1>1, <2>3, ChatStatusAssumption DEF Sound, True
    <2>6. \A m \in Msg : sync.answer[m] # "unsent" => phase[m] \in Claims(sync.answer[m])
      BY <1>1 DEF ChatInv, AnswersTrue, PollSync
    <2>7. \A i \in DOMAIN entries : True(entries[i])'
      BY <1>2, <2>4, <2>5, <2>6 DEF True
    <2>8. Unique(entries)
      BY <1>1, <2>3, <2>4 DEF Sound, Unique
    <2>9. Known(entries)'
      BY <1>1, <1>2, <2>3, <2>4 DEF Sound, Known
    <2>10. Indexed(entries)'
      BY <1>1, <1>2, <2>3, <2>4 DEF Sound, Indexed
    <2>11. QED
      BY <2>7, <2>8, <2>9, <2>10 DEF Sound, Unique
  <1>5. QED
    BY <1>3, <1>4

\* Saving, loading, deleting, logging in and out put one copy, or nothing, in the place
\* of another.
LEMMA CopiesMove ==
  ASSUME ChatInv, [Next]_vars, Copies' \subseteq Copies \union {<<>>},
         started' = started, SameSending, NEW entries \in Copies'
  PROVE  Sound(entries)'
  <1>1. \A copy \in Copies : copy \in Seq(Entry) /\ Sound(copy)
    BY Records DEF ChatInv
  <1>2. Forward
    BY ForwardStep DEF ChatInv
  <1>3. QED
    BY <1>1, <1>2, SoundStays, SoundEmpty

-----------------------------------------------------------------------------
\* Every copy that a step makes or leaves is sound.
LEMMA CopiesStep == ChatInv /\ [Next]_vars => \A entries \in Copies' : Sound(entries)'
  <1> SUFFICES ASSUME ChatInv, [Next]_vars, NEW entries \in Copies'
               PROVE  Sound(entries)'
    OBVIOUS
  <1>1. ASSUME NEW m \in Msg, SendText(m)
        PROVE  Sound(entries)'
    BY <1>1, SendTextSound
  <1>2. CASE PollSend
    BY <1>2, PollSendSound
  <1>3. CASE PollSync
    BY <1>3, PollSyncSound
  <1>4. ASSUME Copies' \subseteq Copies \union {<<>>}, started' = started, SameSending
        PROVE  Sound(entries)'
    BY <1>4, CopiesMove
  <1>5. ASSUME NEW m \in Msg, StoreText(m) \/ Advance(m)
        PROVE  Sound(entries)'
    BY <1>4, <1>5 DEF StoreText, Advance, Copies, SameSending
  <1>6. ASSUME NEW result \in {"sent", "failed"}, SendEnd(result)
        PROVE  Sound(entries)'
    <2>1. SameSending
      BY <1>6, Records DEF SendEnd, SameSending, ChatInv, SendWorker
    <2>2. QED
      BY <1>4, <1>6, <2>1 DEF SendEnd, Copies
  <1>7. ASSUME NEW opened \in SUBSET Incoming, NEW known \in BOOLEAN, SyncAnswer(opened, known)
        PROVE  Sound(entries)'
    BY <1>4, <1>7 DEF SyncAnswer, Copies, SameSending
  <1>8. CASE SyncStart \/ SyncFails
    BY <1>4, <1>8 DEF SyncStart, SyncFails, Copies, SameSending
  <1>9. CASE SaveHistory \/ DeleteChat
    <2>1. Copies' \subseteq Copies \union {<<>>}
      BY <1>9 DEF SaveHistory, DeleteChat, Copies, Saved
    <2>2. QED
      BY <1>4, <1>9, <2>1 DEF SaveHistory, DeleteChat, SameSending
  <1>10. CASE LoginLoad \/ LoginDone \/ LoginFails
    <2>1. Copies' \subseteq Copies \union {<<>>}
      BY <1>10 DEF LoginLoad, LoginDone, LoginFails, Copies
    <2>2. QED
      BY <1>4, <1>10, <2>1 DEF LoginLoad, LoginDone, LoginFails, SameSending
  <1>11. CASE Logout \/ Restart
    <2>1. Copies' \subseteq Copies \union {<<>>}
      BY <1>11 DEF Logout, Restart, Copies, ReadableWithoutPassword
    <2>2. QED
      BY <1>4, <1>11, <2>1 DEF Logout, Restart, SameSending
  <1>12. CASE UNCHANGED vars
    BY <1>4, <1>12 DEF vars, Copies, SameSending
  <1>13. QED
    BY <1>1, <1>2, <1>3, <1>5, <1>6, <1>7, <1>8, <1>9, <1>10, <1>11, <1>12 DEF Next

\* A success stays one of a stored text.
LEMMA ResultStep == ChatInv /\ [Next]_vars => ResultTrue'
  <1> SUFFICES ASSUME ChatInv, [Next]_vars,
                      (sending # None)', (sending.result = "sent")'
               PROVE  (phase[sending.msg] # "unsent")'
    BY DEF ResultTrue
  <1>1. Forward
    BY ForwardStep DEF ChatInv
  <1>2. ASSUME NEW m \in Msg, phase[m] # "unsent"
        PROVE  phase'[m] # "unsent"
    BY <1>1, <1>2 DEF Forward, Claims, Status, Phase, ChatInv, TypeOK
  <1>3. CASE sending' = sending
    BY <1>2, <1>3, Records DEF ResultTrue, ChatInv, SendWorker
  <1>4. CASE SendEnd("sent")
    BY <1>2, <1>4, Records DEF SendEnd, ChatInv, SendWorker
  <1>5. CASE SendEnd("failed")
    BY <1>5, Records DEF SendEnd, ChatInv, SendWorker
  <1>6. ASSUME NEW m \in Msg, SendText(m)
        PROVE  FALSE
    BY <1>6 DEF SendText
  <1>7. QED
    BY <1>3, <1>4, <1>5, <1>6
       DEF Next, StoreText, Advance, PollSend, SyncStart, SyncAnswer, SyncFails, PollSync,
           SaveHistory, DeleteChat, LoginLoad, LoginDone, LoginFails, Logout, Restart, vars

\* An answer is what the server stored when it was given, and the server goes forward.
LEMMA AnswersStep == ChatInv /\ [Next]_vars => AnswersTrue'
  <1> SUFFICES ASSUME ChatInv, [Next]_vars, (sync # None /\ sync.answered)',
                      NEW m \in Msg, sync'.answer[m] # "unsent"
               PROVE  phase'[m] \in Claims(sync'.answer[m])
    BY DEF AnswersTrue
  <1>1. Forward
    BY ForwardStep DEF ChatInv
  <1>2. CASE sync' = sync
    <2>1. sync.answer[m] \in Status /\ phase[m] \in Claims(sync.answer[m])
      BY <1>2, Records DEF ChatInv, AnswersTrue, SyncWorker, Phase, Status
    <2>2. QED
      BY <1>1, <1>2, <2>1 DEF Forward
  <1>3. ASSUME NEW opened \in SUBSET Incoming, NEW known \in BOOLEAN, SyncAnswer(opened, known)
        PROVE  phase'[m] \in Claims(sync'.answer[m])
    <2>1. sync'.answer = phase /\ phase' = phase
      BY <1>3, Records DEF SyncAnswer, ChatInv, SyncWorker
    <2>2. phase[m] \in Phase
      BY DEF ChatInv, TypeOK
    <2>3. QED
      BY <2>1, <2>2 DEF Claims, Phase
  <1>4. CASE SyncStart
    BY <1>4 DEF SyncStart
  <1>5. QED
    BY <1>2, <1>3, <1>4
       DEF Next, StoreText, Advance, SendText, SendEnd, PollSend, SyncFails, PollSync,
           SaveHistory, DeleteChat, LoginLoad, LoginDone, LoginFails, Logout, Restart, vars

\* A history that a login has read waits only while nobody is logged in.
LEMMA LoadingStep == ChatInv /\ [Next]_vars => (loading # None => ~online)'
  BY DEF ChatInv, Next, StoreText, Advance, SendText, SendEnd, PollSend, SyncStart,
         SyncAnswer, SyncFails, PollSync, SaveHistory, DeleteChat, LoginLoad, LoginDone,
         LoginFails, Logout, Restart, vars

LEMMA ChatStep == ChatInv /\ [Next]_vars => ChatInv'
  BY TypeStep, CopiesStep, ResultStep, AnswersStep, LoadingStep DEF ChatInv

THEOREM ChatInvariant == Spec => []ChatInv
  BY ChatInit, ChatStep, PTL DEF Spec

-----------------------------------------------------------------------------
(***************************************************************************)
(* The results.                                                            *)
(***************************************************************************)
\* The variables keep their types.
THEOREM TypeCorrect == Spec => []TypeOK
<1>1. ChatInv => TypeOK
  BY DEF ChatInv
<1>2. QED
  BY ChatInvariant, <1>1, PTL

\* No entry of a sent text, in memory, in the file or on its way from the file, claims
\* more than the server stores, although results find their entry by an index alone
\* and may come after the chat was deleted, replaced or filled again.
THEOREM StatusNotAheadHolds == Spec => []StatusNotAhead
<1>1. ChatInv => StatusNotAhead
  BY DEF ChatInv, Sound, True, StatusNotAhead
<1>2. QED
  BY ChatInvariant, <1>1, PTL

\* No text has two entries, whatever sync, logout and login put in the chat.
THEOREM OneEntryEachHolds == Spec => []OneEntryEach
<1>1. ChatInv => OneEntryEach
  BY DEF ChatInv, Sound, Unique, OneEntryEach, Copies
<1>2. QED
  BY ChatInvariant, <1>1, PTL

-----------------------------------------------------------------------------
(***************************************************************************)
(* What the history would keep.                                            *)
(***************************************************************************)
\* No result is applied while nobody is logged in: the check that poll_send_result and
\* apply_sync_success lack.
ResultsOnline == [][PollSend \/ PollSync => online]_vars

\* A user who is logged in sees whatever the file has, and so will the one whose login
\* has read it: only a chat that was deleted meanwhile is in neither.
Holding ==
  /\ online => Ids(file.chat) \subseteq Ids(chat)
  /\ loading # None => Ids(file.chat) \subseteq Ids(loading)

\* The ids of entries of which no one changes its id.
LEMMA IdsGrow ==
  ASSUME NEW s, NEW t, \A i \in DOMAIN s : i \in DOMAIN t /\ t[i].id = s[i].id
  PROVE  Ids(s) \subseteq Ids(t)
  BY DEF Ids

LEMMA SavedIds == ASSUME NEW entries PROVE Saved(entries).chat = entries
  BY DEF Saved

LEMMA EmptyIds == Ids(<<>>) = {}
  BY DEF Ids

\* The chat in memory only grows by what a user or a worker does to it.
LEMMA ChatGrows ==
  ASSUME TypeOK, (\E m \in Msg : SendText(m)) \/ PollSend \/ PollSync
  PROVE  Ids(chat) \subseteq Ids(chat')
  <1>1. chat \in Seq(Entry) /\ \A i \in DOMAIN chat : chat[i] \in Entry
    BY DEF TypeOK
  <1>2. ASSUME NEW m \in Msg, SendText(m)
        PROVE  Ids(chat) \subseteq Ids(chat')
    <2>1. chat' = Append(chat, [id |-> m, status |-> "sending"])
      BY <1>2 DEF SendText
    <2>2. [id |-> m, status |-> "sending"] \in Entry
      BY DEF Entry, Status
    <2>3. \A i \in DOMAIN chat : i \in DOMAIN chat' /\ chat'[i] = chat[i]
      BY <1>1, <2>1, <2>2, AppendEntry
    <2>4. QED
      BY <2>3, IdsGrow
  <1>3. CASE PollSend
    <2>1. \/ chat' = chat
          \/ /\ sending.index \in DOMAIN chat
             /\ chat' = [chat EXCEPT ![sending.index].status = sending.result]
      BY <1>3 DEF PollSend
    <2>2. sending.result \in Status
      BY <1>3, Records DEF PollSend, SendWorker, Status
    <2>3. CASE /\ sending.index \in DOMAIN chat
               /\ chat' = [chat EXCEPT ![sending.index].status = sending.result]
      <3>1. DOMAIN chat' = DOMAIN chat /\ \A i \in DOMAIN chat : chat'[i].id = chat[i].id
        BY <1>1, <2>2, <2>3, SetStatus
      <3>2. QED
        BY <3>1, IdsGrow
    <2>4. QED
      BY <2>1, <2>3
  <1>4. CASE PollSync
    <2>1. PICK order \in SetToSeqs(Pushed) : chat' = WithStatuses(Received(order))
      BY <1>4 DEF PollSync
    <2>2. sync # None
      BY <1>4 DEF PollSync
    <2>3. /\ Received(order) \in Seq(Entry)
          /\ \A i \in DOMAIN chat : i \in DOMAIN Received(order) /\ Received(order)[i] = chat[i]
      BY <2>2, ReceivedEntries
    <2> DEFINE r == Received(order)
    <2>4. PICK entries \in Seq(Entry) : entries = r
      BY <2>3
    <2>5. DOMAIN WithStatuses(entries) = DOMAIN entries
      BY DEF WithStatuses
    <2>6. \A i \in DOMAIN entries : WithStatuses(entries)[i].id = entries[i].id
      BY DEF WithStatuses, Entry
    <2> HIDE DEF r
    <2>7. \A i \in DOMAIN chat : i \in DOMAIN chat' /\ chat'[i].id = chat[i].id
      BY <2>1, <2>3, <2>4, <2>5, <2>6 DEF r
    <2>8. QED
      BY <2>7, IdsGrow
  <1>5. QED
    BY <1>2, <1>3, <1>4

LEMMA HoldingStep ==
  ASSUME TypeOK, loading # None => ~online, Holding,
         [Next]_vars, PollSend \/ PollSync => online \/ UNCHANGED vars
  PROVE  /\ Holding'
         /\ \A m \in Ids(file.chat) : m \notin Ids(file'.chat) => DeleteChat
  <1> DEFINE Kept == \A m \in Ids(file.chat) : m \notin Ids(file'.chat) => DeleteChat
  <1>1. CASE UNCHANGED <<chat, file, online, loading>>
    BY <1>1 DEF Holding
  <1>2. CASE (\E m \in Msg : SendText(m)) \/ ((PollSend \/ PollSync) /\ online)
    <2>1. /\ online /\ online' = online /\ loading' = loading
          /\ file' = file \/ file' = Saved(chat')
      BY <1>2 DEF SendText, PollSend, PollSync
    <2>2. Ids(chat) \subseteq Ids(chat')
      BY <1>2, ChatGrows
    <2>3. Ids(file.chat) \subseteq Ids(chat)
      BY <2>1 DEF Holding
    <2>4. file'.chat = file.chat \/ file'.chat = chat'
      BY <2>1, SavedIds
    <2>5. QED
      BY <2>1, <2>2, <2>3, <2>4 DEF Holding
  <1>3. CASE SaveHistory
    <2>1. online /\ UNCHANGED <<chat, online, loading>> /\ file'.chat = chat
      BY <1>3, SavedIds DEF SaveHistory
    <2>2. QED
      BY <2>1 DEF Holding
  <1>4. CASE DeleteChat
    <2>1. chat' = <<>> /\ file'.chat = <<>> /\ UNCHANGED <<online, loading>>
      BY <1>4, SavedIds DEF DeleteChat
    <2>2. QED
      BY <1>4, <2>1, EmptyIds DEF Holding
  <1>5. CASE LoginLoad
    <2>1. loading' = file.chat /\ ~online /\ UNCHANGED <<chat, file, online>>
      BY <1>5 DEF LoginLoad
    <2>2. QED
      BY <2>1 DEF Holding
  <1>6. CASE LoginDone
    <2>1. loading # None /\ chat' = loading /\ loading' = None /\ file' = file
      BY <1>6 DEF LoginDone
    <2>2. QED
      BY <2>1 DEF Holding
  <1>7. CASE LoginFails
    BY <1>7 DEF LoginFails, Holding
  <1>8. CASE Logout \/ Restart
    <2>1. online' = FALSE /\ file' = file /\ loading' \in {loading, None}
      BY <1>8 DEF Logout, Restart
    <2>2. QED
      BY <2>1 DEF Holding
  <1>9. QED
    BY <1>1, <1>2, <1>3, <1>4, <1>5, <1>6, <1>7, <1>8
       DEF Next, StoreText, Advance, SendEnd, SyncStart, SyncFails, SyncAnswer, vars

\* HistoryKept fails only because of results that are applied while nobody is logged in:
\* without them no entry leaves the file unless its chat is deleted, whatever logins,
\* failed logins, logouts, ends of the program and late results come in between.
THEOREM HistoryKeptOnline == Spec /\ ResultsOnline => HistoryKept
  <1> DEFINE Loses == \A m \in Ids(file.chat) : m \notin Ids(file'.chat) => DeleteChat
  <1>1. Init => Holding
    BY EmptyIds DEF Init, Holding
  <1>2. ChatInv /\ Holding /\ [Next]_vars /\ [PollSend \/ PollSync => online]_vars => Holding' /\ [Loses]_vars
    BY HoldingStep DEF ChatInv
  <1>3. QED
    BY <1>1, <1>2, ChatInvariant, PTL DEF Spec, ResultsOnline, HistoryKept
=============================================================================
