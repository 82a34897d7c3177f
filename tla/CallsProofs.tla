----------------------------- MODULE CallsProofs -----------------------------
(***************************************************************************)
(* Proofs about Calls: types, that nobody is left alone in a call, and     *)
(* that the sessions of a call are made by the right ends.                 *)
(***************************************************************************)
EXTENDS Calls, SignalQueueProofs

\* A session is made, and kept, for the call of the window only.
MediaOfCall == \A d \in Device : active[d] = None => media[d] = "none"

TypeInv == TypeOK /\ MediaOfCall

\* No record is None: a new call, worker or fetch is seen as one that is there.
LEMMA NotNone == \A x \in CallState \union StartWorker \union Poll : x # None
  BY NoneAssumption

LEMMA Records ==
  ASSUME TypeOK
  PROVE  /\ \A d \in Device : active[d] # None => active[d] \in CallState
         /\ \A d \in Device : starting[d] # None => starting[d] \in StartWorker
         /\ \A d \in Device : poll[d] # None => poll[d] \in Poll
  BY DEF TypeOK

LEMMA SentType ==
  ASSUME NEW d \in Device, NEW kind \in Kind, NEW c \in Call
  PROVE  /\ Sent(d, kind, c) \in Signal
         /\ Sent(d, kind, c).kind = kind
         /\ Sent(d, kind, c).call = c
         /\ Sent(d, kind, c).to = Peer(d, c)
         /\ Peer(d, c) \in Device
  BY CallsAssumption DEF Sent, Signal, Peer

LEMMA Updates ==
  /\ \A w \in StartWorker, at \in {"asked", "invited", "ready", "failed"} :
       [w EXCEPT !.at = at] \in StartWorker
  /\ \A a \in CallState, x \in BOOLEAN : [a EXCEPT !.accepted = x] \in CallState
  /\ \A p \in Poll : [p EXCEPT !.done = TRUE] \in Poll
  /\ \A p \in Poll, signals \in Seq(Signal) :
       [p EXCEPT !.done = TRUE, !.signals = signals] \in Poll
  BY DEF StartWorker, CallState, Poll

\* The calls that are marked as muddled are calls.
LEMMA Marks ==
  /\ \A signals \in SUBSET Signal : Calls(signals) \subseteq Call
  /\ \A d \in Device, signals \in SUBSET Signal : Missed(d, signals) \subseteq Call
  /\ \A signals \in Seq(Signal) : ToSet(signals) \subseteq Signal
  <1>1. \A signals \in SUBSET Signal : Calls(signals) \subseteq Call
    BY DEF Calls, Signal
  <1>2. \A d \in Device, signals \in SUBSET Signal : Missed(d, signals) \subseteq Call
    BY <1>1 DEF Missed
  <1>3. \A signals \in Seq(Signal) : ToSet(signals) \subseteq Signal
    BY DEF ToSet
  <1>4. QED
    BY <1>1, <1>2, <1>3

\* The first of some places of a sequence is one of them.
LEMMA FirstPlace ==
  ASSUME NEW S, NEW signals \in Seq(S), NEW places \in SUBSET DOMAIN signals, places # {}
  PROVE  /\ Min(places) \in places /\ signals[Min(places)] \in S
         /\ \A i \in places : Min(places) <= i
  <1>1. places \subseteq Nat /\ \A i \in places : signals[i] \in S
    OBVIOUS
  <1>2. PICK place \in [1 .. Cardinality(places) -> places] :
          /\ \A i \in places : \E k \in 1 .. Cardinality(places) : place[k] = i
          /\ \A k, l \in 1 .. Cardinality(places) : k < l => place[k] < place[l]
    BY AtInOrder
  <1>3. 1 \in 1 .. Cardinality(places) /\ \A y \in places : place[1] <= y
    <2>1. Cardinality(places) \in Nat
      BY AtInOrder
    <2>2. \A y \in places : 1 \in 1 .. Cardinality(places) /\ place[1] <= y
      <3> TAKE y \in places
      <3>1. PICK k \in 1 .. Cardinality(places) : place[k] = y
        BY <1>2
      <3>2. 1 \in 1 .. Cardinality(places) /\ (k = 1 \/ 1 < k)
        BY <2>1
      <3>3. QED
        BY <1>1, <1>2, <3>1, <3>2
    <2>3. QED
      BY <2>2
  <1>4. QED
    BY <1>1, <1>3 DEF Min

LEMMA MediaType ==
  ASSUME NEW was \in Media, NEW kinds
  PROVE  MediaAfter(was, kinds) \in Media
  BY DEF Media, MediaAfter, Connected

LEMMA PushType ==
  ASSUME TypeOK, NEW signal \in Signal, Push(signal)
  PROVE  /\ queue' \in Seq(Signal) /\ Len(queue') <= MaxQueue
         /\ muddled' \subseteq Call
         /\ accepted' = accepted /\ met' = met /\ clicks' = clicks /\ lost' = lost
  <1>1. queue' \in Seq(Signal) /\ Len(queue') <= MaxQueue
    BY QueuedSignals, QueueAssumption DEF TypeOK, Push
  <1>2. Len(queue) >= MaxQueue => Head(queue).call \in Call
    <2>1. Len(queue) >= MaxQueue => queue # <<>>
      BY QueueAssumption
    <2>2. queue # <<>> => Head(queue) \in Signal
      BY DEF TypeOK
    <2>3. QED
      BY <2>1, <2>2 DEF Signal
  <1>3. QED
    BY <1>1, <1>2 DEF TypeOK, Push, Muddle

\* A fetch, whose answer is a part of the queue.
LEMMA FetchType ==
  ASSUME TypeOK, NEW d \in Device, NEW call
  PROVE  /\ Fetched(queue, d, call, Limit) \in Seq(Signal)
         /\ Retained(queue, d, call, Limit) \in Seq(Signal)
         /\ Len(Retained(queue, d, call, Limit)) <= MaxQueue
         /\ ToSet(Fetched(queue, d, call, Limit)) \subseteq Signal
         /\ \A s \in ToSet(Fetched(queue, d, call, Limit)) : s.to = d
         /\ ToSet(queue) = ToSet(Fetched(queue, d, call, Limit))
                             \union ToSet(Retained(queue, d, call, Limit))
  <1>1. queue \in Seq(Signal) /\ Len(queue) <= MaxQueue /\ MaxQueue \in Nat
    BY QueueAssumption DEF TypeOK
  <1>2. /\ Fetched(queue, d, call, Limit) \in Seq(Signal)
        /\ Retained(queue, d, call, Limit) \in Seq(Signal)
        /\ Len(Retained(queue, d, call, Limit)) <= Len(queue)
        /\ \A s \in ToSet(Fetched(queue, d, call, Limit)) : s.to = d
        /\ ToSet(queue) = ToSet(Fetched(queue, d, call, Limit))
                            \union ToSet(Retained(queue, d, call, Limit))
    BY <1>1, FetchedSignals
  <1>3. /\ Len(queue) \in Nat
        /\ Len(Retained(queue, d, call, Limit)) \in Nat
    BY <1>1, <1>2
  <1>4. QED
    BY <1>1, <1>2, <1>3, Marks

LEMMA TypeInit == Init => TypeOK
  BY QueueAssumption, CallsAssumption DEF Init, TypeOK, Media

LEMMA EnterType ==
  ASSUME TypeOK, NEW d \in Device, NEW c \in Call, NEW incoming \in BOOLEAN,
         Enter(d, c, incoming)
  PROVE  /\ active' \in [Device -> CallState \union {None}]
         /\ met' \subseteq Device \X Call
         /\ active'[d] = [call |-> c, incoming |-> incoming, accepted |-> FALSE]
         /\ active'[d] \in CallState
         /\ \A e \in Device : e # d => active'[e] = active[e]
  <1>1. [call |-> c, incoming |-> incoming, accepted |-> FALSE] \in CallState
    BY DEF CallState
  <1>2. QED
    BY <1>1 DEF TypeOK, Enter

\* The window closes, whatever closes it.
LEMMA LeaveType ==
  ASSUME TypeOK, NEW d \in Device, active[d] # None, NEW kind \in Ending, Leave(d, kind),
         clicks' \in 0 .. MaxClicks
  PROVE  TypeOK'
  <1> USE DEF TypeOK, client, server, history
  <1>1. active[d].call \in Call
    BY Records DEF CallState
  <1>2. Sent(d, kind, active[d].call) \in Signal
    BY <1>1, SentType DEF Kind
  <1>3. poll[d] # None => poll[d].call \in Call \union {AnyCall} /\ poll[d].signals \in Seq(Signal)
    BY Records DEF Poll
  <1>4. poll[d] # None =>
          Missed(d, {s \in ToSet(poll[d].signals) : s.call # active[d].call}) \subseteq Call
    BY <1>3, Marks
  <1>5. muddled' \subseteq Call
    BY <1>4 DEF Leave, Muddle
  <1>6. strays' \in [Device -> SUBSET (Call \union {AnyCall})]
    BY <1>3 DEF Leave
  <1>7. /\ active' \in [Device -> CallState \union {None}]
        /\ media' \in [Device -> Media]
        /\ poll' \in [Device -> Poll \union {None}]
        /\ posting' \subseteq Signal
    BY <1>2 DEF Leave, Media
  <1>8. QED
    BY <1>5, <1>6, <1>7 DEF Leave

\* Every request, answer, click and loss keeps the variables typed.
LEMMA TypeStep ==
  ASSUME TypeInv, [Next]_vars
  PROVE  TypeOK'
  <1> USE DEF TypeInv, TypeOK, client, server, history
  <1>1. ASSUME NEW d \in Device, NEW c \in Call, StartCall(d, c)
        PROVE  TypeOK'
    <2>1. [call |-> c, at |-> "asked"] \in StartWorker
      BY DEF StartWorker
    <2>2. QED
      BY <1>1, <2>1 DEF StartCall
  <1>2. ASSUME NEW d \in Device, StartInvite(d)
        PROVE  TypeOK'
    <2>1. [starting[d] EXCEPT !.at = "invited"] \in StartWorker /\ starting[d].call \in Call
      BY <1>2, Updates, Records DEF StartInvite, StartWorker
    <2>2. QED
      BY <1>2, <2>1 DEF StartInvite
  <1>3. ASSUME NEW d \in Device, StartSignal(d)
        PROVE  TypeOK'
    <2>1. [starting[d] EXCEPT !.at = "ready"] \in StartWorker /\ starting[d].call \in Call
      BY <1>3, Updates, Records DEF StartSignal, StartWorker
    <2>2. CASE Push(Sent(d, "invite", starting[d].call))
      <3>1. Sent(d, "invite", starting[d].call) \in Signal
        BY <2>1, SentType DEF Kind
      <3>2. QED
        BY <1>3, <2>1, <2>2, <3>1, PushType DEF StartSignal
    <2>3. CASE Lose({}) /\ UNCHANGED <<queue, accepted, met, clicks>>
      BY <1>3, <2>1, <2>3, CallsAssumption DEF StartSignal, Lose, Muddle
    <2>4. QED
      BY <1>3, <2>2, <2>3 DEF StartSignal
  <1>4. ASSUME NEW d \in Device, StartFails(d)
        PROVE  TypeOK'
    <2>1. [starting[d] EXCEPT !.at = "failed"] \in StartWorker /\ starting[d].call \in Call
      BY <1>4, Updates, Records DEF StartFails, StartWorker
    <2>2. QED
      BY <1>4, <2>1, CallsAssumption DEF StartFails, Lose, Muddle
  <1>5. ASSUME NEW d \in Device, PollCall(d)
        PROVE  TypeOK'
    <2>1. starting[d].call \in Call
      BY <1>5, Records DEF PollCall, StartWorker
    <2>3. active[d] # None => active[d].call \in Call
      BY Records DEF CallState
    <2>4. CASE starting[d].at = "failed"
      BY <1>5, <2>4 DEF PollCall
    <2>5. CASE starting[d].at # "failed"
      <3>1. /\ active' \in [Device -> CallState \union {None}]
            /\ met' \subseteq Device \X Call
        <4>1. Enter(d, starting[d].call, FALSE)
          BY <1>5, <2>5 DEF PollCall
        <4>2. QED
          BY <2>1, <4>1, EnterType
      <3>2. muddled' \subseteq Call
        BY <1>5, <2>1, <2>3, <2>5 DEF PollCall, Muddle
      <3>3. QED
        BY <1>5, <3>1, <3>2 DEF PollCall
    <2>6. QED
      BY <2>4, <2>5
  <1>6. ASSUME NEW d \in Device, PollStart(d)
        PROVE  TypeOK'
    <2>1. active[d] # None => active[d].call \in Call
      BY Records DEF CallState
    <2>2. [call |-> IF active[d] = None THEN AnyCall ELSE active[d].call,
           done |-> FALSE, signals |-> <<>>] \in Poll
      BY <2>1 DEF Poll
    <2>3. QED
      BY <1>6, <2>2 DEF PollStart
  <1>7. ASSUME NEW d \in Device, PollFetch(d)
        PROVE  TypeOK'
    <2> DEFINE batch == Fetched(queue, d, poll[d].call, Limit)
    <2>1. /\ batch \in Seq(Signal) /\ ToSet(batch) \subseteq Signal
          /\ queue' \in Seq(Signal) /\ Len(queue') <= MaxQueue
      BY <1>7, FetchType DEF PollFetch
    <2>2. /\ [poll[d] EXCEPT !.done = TRUE, !.signals = batch] \in Poll
          /\ [poll[d] EXCEPT !.done = TRUE] \in Poll
      BY <1>7, <2>1, Updates, Records DEF PollFetch
    <2>3. Missed(d, ToSet(batch)) \subseteq Call
      BY <2>1, Marks
    <2>4. CASE poll' = [poll EXCEPT ![d].done = TRUE, ![d].signals = batch] /\ UNCHANGED history
      BY <1>7, <2>1, <2>2, <2>4 DEF PollFetch
    <2>5. CASE /\ poll' = [poll EXCEPT ![d].done = TRUE]
               /\ Lose(Missed(d, ToSet(batch)))
               /\ UNCHANGED <<accepted, met, clicks>>
      <3>1. muddled' \subseteq Call /\ lost' \in 0 .. MaxLost
        BY <2>3, <2>5, CallsAssumption DEF Lose, Muddle
      <3>2. poll' \in [Device -> Poll \union {None}]
        BY <2>2, <2>5
      <3>3. QED
        BY <1>7, <2>1, <2>5, <3>1, <3>2 DEF PollFetch
    <2>6. QED
      BY <1>7, <2>4, <2>5 DEF PollFetch
  <1>8. ASSUME NEW d \in Device, NEW call \in Call \union {AnyCall}, StrayFetch(d, call)
        PROVE  TypeOK'
    <2>1. /\ ToSet(Fetched(queue, d, call, Limit)) \subseteq Signal
          /\ queue' \in Seq(Signal) /\ Len(queue') <= MaxQueue
      BY <1>8, FetchType DEF StrayFetch
    <2>2. Missed(d, ToSet(Fetched(queue, d, call, Limit))) \subseteq Call
      BY <2>1, Marks
    <2>3. QED
      BY <1>8, <2>1, <2>2 DEF StrayFetch, Muddle
  <1>9. ASSUME NEW d \in Device, Ring(d)
        PROVE  TypeOK'
    <2> DEFINE invites == {i \in DOMAIN poll[d].signals : poll[d].signals[i].kind = "invite"}
               call == poll[d].signals[Min(invites)].call
    <2>1. poll[d].signals \in Seq(Signal)
      BY <1>9, Records DEF Ring, Poll
    <2>2. Missed(d, ToSet(poll[d].signals)) \subseteq Call
      BY <2>1, Marks
    <2>3. CASE invites = {}
      BY <1>9, <2>2, <2>3 DEF Ring, Muddle
    <2>4. CASE invites # {}
      <3>1. call \in Call
        <4>1. invites \in SUBSET DOMAIN poll[d].signals
          OBVIOUS
        <4> HIDE DEF invites
        <4>2. poll[d].signals[Min(invites)] \in Signal
          BY <2>1, <2>4, <4>1, FirstPlace
        <4>3. QED
          BY <4>2 DEF Signal
      <3>3. /\ Enter(d, call, TRUE)
            /\ Muddle(Missed(d, ToSet(poll[d].signals))
                        \union (IF <<d, call>> \in met THEN {call} ELSE {}))
        BY <1>9, <2>4 DEF Ring
      <3> HIDE DEF call
      <3>4. /\ active' \in [Device -> CallState \union {None}]
            /\ met' \subseteq Device \X Call
        BY <3>1, <3>3, EnterType
      <3>7. muddled' \subseteq Call
        BY <2>2, <3>1, <3>3 DEF Muddle
      <3>5. poll' \in [Device -> Poll \union {None}]
        BY <1>9 DEF Ring
      <3>6. QED
        BY <1>9, <3>4, <3>5, <3>7 DEF Ring
    <2>5. QED
      BY <2>3, <2>4
  <1>10. ASSUME NEW d \in Device, Hear(d)
         PROVE  TypeOK'
    <2> DEFINE heard == Heard(poll[d].signals)
               kinds == {s.kind : s \in heard}
               other == {s \in heard : s.kind # "invite" /\ s.call # active[d].call}
               marks == Calls(other) \union (IF other = {} THEN {} ELSE {active[d].call})
                          \union Missed(d, {s \in ToSet(poll[d].signals) : s.call # active[d].call})
    <2>1. poll[d].signals \in Seq(Signal) /\ active[d] \in CallState
      BY <1>10, Records DEF Hear, Poll
    <2>2. heard \subseteq ToSet(poll[d].signals) /\ ToSet(poll[d].signals) \subseteq Signal
      BY <2>1, Marks DEF Heard, ToSet
    <2>3. active[d].call \in Call /\ active[d].accepted \in BOOLEAN
      BY <2>1 DEF CallState
    <2>4. marks \subseteq Call
      BY <2>2, <2>3, Marks
    <2>5. poll' \in [Device -> Poll \union {None}]
      BY <1>10 DEF Hear
    <2>6. muddled' \subseteq Call
      BY <1>10, <2>4 DEF Hear, Muddle
    <2>7. CASE kinds \intersect Ending # {}
      <3>1. active' = [active EXCEPT ![d] = None] /\ media' = [media EXCEPT ![d] = "none"]
        BY <1>10, <2>7 DEF Hear
      <3>2. media' \in [Device -> Media]
        BY <3>1 DEF Media
      <3>3. active' \in [Device -> CallState \union {None}]
        BY <3>1
      <3>4. QED
        BY <1>10, <2>5, <2>6, <3>2, <3>3 DEF Hear
    <2>8. CASE ~ (kinds \intersect Ending # {})
      <3>1. /\ active' = [active EXCEPT ![d].accepted = @ \/ "answer" \in kinds]
            /\ media' = [media EXCEPT ![d] = MediaAfter(@, kinds)]
        BY <1>10, <2>8 DEF Hear
      <3> HIDE DEF kinds
      <3>2. [active[d] EXCEPT !.accepted = @ \/ "answer" \in kinds] \in CallState
        BY <2>1, <2>3 DEF CallState
      <3>3. active' \in [Device -> CallState \union {None}]
        BY <3>1, <3>2
      <3>4. media' \in [Device -> Media]
        BY <3>1, MediaType
      <3>5. QED
        BY <1>10, <2>5, <2>6, <3>3, <3>4 DEF Hear
    <2>9. QED
      BY <2>7, <2>8
  <1>11. ASSUME NEW d \in Device, NEW c \in Call, ShowInvite(d, c)
         PROVE  TypeOK'
    <2>2. Sent(d, "busy", c) \in Signal
      BY SentType DEF Kind, Ending
    <2>3. muddled' \subseteq Call /\ invite' \in [Call -> {"unsent", "stored", "shown"}]
      BY <1>11 DEF ShowInvite, Muddle
    <2>4. /\ active' \in [Device -> CallState \union {None}]
          /\ met' \subseteq Device \X Call
          /\ posting' \subseteq Signal
      <3>1. CASE active[d] = None
        <4>1. Enter(d, c, TRUE) /\ posting' = posting
          BY <1>11, <3>1 DEF ShowInvite
        <4>2. QED
          BY <4>1, EnterType
      <3>2. CASE active[d] # None
        BY <1>11, <2>2, <3>2 DEF ShowInvite
      <3>3. QED
        BY <3>1, <3>2
    <2>5. QED
      BY <1>11, <2>3, <2>4 DEF ShowInvite
  <1>12. ASSUME NEW d \in Device, Accept(d)
         PROVE  TypeOK'
    <2>1. active[d] \in CallState /\ active[d].call \in Call
      BY <1>12, Records DEF Accept, CallState
    <2>2. Sent(d, "answer", active[d].call) \in Signal
      BY <2>1, SentType DEF Kind
    <2>3. [active[d] EXCEPT !.accepted = TRUE] \in CallState
      BY <2>1, Updates
    <2>4. QED
      BY <1>12, <2>1, <2>2, <2>3 DEF Accept
  <1>13. ASSUME NEW d \in Device, Decline(d) \/ HangUp(d)
         PROVE  TypeOK'
    <2>1. PICK kind \in Ending : active[d] # None /\ Click(d, kind)
      BY <1>13 DEF Decline, HangUp, Ending
    <2>2. clicks' \in 0 .. MaxClicks
      BY <2>1, CallsAssumption DEF Click
    <2>3. QED
      BY <2>1, <2>2, LeaveType DEF Click
  <1>14. ASSUME NEW d \in Device, NoAnswer(d)
         PROVE  TypeOK'
    <2>1. active[d] # None /\ Leave(d, "hangup") /\ clicks' = clicks
      BY <1>14 DEF NoAnswer
    <2>2. QED
      BY <2>1, LeaveType DEF Ending
  <1>15. ASSUME NEW s \in posting, Post(s)
         PROVE  TypeOK'
    <2>1. s \in Signal /\ s.call \in Call
      BY DEF Signal
    <2>2. CASE Push(s)
      BY <1>15, <2>1, <2>2, PushType DEF Post
    <2>3. CASE Lose({s.call}) /\ UNCHANGED <<queue, accepted, met, clicks>>
      BY <1>15, <2>1, <2>3, CallsAssumption DEF Post, Lose, Muddle
    <2>4. QED
      BY <1>15, <2>2, <2>3 DEF Post
  <1>16. ASSUME NEW d \in Device, MediaDone(d)
         PROVE  TypeOK'
    <2> DEFINE done == [offering |-> "offered", replying |-> "replied", applying |-> "applied"]
               sent == [offering |-> {"webrtc-offer"}, replying |-> {"webrtc-answer"},
                        applying |-> {}]
    <2>1. /\ media[d] \in {"offering", "replying", "applying"}
          /\ media' = [media EXCEPT ![d] = done[@]]
          /\ posting' = posting \union {Sent(d, kind, active[d].call) : kind \in sent[media[d]]}
      BY <1>16 DEF MediaDone
    <2>2. done[media[d]] \in Media /\ sent[media[d]] \subseteq Kind
      BY <2>1 DEF Media, Connected, Kind
    <2> HIDE DEF done, sent
    <2>3. active[d] # None /\ active[d].call \in Call
      BY <1>16, <2>1, Records DEF CallState, MediaOfCall
    <2>4. QED
      BY <1>16, <2>1, <2>2, <2>3, SentType DEF MediaDone
  <1>17. ASSUME NEW d \in Device, MediaFails(d)
         PROVE  TypeOK'
    <2>1. active[d] # None /\ active[d].call \in Call
      BY <1>17, Records DEF MediaFails, CallState, MediaOfCall
    <2>2. media' \in [Device -> Media]
      BY <1>17 DEF MediaFails, Media, Connected
    <2>3. QED
      BY <1>17, <2>1, <2>2, CallsAssumption DEF MediaFails, Lose, Muddle
  <1>18. ASSUME Restart
         PROVE  TypeOK'
    <2>1. Calls({s \in ToSet(queue) : s.kind # "invite"}) \subseteq Call
      BY Marks
    <2>2. queue' \in Seq(Signal) /\ Len(queue') <= MaxQueue
      BY <1>18, QueueAssumption DEF Restart
    <2>3. QED
      BY <1>18, <2>1, <2>2, CallsAssumption DEF Restart, Lose, Muddle
  <1>19. ASSUME UNCHANGED vars
         PROVE  TypeOK'
    BY <1>19 DEF vars
  <1>20. QED
    BY <1>1, <1>2, <1>3, <1>4, <1>5, <1>6, <1>7, <1>8, <1>9, <1>10, <1>11, <1>12, <1>13,
       <1>14, <1>15, <1>16, <1>17, <1>18, <1>19 DEF Next

\* The steps that change what a window shows, who has met a call, or a session.
WindowStep ==
  \/ \E d \in Device : PollCall(d)
  \/ \E d \in Device : Ring(d)
  \/ \E d \in Device : Hear(d)
  \/ \E d \in Device, c \in Call : ShowInvite(d, c)
  \/ \E d \in Device : Accept(d)
  \/ \E d \in Device, kind \in Ending : active[d] # None /\ Leave(d, kind)
  \/ \E d \in Device : MediaDone(d)
  \/ \E d \in Device : MediaFails(d)

LEMMA OtherSteps ==
  ASSUME [Next]_vars, ~WindowStep
  PROVE  UNCHANGED <<active, media, met>>
  <1> USE DEF client, server, history, WindowStep
  <1>1. ASSUME NEW d \in Device, Decline(d) \/ HangUp(d) \/ NoAnswer(d)
        PROVE  WindowStep
    BY <1>1 DEF Decline, HangUp, NoAnswer, Click, Ending
  <1>2. ASSUME NEW d \in Device,
               \/ StartInvite(d) \/ StartSignal(d) \/ StartFails(d)
               \/ PollStart(d) \/ PollFetch(d)
               \/ \E c \in Call : StartCall(d, c)
               \/ \E call \in Call \union {AnyCall} : StrayFetch(d, call)
        PROVE  UNCHANGED <<active, media, met>>
    <2>1. CASE StartInvite(d)
      BY <2>1 DEF StartInvite
    <2>2. CASE StartSignal(d)
      BY <2>2 DEF StartSignal, Push
    <2>3. CASE StartFails(d)
      BY <2>3 DEF StartFails
    <2>4. CASE PollStart(d)
      BY <2>4 DEF PollStart
    <2>5. CASE PollFetch(d)
      BY <2>5 DEF PollFetch
    <2>6. CASE \E c \in Call : StartCall(d, c)
      BY <2>6 DEF StartCall
    <2>7. CASE \E call \in Call \union {AnyCall} : StrayFetch(d, call)
      BY <2>7 DEF StrayFetch
    <2>8. QED
      BY <1>2, <2>1, <2>2, <2>3, <2>4, <2>5, <2>6, <2>7
  <1>3. ASSUME NEW s \in posting, Post(s)
        PROVE  UNCHANGED <<active, media, met>>
    BY <1>3 DEF Post, Push
  <1>4. ASSUME Restart
        PROVE  UNCHANGED <<active, media, met>>
    BY <1>4 DEF Restart
  <1>5. ASSUME UNCHANGED vars
        PROVE  UNCHANGED <<active, media, met>>
    BY <1>5 DEF vars
  <1>6. QED
    BY <1>1, <1>2, <1>3, <1>4, <1>5 DEF Next

\* What a call looks like once it was answered: nothing else of it changes.
LEMMA AnsweredCall ==
  ASSUME NEW a \in CallState, NEW x \in BOOLEAN, NEW b, b = [a EXCEPT !.accepted = x]
  PROVE  /\ b # None
         /\ b.call = a.call
         /\ b.incoming = a.incoming
         /\ b.accepted = x
         /\ a.call \in Call /\ a.incoming \in BOOLEAN /\ a.accepted \in BOOLEAN
  <1>1. b \in CallState
    BY Updates
  <1>2. b # None
    BY <1>1, NotNone
  <1>3. QED
    BY <1>2 DEF CallState

\* The step of one device leaves the windows and sessions of others alone.
Alone(d) == \A e \in Device \ {d} : active'[e] = active[e] /\ media'[e] = media[e]

\* The call that comes to a window is new to it, with no session.
Shows(d, c, incoming) ==
  /\ active'[d] # None
  /\ active'[d].call = c
  /\ active'[d].incoming = incoming
  /\ ~active'[d].accepted
  /\ met' = met \union {<<d, c>>}

LEMMA EnterShows ==
  ASSUME TypeOK, NEW d \in Device, NEW c \in Call, NEW incoming \in BOOLEAN,
         Enter(d, c, incoming)
  PROVE  Shows(d, c, incoming)
  <1>1. /\ active'[d] = [call |-> c, incoming |-> incoming, accepted |-> FALSE]
        /\ active'[d] \in CallState
    BY EnterType
  <1>2. active'[d] # None
    BY <1>1, NotNone
  <1>3. QED
    BY <1>1, <1>2 DEF Shows, Enter

LEMMA PollCallEffect ==
  ASSUME TypeInv, NEW d \in Device, PollCall(d)
  PROVE  /\ Alone(d) /\ UNCHANGED <<media, poll, posting, queue, invite>>
         /\ starting[d] # None /\ starting[d].call \in Call
         /\ starting'[d] = None
         /\ \A e \in Device \ {d} : starting'[e] = starting[e]
         /\ \/ /\ starting[d].at = "failed"
               /\ UNCHANGED <<active, met, muddled>>
            \/ /\ starting[d].at = "ready"
               /\ Shows(d, starting[d].call, FALSE)
               /\ muddled \subseteq muddled'
               /\ active[d] # None => {starting[d].call, active[d].call} \subseteq muddled'
  <1> USE DEF TypeInv, TypeOK, client, server, history
  <1>1. starting[d] # None /\ starting[d].call \in Call
    BY Records DEF PollCall, StartWorker
  <1>2. /\ UNCHANGED <<media, poll, posting, queue, invite>>
        /\ starting' = [starting EXCEPT ![d] = None]
    BY DEF PollCall
  <1>3. CASE starting[d].at = "failed"
    BY <1>1, <1>2, <1>3 DEF PollCall, Alone
  <1>4. CASE starting[d].at # "failed"
    <2>1. /\ starting[d].at = "ready"
          /\ Enter(d, starting[d].call, FALSE)
          /\ Muddle(IF active[d] = None THEN {} ELSE {starting[d].call, active[d].call})
      BY <1>4 DEF PollCall
    <2>2. Alone(d)
      BY <1>2, <2>1 DEF Alone, Enter
    <2>3. Shows(d, starting[d].call, FALSE)
      BY <1>1, <2>1, EnterShows
    <2>4. muddled \subseteq muddled' /\ (active[d] # None => {starting[d].call, active[d].call} \subseteq muddled')
      BY <2>1 DEF Muddle
    <2>5. QED
      BY <1>1, <1>2, <2>1, <2>2, <2>3, <2>4
  <1>5. QED
    BY <1>3, <1>4

LEMMA RingEffect ==
  ASSUME TypeInv, NEW d \in Device, Ring(d)
  PROVE  /\ Alone(d) /\ UNCHANGED <<media, starting, posting, queue, invite>>
         /\ poll[d] # None /\ active[d] = None
         /\ poll'[d] = None
         /\ \A e \in Device \ {d} : poll'[e] = poll[e]
         /\ muddled \subseteq muddled'
         /\ Missed(d, ToSet(poll[d].signals)) \subseteq muddled'
         /\ \/ UNCHANGED <<active, met>>
            \/ \E s \in ToSet(poll[d].signals) :
                 /\ s.kind = "invite"
                 /\ Shows(d, s.call, TRUE)
                 /\ <<d, s.call>> \in met => s.call \in muddled'
  <1> USE DEF TypeInv, TypeOK, client, server, history
  <1> DEFINE invites == {i \in DOMAIN poll[d].signals : poll[d].signals[i].kind = "invite"}
             first == poll[d].signals[Min(invites)]
  <1>1. poll[d] # None /\ active[d] = None /\ poll[d].signals \in Seq(Signal)
    BY Records DEF Ring, Poll
  <1>2. /\ UNCHANGED <<media, starting, posting, queue, invite>>
        /\ poll' = [poll EXCEPT ![d] = None]
    BY DEF Ring
  <1>3. CASE invites = {}
    BY <1>1, <1>2, <1>3 DEF Ring, Muddle, Alone
  <1>4. CASE invites # {}
    <2>1. /\ Enter(d, first.call, TRUE)
          /\ Muddle(Missed(d, ToSet(poll[d].signals))
                      \union (IF <<d, first.call>> \in met THEN {first.call} ELSE {}))
      BY <1>4 DEF Ring
    <2>2. invites \in SUBSET DOMAIN poll[d].signals
      OBVIOUS
    <2>3. Min(invites) \in invites /\ first \in Signal
      <3> HIDE DEF invites
      <3>1. QED
        BY <1>1, <1>4, <2>2, FirstPlace
    <2>4. first \in ToSet(poll[d].signals) /\ first.kind = "invite"
      BY <2>3 DEF ToSet
    <2> HIDE DEF first, invites
    <2>5. Shows(d, first.call, TRUE)
      BY <2>1, <2>3, EnterShows DEF Signal
    <2>6. Alone(d)
      BY <1>2, <2>1 DEF Alone, Enter
    <2>7. /\ muddled \subseteq muddled'
          /\ Missed(d, ToSet(poll[d].signals)) \subseteq muddled'
          /\ <<d, first.call>> \in met => first.call \in muddled'
      BY <2>1 DEF Muddle
    <2>8. QED
      BY <1>1, <1>2, <2>4, <2>5, <2>6, <2>7
  <1>5. QED
    BY <1>3, <1>4

LEMMA ShowInviteEffect ==
  ASSUME TypeInv, NEW d \in Device, NEW c \in Call, ShowInvite(d, c)
  PROVE  /\ Alone(d) /\ UNCHANGED <<media, starting, poll, queue>>
         /\ d = To[c]
         /\ invite[c] # "unsent"
         /\ \A k \in Call : invite'[k] = invite[k] \/ (k = c /\ invite'[k] # "unsent")
         /\ muddled \subseteq muddled'
         /\ <<d, c>> \in met => c \in muddled'
         /\ met' = met \union {<<d, c>>}
         /\ \/ active[d] = None /\ Shows(d, c, TRUE) /\ posting' = posting
            \/ /\ active[d] # None /\ active' = active
               /\ posting' = posting \union {Sent(d, "busy", c)}
  <1> USE DEF TypeInv, TypeOK, client, server, history
  <1>1. /\ UNCHANGED <<media, starting, poll, queue>>
        /\ d = To[c]
        /\ invite[c] # "unsent"
        /\ \A k \in Call : invite'[k] = invite[k] \/ (k = c /\ invite'[k] # "unsent")
        /\ muddled \subseteq muddled'
        /\ <<d, c>> \in met => c \in muddled'
    BY DEF ShowInvite, Muddle
  <1>2. CASE active[d] = None
    <2>1. Enter(d, c, TRUE) /\ posting' = posting
      BY <1>2 DEF ShowInvite
    <2>2. QED
      BY <1>1, <1>2, <2>1, EnterShows DEF Alone, Enter
  <1>3. CASE active[d] # None
    BY <1>1, <1>3 DEF ShowInvite, Alone
  <1>4. QED
    BY <1>2, <1>3

LEMMA AcceptEffect ==
  ASSUME TypeInv, NEW d \in Device, Accept(d)
  PROVE  /\ Alone(d) /\ UNCHANGED <<media, starting, poll, queue, invite, met, muddled>>
         /\ active[d] # None /\ active[d].incoming /\ active[d].call \in Call
         /\ active'[d] # None
         /\ active'[d].call = active[d].call
         /\ active'[d].incoming = active[d].incoming
         /\ posting' = posting \union {Sent(d, "answer", active[d].call)}
  <1>1. active[d] # None /\ active[d] \in CallState
    BY Records DEF Accept, TypeInv
  <1>2. active'[d] = [active[d] EXCEPT !.accepted = TRUE]
    BY DEF Accept, TypeInv, TypeOK
  <1>3. /\ active'[d] # None
        /\ active'[d].call = active[d].call
        /\ active'[d].incoming = active[d].incoming
        /\ active[d].call \in Call
    BY <1>1, <1>2, AnsweredCall
  <1>4. Alone(d)
    BY DEF Accept, Alone, TypeInv, TypeOK
  <1>5. QED
    BY <1>1, <1>3, <1>4 DEF Accept, server

\* A window closes over its call; what it leaves unread is missed, if of other calls.
Closes(d) ==
  /\ active[d] # None /\ active[d].call \in Call
  /\ active'[d] = None
  /\ media'[d] = "none"

LEMMA LeaveEffect ==
  ASSUME TypeInv, NEW d \in Device, NEW kind \in Ending, active[d] # None, Leave(d, kind)
  PROVE  /\ Alone(d) /\ UNCHANGED <<starting, queue, invite, met>>
         /\ Closes(d)
         /\ posting' = posting \union {Sent(d, kind, active[d].call)}
         /\ poll'[d] = None
         /\ \A e \in Device \ {d} : poll'[e] = poll[e]
         /\ muddled \subseteq muddled'
         /\ poll[d] # None =>
              Missed(d, {s \in ToSet(poll[d].signals) : s.call # active[d].call}) \subseteq muddled'
  <1>1. active[d].call \in Call
    BY Records DEF TypeInv, CallState
  <1>2. QED
    BY <1>1 DEF Leave, Alone, Closes, Muddle, TypeInv, TypeOK, server

\* The kinds of the signals that the window of d looks at.
KindsHeard(d) == {s.kind : s \in Heard(poll[d].signals)}

LEMMA HearEffect ==
  ASSUME TypeInv, NEW d \in Device, Hear(d)
  PROVE  /\ Alone(d) /\ UNCHANGED <<starting, posting, queue, invite, met>>
         /\ poll[d] # None /\ active[d] # None /\ active[d].call \in Call
         /\ poll'[d] = None
         /\ \A e \in Device \ {d} : poll'[e] = poll[e]
         /\ muddled \subseteq muddled'
         /\ \A s \in Heard(poll[d].signals) : s.kind # "invite" /\ s.call # active[d].call =>
              s.call \in muddled' /\ active[d].call \in muddled'
         /\ Missed(d, {s \in ToSet(poll[d].signals) : s.call # active[d].call}) \subseteq muddled'
         /\ \/ KindsHeard(d) \intersect Ending # {} /\ Closes(d)
            \/ /\ KindsHeard(d) \intersect Ending = {}
               /\ active'[d] # None
               /\ active'[d].call = active[d].call
               /\ active'[d].incoming = active[d].incoming
               /\ active'[d].accepted = (active[d].accepted \/ "answer" \in KindsHeard(d))
               /\ media'[d] = MediaAfter(media[d], KindsHeard(d))
  <1> USE DEF TypeInv, TypeOK
  <1> DEFINE heard == Heard(poll[d].signals)
             kinds == KindsHeard(d)
             other == {s \in heard : s.kind # "invite" /\ s.call # active[d].call}
  <1>k. kinds = {s.kind : s \in heard}
    BY DEF KindsHeard
  <1>1. active[d] # None /\ active[d] \in CallState /\ active[d].call \in Call /\ active[d].accepted \in BOOLEAN
    BY Records DEF Hear, CallState
  <1>2. /\ UNCHANGED <<starting, posting, queue, invite, met>>
        /\ poll[d] # None
        /\ poll' = [poll EXCEPT ![d] = None]
    BY DEF Hear, server
  <1>3. Muddle(Calls(other) \union (IF other = {} THEN {} ELSE {active[d].call})
                 \union Missed(d, {s \in ToSet(poll[d].signals) : s.call # active[d].call}))
    BY DEF Hear
  <1>4. \A s \in heard : s.kind # "invite" /\ s.call # active[d].call =>
          s.call \in muddled' /\ active[d].call \in muddled'
    <2> SUFFICES ASSUME NEW s \in other
                 PROVE  s.call \in muddled' /\ active[d].call \in muddled'
      OBVIOUS
    <2>1. other # {} /\ s.call \in Calls(other)
      BY DEF Calls
    <2> HIDE DEF other
    <2>2. QED
      BY <1>3, <2>1 DEF Muddle
  <1>5. /\ muddled \subseteq muddled'
        /\ Missed(d, {s \in ToSet(poll[d].signals) : s.call # active[d].call}) \subseteq muddled'
    <2> HIDE DEF other
    <2>1. QED
      BY <1>3 DEF Muddle
  <1>6. CASE kinds \intersect Ending # {}
    <2>1. active' = [active EXCEPT ![d] = None] /\ media' = [media EXCEPT ![d] = "none"]
      BY <1>6, <1>k DEF Hear
    <2>2. Alone(d) /\ Closes(d)
      BY <1>1, <2>1 DEF Alone, Closes
    <2>3. QED
      BY <1>1, <1>2, <1>4, <1>5, <1>6, <2>2
  <1>7. CASE kinds \intersect Ending = {}
    <2>1. /\ active' = [active EXCEPT ![d].accepted = @ \/ "answer" \in kinds]
          /\ media' = [media EXCEPT ![d] = MediaAfter(@, kinds)]
      BY <1>7, <1>k DEF Hear
    <2>2. active'[d] = [active[d] EXCEPT !.accepted = (@ \/ "answer" \in kinds)]
      BY <2>1
    <2>3. /\ active'[d] # None
          /\ active'[d].call = active[d].call
          /\ active'[d].incoming = active[d].incoming
          /\ active'[d].accepted = (active[d].accepted \/ "answer" \in kinds)
      <3>1. PICK x \in BOOLEAN : x = (active[d].accepted \/ "answer" \in kinds)
        BY <1>1
      <3>2. active'[d] = [active[d] EXCEPT !.accepted = x]
        BY <2>2, <3>1
      <3>3. /\ active'[d] # None
            /\ active'[d].call = active[d].call
            /\ active'[d].incoming = active[d].incoming
            /\ active'[d].accepted = x
        BY <1>1, <3>2, AnsweredCall
      <3>4. QED
        BY <3>1, <3>3, Zenon
    <2>4. Alone(d) /\ media'[d] = MediaAfter(media[d], kinds)
      BY <2>1 DEF Alone
    <2>5. QED
      BY <1>1, <1>2, <1>4, <1>5, <1>7, <2>3, <2>4
  <1>8. QED
    BY <1>6, <1>7

LEMMA MediaDoneEffect ==
  ASSUME TypeInv, NEW d \in Device, MediaDone(d)
  PROVE  /\ Alone(d) /\ UNCHANGED <<active, starting, poll, queue, invite, met, muddled>>
         /\ active[d] # None /\ active[d].call \in Call
         /\ \/ /\ media[d] = "offering" /\ media'[d] = "offered"
               /\ posting' = posting \union {Sent(d, "webrtc-offer", active[d].call)}
            \/ /\ media[d] = "replying" /\ media'[d] = "replied"
               /\ posting' = posting \union {Sent(d, "webrtc-answer", active[d].call)}
            \/ /\ media[d] = "applying" /\ media'[d] = "applied"
               /\ posting' = posting
  <1> DEFINE done == [offering |-> "offered", replying |-> "replied", applying |-> "applied"]
             sent == [offering |-> {"webrtc-offer"}, replying |-> {"webrtc-answer"},
                      applying |-> {}]
  <1>1. /\ media[d] \in {"offering", "replying", "applying"}
        /\ media' = [media EXCEPT ![d] = done[@]]
        /\ posting' = posting \union {Sent(d, kind, active[d].call) : kind \in sent[media[d]]}
        /\ UNCHANGED <<active, starting, poll, queue, invite, met, muddled>>
    BY DEF MediaDone, server, history
  <1>2. active[d] # None /\ active[d].call \in Call
    BY <1>1, Records DEF CallState, MediaOfCall, TypeInv
  <1>3. Alone(d) /\ media'[d] = done[media[d]]
    <2> HIDE DEF done
    <2>1. QED
      BY <1>1 DEF Alone, TypeInv, TypeOK
  <1>4. \A x : {Sent(d, kind, active[d].call) : kind \in {x}} = {Sent(d, x, active[d].call)}
    OBVIOUS
  <1>5. {Sent(d, kind, active[d].call) : kind \in {}} = {}
    OBVIOUS
  <1>6. QED
    BY <1>1, <1>2, <1>3, <1>4, <1>5

LEMMA MediaFailsEffect ==
  ASSUME TypeInv, NEW d \in Device, MediaFails(d)
  PROVE  /\ Alone(d) /\ UNCHANGED <<active, starting, poll, posting, queue, invite, met>>
         /\ active[d] # None /\ active[d].call \in Call
         /\ muddled \subseteq muddled' /\ active[d].call \in muddled'
  <1>1. active[d] # None /\ active[d].call \in Call
    BY Records DEF MediaFails, CallState, MediaOfCall, TypeInv
  <1>2. QED
    BY <1>1 DEF MediaFails, Lose, Muddle, Alone, TypeInv, TypeOK, server

LEMMA MediaOfCallStep ==
  ASSUME TypeInv, [Next]_vars
  PROVE  MediaOfCall'
  <1> SUFFICES ASSUME NEW e \in Device, active'[e] = None
               PROVE  media'[e] = "none"
    BY DEF MediaOfCall
  <1>1. ASSUME NEW d \in Device, PollCall(d)
        PROVE  media'[e] = "none"
    BY <1>1, PollCallEffect DEF Alone, Shows, TypeInv, MediaOfCall
  <1>2. ASSUME NEW d \in Device, Ring(d)
        PROVE  media'[e] = "none"
    BY <1>2, RingEffect DEF Alone, Shows, TypeInv, MediaOfCall
  <1>3. ASSUME NEW d \in Device, Hear(d)
        PROVE  media'[e] = "none"
    BY <1>3, HearEffect DEF Alone, Closes, TypeInv, MediaOfCall
  <1>4. ASSUME NEW d \in Device, NEW c \in Call, ShowInvite(d, c)
        PROVE  media'[e] = "none"
    BY <1>4, ShowInviteEffect DEF Alone, Shows, TypeInv, MediaOfCall
  <1>5. ASSUME NEW d \in Device, Accept(d)
        PROVE  media'[e] = "none"
    BY <1>5, AcceptEffect DEF Alone, TypeInv, MediaOfCall
  <1>6. ASSUME NEW d \in Device, NEW kind \in Ending, active[d] # None, Leave(d, kind)
        PROVE  media'[e] = "none"
    BY <1>6, LeaveEffect DEF Alone, Closes, TypeInv, MediaOfCall
  <1>7. ASSUME NEW d \in Device, MediaDone(d)
        PROVE  media'[e] = "none"
    BY <1>7, MediaDoneEffect DEF Alone, TypeInv, MediaOfCall
  <1>8. ASSUME NEW d \in Device, MediaFails(d)
        PROVE  media'[e] = "none"
    BY <1>8, MediaFailsEffect DEF Alone, TypeInv, MediaOfCall
  <1>9. QED
    BY <1>1, <1>2, <1>3, <1>4, <1>5, <1>6, <1>7, <1>8, OtherSteps
    DEF WindowStep, TypeInv, MediaOfCall

\* The variables of both clients and of the server keep their types; a WebRTC session
\* belongs to a call, which names the recipient of what it sends.
THEOREM TypeCorrect == Spec => []TypeOK
  <1>1. Init => TypeInv
    BY TypeInit DEF Init, TypeInv, MediaOfCall
  <1>2. TypeInv /\ [Next]_vars => TypeInv'
    BY TypeStep, MediaOfCallStep DEF TypeInv
  <1>3. TypeInv => TypeOK
    BY DEF TypeInv
  <1>4. QED
    BY <1>1, <1>2, <1>3, PTL DEF Spec

(***************************************************************************)
(* Signals under way: in the hands of a worker, in the queue, or in the    *)
(* answer to a fetch that its client has not looked at.                    *)
(***************************************************************************)
Unread(d) == IF poll[d] = None THEN {} ELSE ToSet(poll[d].signals)

UnderWay == posting \union ToSet(queue) \union UNION {Unread(d) : d \in Device}

\* The device had the call, or refused it, and has it no more.
Through(d, c) == <<d, c>> \in met /\ ~In(d, c)

\* An answer is for the device that fetched it, and empty until it comes.
AnswersInv ==
  \A d \in Device : poll[d] # None =>
    /\ \A s \in ToSet(poll[d].signals) : s.to = d
    /\ ~poll[d].done => ToSet(poll[d].signals) = {}

FlowInv == TypeInv /\ AnswersInv

LEMMA UnderWayTypes ==
  ASSUME TypeOK
  PROVE  /\ posting \subseteq Signal /\ ToSet(queue) \subseteq Signal
         /\ \A d \in Device : Unread(d) \subseteq Signal
         /\ \A s \in UnderWay : s \in Signal /\ s.kind \in Kind /\ s.call \in Call /\ s.to \in Device
  <1>1. posting \subseteq Signal /\ ToSet(queue) \subseteq Signal
    BY Marks DEF TypeOK
  <1>2. ASSUME NEW d \in Device
        PROVE  Unread(d) \subseteq Signal
    <2>1. poll[d] # None => poll[d].signals \in Seq(Signal)
      BY Records DEF Poll
    <2>2. QED
      BY <2>1, Marks DEF Unread
  <1>3. QED
    BY <1>1, <1>2 DEF UnderWay, Signal

\* A signal that d drops without a mark was of a call that d is through with.
Unheard(s) ==
  \/ s.call \in muddled'
  \/ s.kind \in {"invite", "answer"}
  \/ Through(s.to, s.call)

LEMMA MissedIsUnheard ==
  ASSUME NEW d \in Device, NEW signals, Missed(d, signals) \subseteq muddled',
         NEW s \in signals, s.to = d
  PROVE  Unheard(s)
  <1>1. \/ s.kind \in {"invite", "answer"}
        \/ s.call \in Missed(d, signals)
        \/ <<d, s.call>> \in met /\ ~In(d, s.call)
    BY DEF Missed, Calls
  <1>2. QED
    BY <1>1 DEF Unheard, Through

LEMMA PushEffect ==
  ASSUME TypeInv, NEW signal \in Signal, Push(signal)
  PROVE  /\ ToSet(queue') \subseteq ToSet(queue) \union {signal}
         /\ signal \in ToSet(queue')
         /\ \A s \in ToSet(queue) : s \in ToSet(queue') \/ Unheard(s)
         /\ muddled \subseteq muddled' /\ met' = met
  <1>1. /\ queue \in Seq(Signal) /\ Len(queue) <= MaxQueue
        /\ queue' = Queued(queue, signal)
    BY DEF TypeInv, TypeOK, Push
  <1>2. /\ ToSet(queue') \subseteq ToSet(queue) \union {signal}
        /\ signal \in ToSet(queue')
        /\ \A s \in ToSet(queue) \ ToSet(queue') : Len(queue) >= MaxQueue /\ s = Head(queue)
    BY <1>1, QueuedSignals, QueueAssumption
  <1>3. muddled \subseteq muddled' /\ (Len(queue) >= MaxQueue => Head(queue).call \in muddled')
    BY DEF Push, Muddle
  <1>4. QED
    BY <1>2, <1>3 DEF Unheard, Push

LEMMA PollFetchEffect ==
  ASSUME FlowInv, NEW d \in Device, PollFetch(d)
  PROVE  /\ UNCHANGED <<active, media, met, starting, invite, posting>>
         /\ poll'[d] # None /\ poll'[d].done
         /\ \A e \in Device \ {d} : poll'[e] = poll[e]
         /\ Unread(d) = {}
         /\ \A s \in Unread(d)' : s \in ToSet(queue) /\ s.to = d
         /\ ToSet(queue') \subseteq ToSet(queue)
         /\ \A s \in ToSet(queue) :
              s \in ToSet(queue') \/ (s.to = d /\ (s \in Unread(d)' \/ Unheard(s)))
         /\ muddled \subseteq muddled'
  <1> USE DEF FlowInv, TypeInv, TypeOK, client, server, history
  <1> DEFINE batch == Fetched(queue, d, poll[d].call, Limit)
  <1>1. /\ batch \in Seq(Signal)
        /\ queue' = Retained(queue, d, poll[d].call, Limit)
        /\ \A s \in ToSet(batch) : s.to = d
        /\ ToSet(queue) = ToSet(batch) \union ToSet(queue')
    BY FetchType DEF PollFetch
  <1>2. /\ poll[d] # None /\ poll[d] \in Poll
        /\ ToSet(poll[d].signals) = {}
        /\ UNCHANGED <<active, media, starting, invite, posting>>
    BY Records DEF PollFetch, AnswersInv
  <1>3. CASE poll' = [poll EXCEPT ![d].done = TRUE, ![d].signals = batch] /\ UNCHANGED history
    <2>1. poll'[d] = [poll[d] EXCEPT !.done = TRUE, !.signals = batch]
      BY <1>3
    <2> HIDE DEF batch
    <2>2. poll'[d] \in Poll /\ poll'[d].done /\ poll'[d].signals = batch
      BY <1>1, <1>2, <2>1 DEF Poll
    <2>3. poll'[d] # None
      BY <2>2, NotNone
    <2>4. Unread(d)' = ToSet(batch)
      BY <2>2, <2>3 DEF Unread
    <2>5. QED
      BY <1>1, <1>2, <1>3, <2>2, <2>3, <2>4 DEF Unread
  <1>4. CASE /\ poll' = [poll EXCEPT ![d].done = TRUE]
             /\ Lose(Missed(d, ToSet(batch)))
             /\ UNCHANGED <<accepted, met, clicks>>
    <2>1. poll'[d] = [poll[d] EXCEPT !.done = TRUE]
      BY <1>4
    <2>2. poll'[d] \in Poll /\ poll'[d].done /\ poll'[d].signals = poll[d].signals
      BY <1>2, <2>1 DEF Poll
    <2>3. poll'[d] # None
      BY <2>2, NotNone
    <2>4. Unread(d)' = {}
      BY <1>2, <2>2, <2>3 DEF Unread
    <2>5. muddled \subseteq muddled' /\ Missed(d, ToSet(batch)) \subseteq muddled'
      BY <1>4 DEF Lose, Muddle
    <2>6. \A s \in ToSet(batch) : Unheard(s)
      BY <1>1, <2>5, MissedIsUnheard
    <2> HIDE DEF batch
    <2>7. QED
      BY <1>1, <1>2, <1>4, <2>2, <2>3, <2>4, <2>5, <2>6 DEF Unread
  <1>5. QED
    BY <1>3, <1>4 DEF PollFetch

LEMMA StrayFetchEffect ==
  ASSUME FlowInv, NEW d \in Device, NEW call, StrayFetch(d, call)
  PROVE  /\ UNCHANGED <<active, media, met, starting, invite, posting, poll>>
         /\ ToSet(queue') \subseteq ToSet(queue)
         /\ \A s \in ToSet(queue) : s \in ToSet(queue') \/ Unheard(s)
         /\ muddled \subseteq muddled'
  <1> DEFINE batch == Fetched(queue, d, call, Limit)
  <1>1. /\ batch \in Seq(Signal)
        /\ queue' = Retained(queue, d, call, Limit)
        /\ \A s \in ToSet(batch) : s.to = d
        /\ ToSet(queue) = ToSet(batch) \union ToSet(queue')
    BY FetchType DEF StrayFetch, FlowInv, TypeInv
  <1>2. muddled \subseteq muddled' /\ Missed(d, ToSet(batch)) \subseteq muddled'
    BY DEF StrayFetch, Muddle
  <1>3. \A s \in ToSet(batch) : Unheard(s)
    BY <1>1, <1>2, MissedIsUnheard
  <1> HIDE DEF batch
  <1>4. QED
    BY <1>1, <1>2, <1>3 DEF StrayFetch

LEMMA RestartEffect ==
  ASSUME Restart
  PROVE  /\ UNCHANGED <<active, media, met, starting, invite, posting, poll>>
         /\ ToSet(queue') = {}
         /\ \A s \in ToSet(queue) : Unheard(s)
         /\ muddled \subseteq muddled'
  <1>1. UNCHANGED <<active, media, met, starting, invite, posting, poll>> /\ queue' = <<>>
    BY DEF Restart, client
  <1>2. Calls({s \in ToSet(queue) : s.kind # "invite"}) \subseteq muddled' /\ muddled \subseteq muddled'
    BY DEF Restart, Lose, Muddle
  <1>3. \A s \in ToSet(queue) : Unheard(s)
    BY <1>2 DEF Calls, Unheard
  <1>4. QED
    BY <1>1, <1>2, <1>3 DEF ToSet

\* A client that hears its signals and stays in the call has heard all of them.
LEMMA AllHeard ==
  ASSUME NEW signals \in Seq(Signal),
         {s.kind : s \in Heard(signals)} \intersect Ending = {}
  PROVE  Heard(signals) = ToSet(signals)
  <1> DEFINE ends == {i \in DOMAIN signals : signals[i].kind \in Ending}
  <1>1. DOMAIN signals = 1 .. Len(signals) /\ Len(signals) \in Nat
    OBVIOUS
  <1>2. ends = {}
    <2>1. SUFFICES ASSUME ends # {}
                   PROVE  FALSE
      OBVIOUS
    <2>2. ends \in SUBSET DOMAIN signals
      OBVIOUS
    <2>3. Min(ends) \in ends /\ \A i \in ends : Min(ends) <= i
      <3> HIDE DEF ends
      <3>1. QED
        BY <2>1, <2>2, FirstPlace
    <2>4. \A k \in 1 .. Min(ends) - 1 : signals[k].kind \notin Ending
      <3>1. \A k \in 1 .. Min(ends) - 1 : k \in DOMAIN signals /\ k \notin ends
        <4> HIDE DEF ends
        <4>1. QED
          BY <1>1, <2>2, <2>3
      <3>2. QED
        BY <3>1
    <2>5. signals[Min(ends)] \in Heard(signals) /\ signals[Min(ends)].kind \in Ending
      BY <2>3, <2>4 DEF Heard
    <2>6. QED
      BY <2>5
  <1>3. \A i \in DOMAIN signals : \A k \in 1 .. i - 1 : signals[k].kind \notin Ending
    BY <1>1, <1>2
  <1>4. QED
    BY <1>3 DEF Heard, ToSet

\* A device receives a signal of its call: it leaves the call, or hears the signal.
Received(s) ==
  /\ In(s.to, s.call)
  /\ \/ Closes(s.to)
     \/ Hear(s.to) /\ s \in Heard(poll[s.to].signals) /\ active'[s.to] # None

\* Who sends a signal, and what the signal tells of its sender.
Comes(s) ==
  \E d \in Device :
    \/ /\ starting[d] # None /\ starting[d].at = "invited" /\ starting[d].call \in Call
       /\ s = Sent(d, "invite", starting[d].call)
    \/ /\ active[d] # None /\ active[d].call \in Call
       /\ \/ Closes(d) /\ \E kind \in Ending : s = Sent(d, kind, active[d].call)
          \/ Accept(d) /\ s = Sent(d, "answer", active[d].call)
          \/ /\ MediaDone(d) /\ media[d] = "offering" /\ media'[d] = "offered"
             /\ s = Sent(d, "webrtc-offer", active[d].call)
          \/ /\ MediaDone(d) /\ media[d] = "replying" /\ media'[d] = "replied"
             /\ s = Sent(d, "webrtc-answer", active[d].call)
    \/ /\ active[d] # None
       /\ \E c \in Call : ShowInvite(d, c) /\ s = Sent(d, "busy", c)

Flow ==
  /\ muddled \subseteq muddled' /\ met \subseteq met'
  /\ AnswersInv'
  /\ \A s \in UnderWay : s \in UnderWay' \/ Unheard(s) \/ Received(s)
  /\ \A s \in UnderWay' : s \in UnderWay \/ Comes(s)

LEMMA UnderWaySame ==
  ASSUME UNCHANGED <<posting, queue, poll>>
  PROVE  UnderWay' = UnderWay /\ (AnswersInv => AnswersInv')
  BY DEF UnderWay, Unread, AnswersInv

\* What is under way changes where queue, posting and unread answers do.
LEMMA QueueFlow ==
  ASSUME FlowInv, UNCHANGED poll, muddled \subseteq muddled', met' = met,
         \A s \in posting : s \in posting' \/ s \in ToSet(queue') \/ Unheard(s),
         \A s \in ToSet(queue) : s \in ToSet(queue') \/ Unheard(s),
         \A s \in posting' : s \in posting \/ Comes(s),
         \A s \in ToSet(queue') : s \in ToSet(queue) \/ s \in posting \/ Comes(s)
  PROVE  Flow
  <1>1. AnswersInv' /\ \A d \in Device : Unread(d)' = Unread(d)
    BY DEF FlowInv, AnswersInv, Unread
  <1>2. \A s \in UnderWay : s \in UnderWay' \/ Unheard(s)
    BY <1>1 DEF UnderWay
  <1>3. \A s \in UnderWay' : s \in UnderWay \/ Comes(s)
    BY <1>1 DEF UnderWay
  <1>4. QED
    BY <1>1, <1>2, <1>3 DEF Flow

\* The device d has read, or drops, the answer it had.
LEMMA ReadFlow ==
  ASSUME FlowInv, NEW d \in Device, UNCHANGED queue, posting \subseteq posting',
         muddled \subseteq muddled', met \subseteq met',
         poll'[d] = None, \A e \in Device \ {d} : poll'[e] = poll[e],
         \A s \in posting' : s \in posting \/ Comes(s),
         \A s \in Unread(d) : Unheard(s) \/ Received(s)
  PROVE  Flow
  <1>1. /\ AnswersInv'
        /\ Unread(d)' = {}
        /\ \A e \in Device \ {d} : Unread(e)' = Unread(e)
    BY DEF FlowInv, AnswersInv, Unread
  <1>2. \A s \in UnderWay : s \in UnderWay' \/ Unheard(s) \/ Received(s)
    BY <1>1 DEF UnderWay
  <1>3. \A s \in UnderWay' : s \in UnderWay \/ Comes(s)
    BY <1>1 DEF UnderWay
  <1>4. QED
    BY <1>1, <1>2, <1>3 DEF Flow

\* A worker is given a signal to post.
LEMMA PostingFlow ==
  ASSUME FlowInv, UNCHANGED <<queue, poll>>, posting \subseteq posting',
         muddled \subseteq muddled', met \subseteq met',
         \A s \in posting' : s \in posting \/ Comes(s)
  PROVE  Flow
  <1>1. AnswersInv' /\ \A d \in Device : Unread(d)' = Unread(d)
    BY DEF FlowInv, AnswersInv, Unread
  <1>2. \A s \in UnderWay : s \in UnderWay'
    BY <1>1 DEF UnderWay
  <1>3. \A s \in UnderWay' : s \in UnderWay \/ Comes(s)
    BY <1>1 DEF UnderWay
  <1>4. QED
    BY <1>1, <1>2, <1>3 DEF Flow

\* No step loses a signal that its recipient waits for without a mark on the call.
LEMMA FlowStep == FlowInv /\ [Next]_vars => Flow
  <1> SUFFICES ASSUME FlowInv, [Next]_vars
               PROVE  Flow
    OBVIOUS
  <1>t. TypeInv /\ TypeOK
    BY DEF FlowInv, TypeInv
  <1>s. ASSUME UNCHANGED <<posting, queue, poll>>, muddled \subseteq muddled', met \subseteq met'
        PROVE  Flow
    BY <1>s, UnderWaySame DEF Flow, FlowInv
  <1>1. ASSUME NEW d \in Device,
               StartInvite(d) \/ StartFails(d) \/ \E c \in Call : StartCall(d, c)
        PROVE  Flow
    <2>1. UNCHANGED <<posting, queue, poll, met>> /\ muddled \subseteq muddled'
      <3>1. CASE StartInvite(d)
        BY <3>1 DEF StartInvite, history
      <3>2. CASE StartFails(d)
        BY <3>2 DEF StartFails, history, Lose, Muddle
      <3>3. CASE \E c \in Call : StartCall(d, c)
        BY <3>3 DEF StartCall, history, server
      <3>4. QED
        BY <1>1, <3>1, <3>2, <3>3
    <2>2. QED
      BY <1>s, <2>1
  <1>2. ASSUME NEW d \in Device, StartSignal(d)
        PROVE  Flow
    <2>1. /\ starting[d] # None /\ starting[d].at = "invited" /\ starting[d].call \in Call
          /\ UNCHANGED <<posting, poll>>
      BY <1>2, <1>t, Records DEF StartSignal, StartWorker
    <2> DEFINE signal == Sent(d, "invite", starting[d].call)
    <2>2. signal \in Signal /\ Comes(signal)
      BY <2>1, SentType DEF Kind, Comes
    <2> HIDE DEF signal
    <2>3. CASE Push(signal)
      <3>1. /\ ToSet(queue') \subseteq ToSet(queue) \union {signal}
            /\ \A s \in ToSet(queue) : s \in ToSet(queue') \/ Unheard(s)
            /\ muddled \subseteq muddled' /\ met' = met
        BY <1>t, <2>2, <2>3, PushEffect
      <3>2. QED
        BY <2>1, <2>2, <3>1, QueueFlow
    <2>4. CASE Lose({}) /\ UNCHANGED <<queue, accepted, met, clicks>>
      BY <1>s, <2>1, <2>4 DEF Lose, Muddle
    <2>5. QED
      BY <1>2, <2>3, <2>4 DEF StartSignal, signal
  <1>3. ASSUME NEW d \in Device, PollCall(d)
        PROVE  Flow
    BY <1>3, <1>s, <1>t, PollCallEffect DEF Shows
  <1>4. ASSUME NEW d \in Device, PollStart(d)
        PROVE  Flow
    <2> DEFINE fetch == [call |-> IF active[d] = None THEN AnyCall ELSE active[d].call,
                         done |-> FALSE, signals |-> <<>>]
    <2>1. /\ UNCHANGED <<posting, queue, muddled, met>>
          /\ poll[d] = None
          /\ poll' = [poll EXCEPT ![d] = fetch]
      BY <1>4 DEF PollStart, server, history
    <2>2. ToSet(<<>>) = {}
      BY DEF ToSet
    <2>3. ToSet(poll'[d].signals) = {}
      BY <1>t, <2>1, <2>2 DEF TypeOK
    <2>4. \A e \in Device \ {d} : poll'[e] = poll[e]
      BY <2>1
    <2> HIDE DEF fetch
    <2>5. \A e \in Device : Unread(e)' = Unread(e)
      BY <2>1, <2>3, <2>4 DEF Unread
    <2>6. UnderWay' = UnderWay
      BY <2>1, <2>5 DEF UnderWay
    <2>7. AnswersInv'
      BY <2>3, <2>4 DEF AnswersInv, FlowInv
    <2>8. QED
      BY <2>1, <2>6, <2>7 DEF Flow
  <1>5. ASSUME NEW d \in Device, PollFetch(d)
        PROVE  Flow
    <2>1. /\ UNCHANGED <<met, posting>>
          /\ poll'[d] # None /\ poll'[d].done
          /\ \A e \in Device \ {d} : poll'[e] = poll[e]
          /\ Unread(d) = {}
          /\ \A s \in Unread(d)' : s \in ToSet(queue) /\ s.to = d
          /\ ToSet(queue') \subseteq ToSet(queue)
          /\ \A s \in ToSet(queue) : s \in ToSet(queue') \/ s \in Unread(d)' \/ Unheard(s)
          /\ muddled \subseteq muddled'
      BY <1>5, PollFetchEffect
    <2>2. \A e \in Device \ {d} : Unread(e)' = Unread(e)
      BY <2>1 DEF Unread
    <2>3. \A s \in UnderWay : s \in UnderWay' \/ Unheard(s)
      BY <2>1, <2>2 DEF UnderWay
    <2>4. \A s \in UnderWay' : s \in UnderWay
      BY <2>1, <2>2 DEF UnderWay
    <2>5. AnswersInv'
      BY <2>1 DEF AnswersInv, Unread, FlowInv
    <2>6. QED
      BY <2>1, <2>3, <2>4, <2>5 DEF Flow
  <1>6. ASSUME NEW d \in Device, NEW call \in Call \union {AnyCall}, StrayFetch(d, call)
        PROVE  Flow
    BY <1>6, StrayFetchEffect, QueueFlow
  <1>7. ASSUME NEW d \in Device, Ring(d)
        PROVE  Flow
    <2>1. /\ UNCHANGED <<posting, queue>>
          /\ poll[d] # None /\ poll'[d] = None
          /\ \A e \in Device \ {d} : poll'[e] = poll[e]
          /\ muddled \subseteq muddled'
          /\ Missed(d, ToSet(poll[d].signals)) \subseteq muddled'
      BY <1>7, <1>t, RingEffect
    <2>2. met \subseteq met'
      BY <1>7, <1>t, RingEffect DEF Shows
    <2>3. \A s \in Unread(d) : Unheard(s)
      BY <2>1, MissedIsUnheard DEF Unread, FlowInv, AnswersInv
    <2>4. QED
      BY <2>1, <2>2, <2>3, ReadFlow
  <1>8. ASSUME NEW d \in Device, Hear(d)
        PROVE  Flow
    <2>1. /\ UNCHANGED <<posting, queue, met>>
          /\ poll[d] # None /\ poll'[d] = None /\ active[d] # None
          /\ \A e \in Device \ {d} : poll'[e] = poll[e]
          /\ muddled \subseteq muddled'
          /\ Missed(d, {s \in ToSet(poll[d].signals) : s.call # active[d].call}) \subseteq muddled'
          /\ Closes(d) \/ (KindsHeard(d) \intersect Ending = {} /\ active'[d] # None)
      BY <1>8, <1>t, HearEffect
    <2>2. poll[d].signals \in Seq(Signal)
      BY <1>t, <2>1, Records DEF Poll
    <2>3. ASSUME NEW s \in Unread(d)
          PROVE  Unheard(s) \/ Received(s)
      <3>1. s \in ToSet(poll[d].signals) /\ s.to = d
        BY <2>1, <2>3 DEF Unread, FlowInv, AnswersInv
      <3>2. CASE s.call # active[d].call
        <4> DEFINE others == {x \in ToSet(poll[d].signals) : x.call # active[d].call}
        <4>1. s \in others /\ Missed(d, others) \subseteq muddled'
          BY <2>1, <3>1, <3>2
        <4> HIDE DEF others
        <4>2. QED
          BY <3>1, <4>1, MissedIsUnheard
      <3>3. CASE s.call = active[d].call
        <4>1. In(s.to, s.call)
          BY <2>1, <3>1, <3>3 DEF In
        <4>2. CASE Closes(d)
          BY <3>1, <4>1, <4>2 DEF Received
        <4>3. CASE KindsHeard(d) \intersect Ending = {} /\ active'[d] # None
          <5>1. s \in Heard(poll[d].signals)
            BY <2>2, <3>1, <4>3, AllHeard DEF KindsHeard
          <5>2. QED
            BY <1>8, <3>1, <4>1, <4>3, <5>1 DEF Received
        <4>4. QED
          BY <2>1, <4>2, <4>3
      <3>4. QED
        BY <3>2, <3>3
    <2>4. QED
      BY <2>1, <2>3, ReadFlow
  <1>9. ASSUME NEW d \in Device, NEW c \in Call, ShowInvite(d, c)
        PROVE  Flow
    <2>1. /\ UNCHANGED <<poll, queue>>
          /\ muddled \subseteq muddled' /\ met \subseteq met'
          /\ \/ posting' = posting
             \/ active[d] # None /\ posting' = posting \union {Sent(d, "busy", c)}
      BY <1>9, <1>t, ShowInviteEffect
    <2>2. \A s \in posting' : s \in posting \/ Comes(s)
      BY <1>9, <2>1 DEF Comes
    <2>3. QED
      BY <2>1, <2>2, PostingFlow
  <1>10. ASSUME NEW d \in Device, Accept(d)
         PROVE  Flow
    <2>1. /\ UNCHANGED <<poll, queue, met, muddled>>
          /\ active[d] # None /\ active[d].call \in Call
          /\ posting' = posting \union {Sent(d, "answer", active[d].call)}
      BY <1>10, <1>t, AcceptEffect
    <2>2. \A s \in posting' : s \in posting \/ Comes(s)
      BY <1>10, <2>1 DEF Comes
    <2>3. QED
      BY <2>1, <2>2, PostingFlow
  <1>11. ASSUME NEW d \in Device, NEW kind \in Ending, active[d] # None, Leave(d, kind)
         PROVE  Flow
    <2>1. /\ UNCHANGED <<queue, met>>
          /\ Closes(d)
          /\ posting' = posting \union {Sent(d, kind, active[d].call)}
          /\ poll'[d] = None
          /\ \A e \in Device \ {d} : poll'[e] = poll[e]
          /\ muddled \subseteq muddled'
          /\ poll[d] # None =>
               Missed(d, {s \in ToSet(poll[d].signals) : s.call # active[d].call}) \subseteq muddled'
      BY <1>11, <1>t, LeaveEffect
    <2>2. \A s \in posting' : s \in posting \/ Comes(s)
      BY <2>1 DEF Comes, Closes
    <2>3. ASSUME NEW s \in Unread(d)
          PROVE  Unheard(s) \/ Received(s)
      <3>1. poll[d] # None /\ s \in ToSet(poll[d].signals) /\ s.to = d
        BY <2>3 DEF Unread, FlowInv, AnswersInv
      <3>2. CASE s.call # active[d].call
        <4> DEFINE others == {x \in ToSet(poll[d].signals) : x.call # active[d].call}
        <4>1. s \in others /\ Missed(d, others) \subseteq muddled'
          BY <2>1, <3>1, <3>2
        <4> HIDE DEF others
        <4>2. QED
          BY <3>1, <4>1, MissedIsUnheard
      <3>3. CASE s.call = active[d].call
        BY <2>1, <3>1, <3>3 DEF Received, Closes, In
      <3>4. QED
        BY <3>2, <3>3
    <2>4. QED
      BY <2>1, <2>2, <2>3, ReadFlow
  <1>12. ASSUME NEW s \in posting, Post(s)
         PROVE  Flow
    <2>1. s \in Signal /\ UNCHANGED poll /\ posting' = posting \ {s}
      BY <1>12, <1>t DEF Post, client, TypeOK
    <2>2. CASE Push(s)
      <3>1. /\ ToSet(queue') \subseteq ToSet(queue) \union {s}
            /\ s \in ToSet(queue')
            /\ \A x \in ToSet(queue) : x \in ToSet(queue') \/ Unheard(x)
            /\ muddled \subseteq muddled' /\ met' = met
        BY <1>t, <2>1, <2>2, PushEffect
      <3>2. /\ \A x \in posting : x \in posting' \/ x \in ToSet(queue')
            /\ \A x \in posting' : x \in posting
            /\ \A x \in ToSet(queue') : x \in ToSet(queue) \/ x \in posting
        BY <2>1, <3>1
      <3>3. QED
        BY <2>1, <3>1, <3>2, QueueFlow
    <2>3. CASE Lose({s.call}) /\ UNCHANGED <<queue, accepted, met, clicks>>
      <3>1. muddled \subseteq muddled' /\ Unheard(s)
        BY <2>3 DEF Lose, Muddle, Unheard
      <3>2. QED
        BY <2>1, <2>3, <3>1, QueueFlow
    <2>4. QED
      BY <1>12, <2>2, <2>3 DEF Post
  <1>13. ASSUME NEW d \in Device, MediaDone(d)
         PROVE  Flow
    <2>1. /\ UNCHANGED <<poll, queue, met, muddled>>
          /\ active[d] # None /\ active[d].call \in Call
          /\ \/ /\ media[d] = "offering" /\ media'[d] = "offered"
                /\ posting' = posting \union {Sent(d, "webrtc-offer", active[d].call)}
             \/ /\ media[d] = "replying" /\ media'[d] = "replied"
                /\ posting' = posting \union {Sent(d, "webrtc-answer", active[d].call)}
             \/ posting' = posting
      BY <1>13, <1>t, MediaDoneEffect
    <2>2. \A s \in posting' : s \in posting \/ Comes(s)
      BY <1>13, <2>1 DEF Comes
    <2>3. posting \subseteq posting'
      BY <2>1
    <2>4. QED
      BY <2>1, <2>2, <2>3, PostingFlow
  <1>14. ASSUME NEW d \in Device, MediaFails(d)
         PROVE  Flow
    BY <1>14, <1>s, <1>t, MediaFailsEffect
  <1>15. ASSUME Restart
         PROVE  Flow
    BY <1>15, RestartEffect, QueueFlow
  <1>16. ASSUME UNCHANGED vars
         PROVE  Flow
    BY <1>16, <1>s DEF vars, client, server, history
  <1>17. ASSUME NEW d \in Device, Decline(d) \/ HangUp(d) \/ NoAnswer(d)
         PROVE  Flow
    BY <1>11, <1>17 DEF Decline, HangUp, NoAnswer, Click, Ending
  <1>18. QED
    BY <1>1, <1>2, <1>3, <1>4, <1>5, <1>6, <1>7, <1>8, <1>9, <1>10, <1>12, <1>13, <1>14,
       <1>15, <1>16, <1>17 DEF Next

(***************************************************************************)
(* What a step can do to a window, to who has met a call, and to the       *)
(* worker that starts one.                                                 *)
(***************************************************************************)
\* The window of d keeps its call, or stays closed.
Keeps(d) ==
  \/ active[d] = None /\ active'[d] = None
  \/ /\ active[d] # None /\ active'[d] # None
     /\ active'[d].call = active[d].call
     /\ active'[d].incoming = active[d].incoming

\* The call c comes to the window of d: started, heard of in a signal or in a message.
Opens(d, c) ==
  \/ /\ PollCall(d)
     /\ starting[d] # None /\ starting[d].call = c /\ starting[d].at = "ready"
     /\ Shows(d, c, FALSE)
     /\ active[d] # None => {c, active[d].call} \subseteq muddled'
  \/ /\ active[d] = None
     /\ \E s \in UnderWay : s.kind = "invite" /\ s.call = c /\ s.to = d
     /\ Shows(d, c, TRUE)
     /\ <<d, c>> \in met => c \in muddled'
  \/ /\ active[d] = None
     /\ ShowInvite(d, c)
     /\ Shows(d, c, TRUE)
     /\ <<d, c>> \in met => c \in muddled'

\* The call c is refused by d as busy.
Refuses(d, c) ==
  /\ ShowInvite(d, c)
  /\ active[d] # None /\ active' = active
  /\ posting' = posting \union {Sent(d, "busy", c)}
  /\ met' = met \union {<<d, c>>}
  /\ <<d, c>> \in met => c \in muddled'

Moves ==
  /\ \A d \in Device : Keeps(d) \/ Closes(d) \/ \E c \in Call : Opens(d, c)
  /\ \/ met' = met
     \/ \E d \in Device, c \in Call :
          met' = met \union {<<d, c>>} /\ (Opens(d, c) \/ Refuses(d, c))

LEMMA KeptWindow ==
  ASSUME NEW d, active'[d] = active[d]
  PROVE  Keeps(d)
  BY DEF Keeps

\* Only one window changes.
LEMMA MovesOf ==
  ASSUME NEW d \in Device, Alone(d),
         \/ Keeps(d) /\ met' = met
         \/ Closes(d) /\ met' = met
         \/ \E c \in Call : Opens(d, c)
         \/ Keeps(d) /\ \E c \in Call : Refuses(d, c)
  PROVE  Moves
  <1>1. \A e \in Device \ {d} : Keeps(e)
    BY KeptWindow DEF Alone
  <1>2. \A c : Opens(d, c) => met' = met \union {<<d, c>>}
    BY DEF Opens, Shows
  <1>3. \A c : Refuses(d, c) => met' = met \union {<<d, c>>}
    BY DEF Refuses
  <1>4. Keeps(d) \/ Closes(d) \/ \E c \in Call : Opens(d, c)
    OBVIOUS
  <1>5. \/ met' = met
        \/ \E c \in Call : met' = met \union {<<d, c>>} /\ (Opens(d, c) \/ Refuses(d, c))
    BY <1>2, <1>3
  <1>6. QED
    BY <1>1, <1>4, <1>5 DEF Moves

LEMMA MovesStep == FlowInv /\ [Next]_vars => Moves
  <1> SUFFICES ASSUME FlowInv, [Next]_vars
               PROVE  Moves
    OBVIOUS
  <1>t. TypeInv /\ TypeOK
    BY DEF FlowInv, TypeInv
  <1>1. ASSUME NEW d \in Device, PollCall(d)
        PROVE  Moves
    <2>1. Alone(d) /\ starting[d] # None /\ starting[d].call \in Call
      BY <1>1, <1>t, PollCallEffect
    <2>2. CASE UNCHANGED <<active, met>>
      BY <2>1, <2>2, MovesOf DEF Keeps
    <2>3. CASE ~ UNCHANGED <<active, met>>
      <3>1. Opens(d, starting[d].call)
        BY <1>1, <1>t, <2>1, <2>3, PollCallEffect DEF Opens
      <3>2. QED
        BY <2>1, <3>1, MovesOf
    <2>4. QED
      BY <2>2, <2>3
  <1>2. ASSUME NEW d \in Device, Ring(d)
        PROVE  Moves
    <2>1. Alone(d) /\ poll[d] # None /\ active[d] = None
      BY <1>2, <1>t, RingEffect
    <2>2. CASE UNCHANGED <<active, met>>
      BY <2>1, <2>2, MovesOf DEF Keeps
    <2>3. CASE ~ UNCHANGED <<active, met>>
      <3>1. PICK s \in ToSet(poll[d].signals) :
              /\ s.kind = "invite"
              /\ Shows(d, s.call, TRUE)
              /\ <<d, s.call>> \in met => s.call \in muddled'
        BY <1>2, <1>t, <2>3, RingEffect
      <3>2. s \in UnderWay /\ s.to = d
        BY <2>1 DEF UnderWay, Unread, FlowInv, AnswersInv
      <3>3. s.call \in Call
        BY <1>t, <3>2, UnderWayTypes
      <3>4. Opens(d, s.call)
        BY <2>1, <3>1, <3>2 DEF Opens
      <3>5. QED
        BY <2>1, <3>3, <3>4, MovesOf
    <2>4. QED
      BY <2>2, <2>3
  <1>3. ASSUME NEW d \in Device, Hear(d)
        PROVE  Moves
    <2>1. Alone(d) /\ met' = met /\ (Closes(d) \/ Keeps(d))
      BY <1>3, <1>t, HearEffect DEF Keeps
    <2>2. QED
      BY <2>1, MovesOf
  <1>4. ASSUME NEW d \in Device, NEW c \in Call, ShowInvite(d, c)
        PROVE  Moves
    <2>1. /\ Alone(d)
          /\ <<d, c>> \in met => c \in muddled'
          /\ met' = met \union {<<d, c>>}
          /\ \/ active[d] = None /\ Shows(d, c, TRUE)
             \/ /\ active[d] # None /\ active' = active
                /\ posting' = posting \union {Sent(d, "busy", c)}
      BY <1>4, <1>t, ShowInviteEffect
    <2>2. CASE active[d] = None
      <3>1. Opens(d, c)
        BY <1>4, <2>1, <2>2 DEF Opens
      <3>2. QED
        BY <2>1, <3>1, MovesOf
    <2>3. CASE active[d] # None
      <3>1. Refuses(d, c) /\ Keeps(d)
        BY <1>4, <2>1, <2>3, KeptWindow DEF Refuses
      <3>2. QED
        BY <2>1, <3>1, MovesOf
    <2>4. QED
      BY <2>2, <2>3
  <1>5. ASSUME NEW d \in Device, Accept(d)
        PROVE  Moves
    <2>1. Alone(d) /\ met' = met /\ Keeps(d)
      BY <1>5, <1>t, AcceptEffect DEF Keeps
    <2>2. QED
      BY <2>1, MovesOf
  <1>6. ASSUME NEW d \in Device, NEW kind \in Ending, active[d] # None, Leave(d, kind)
        PROVE  Moves
    <2>1. Alone(d) /\ met' = met /\ Closes(d)
      BY <1>6, <1>t, LeaveEffect
    <2>2. QED
      BY <2>1, MovesOf
  <1>7. ASSUME NEW d \in Device, MediaDone(d) \/ MediaFails(d)
        PROVE  Moves
    <2>1. UNCHANGED <<active, met>>
      BY <1>7, <1>t, MediaDoneEffect, MediaFailsEffect
    <2>2. QED
      BY <2>1, KeptWindow DEF Moves
  <1>8. ASSUME ~WindowStep
        PROVE  Moves
    BY <1>8, OtherSteps, KeptWindow DEF Moves
  <1>9. QED
    BY <1>1, <1>2, <1>3, <1>4, <1>5, <1>6, <1>7, <1>8 DEF WindowStep

\* The worker of d that starts a call, and the encrypted invite it sends.
Starts(d) ==
  \/ starting'[d] = starting[d]
  \/ PollCall(d)
  \/ /\ starting[d] = None /\ starting'[d] # None
     /\ starting'[d].call \in Call /\ starting'[d].at = "asked"
     /\ From[starting'[d].call] = d
     /\ invite[starting'[d].call] = "unsent"
     /\ invite' = invite /\ met' = met
  \/ /\ starting[d] # None /\ starting'[d] # None
     /\ starting[d].call \in Call /\ starting'[d].call = starting[d].call
     /\ met' = met
     /\ \/ /\ starting[d].at = "asked" /\ starting'[d].at = "invited"
           /\ invite'[starting[d].call] # "unsent"
        \/ starting[d].at = "invited" /\ starting'[d].at = "ready" /\ invite' = invite
        \/ starting[d].at = "asked" /\ starting'[d].at = "failed"

Invites(c) ==
  \/ invite'[c] = invite[c]
  \/ invite[c] # "unsent" /\ invite'[c] # "unsent"
  \/ \E d \in Device :
       /\ starting[d] # None /\ starting[d].call = c /\ starting[d].at = "asked"
       /\ starting'[d] # None /\ starting'[d].call = c
       /\ starting'[d].at = "invited" \/ (starting'[d].at = "failed" /\ c \in muddled')

Beginnings ==
  /\ \A d \in Device : Starts(d)
  /\ \A c \in Call : Invites(c)

\* A worker is kept, or ends: what PollCall and most steps do.
LEMMA StartsKept == \A d : starting'[d] = starting[d] => Starts(d)
  BY DEF Starts

LEMMA InvitesKept == \A c : invite'[c] = invite[c] => Invites(c)
  BY DEF Invites

LEMMA BeginningsStep == FlowInv /\ [Next]_vars => Beginnings
  <1> SUFFICES ASSUME FlowInv, [Next]_vars
               PROVE  Beginnings
    OBVIOUS
  <1>t. TypeInv /\ TypeOK
    BY DEF FlowInv, TypeInv
  <1>s. ASSUME UNCHANGED <<starting, invite>>
        PROVE  Beginnings
    BY <1>s, StartsKept, InvitesKept DEF Beginnings
  <1>w. \A d \in Device : starting[d] # None => starting[d] \in StartWorker /\ starting[d].call \in Call
    BY <1>t, Records DEF StartWorker
  <1>1. ASSUME NEW d \in Device, NEW c \in Call, StartCall(d, c)
        PROVE  Beginnings
    <2> DEFINE worker == [call |-> c, at |-> "asked"]
    <2>1. /\ UNCHANGED <<invite, met>>
          /\ starting[d] = None /\ starting' = [starting EXCEPT ![d] = worker]
          /\ From[c] = d /\ invite[c] = "unsent"
      BY <1>1 DEF StartCall, server, history
    <2>2. worker \in StartWorker /\ worker # None
      <3>1. worker \in StartWorker
        BY DEF StartWorker
      <3>2. QED
        BY <3>1, NotNone
    <2>3. starting'[d] = worker /\ \A e \in Device \ {d} : starting'[e] = starting[e]
      BY <1>t, <2>1 DEF TypeOK
    <2>4. Starts(d)
      BY <2>1, <2>2, <2>3 DEF Starts
    <2>5. QED
      BY <2>1, <2>3, <2>4, StartsKept, InvitesKept DEF Beginnings
  <1>2. ASSUME NEW d \in Device, NEW at \in {"invited", "ready", "failed"}, starting[d] # None,
               starting' = [starting EXCEPT ![d].at = at]
        PROVE  /\ starting'[d] # None /\ starting'[d].at = at
               /\ starting[d].call \in Call /\ starting'[d].call = starting[d].call
               /\ \A e \in Device \ {d} : Starts(e)
    <2>1. starting'[d] = [starting[d] EXCEPT !.at = at]
      BY <1>t, <1>2 DEF TypeOK
    <2>2. starting'[d] \in StartWorker
      BY <1>w, <1>2, <2>1 DEF StartWorker
    <2>3. starting'[d].at = at /\ starting'[d].call = starting[d].call
      BY <1>w, <1>2, <2>1 DEF StartWorker
    <2>4. \A e \in Device \ {d} : starting'[e] = starting[e]
      BY <1>t, <1>2 DEF TypeOK
    <2>5. QED
      BY <1>w, <1>2, <2>2, <2>3, <2>4, NotNone, StartsKept
  <1>3. ASSUME NEW d \in Device, StartInvite(d)
        PROVE  Beginnings
    <2>1. /\ starting[d] # None /\ starting[d].at = "asked"
          /\ starting' = [starting EXCEPT ![d].at = "invited"]
          /\ invite' = [invite EXCEPT ![starting[d].call] = "stored"]
          /\ met' = met
      BY <1>3 DEF StartInvite, history
    <2>2. /\ starting'[d] # None /\ starting'[d].at = "invited"
          /\ starting[d].call \in Call /\ starting'[d].call = starting[d].call
          /\ \A e \in Device \ {d} : Starts(e)
      BY <1>2, <2>1
    <2>3. /\ invite'[starting[d].call] = "stored"
          /\ \A c \in Call \ {starting[d].call} : invite'[c] = invite[c]
      BY <1>t, <2>1, <2>2 DEF TypeOK
    <2>4. Starts(d)
      BY <2>1, <2>2, <2>3 DEF Starts
    <2>5. \A c \in Call : Invites(c)
      BY <2>1, <2>2, <2>3 DEF Invites
    <2>6. QED
      BY <2>2, <2>4, <2>5 DEF Beginnings
  <1>4. ASSUME NEW d \in Device, StartSignal(d)
        PROVE  Beginnings
    <2>1. /\ starting[d] # None /\ starting[d].at = "invited"
          /\ starting' = [starting EXCEPT ![d].at = "ready"]
          /\ invite' = invite /\ met' = met
      BY <1>4 DEF StartSignal, Push
    <2>2. /\ starting'[d] # None /\ starting'[d].at = "ready"
          /\ starting[d].call \in Call /\ starting'[d].call = starting[d].call
          /\ \A e \in Device \ {d} : Starts(e)
      BY <1>2, <2>1
    <2>3. Starts(d)
      BY <2>1, <2>2 DEF Starts
    <2>4. QED
      BY <2>1, <2>2, <2>3, InvitesKept DEF Beginnings
  <1>5. ASSUME NEW d \in Device, StartFails(d)
        PROVE  Beginnings
    <2>1. /\ starting[d] # None /\ starting[d].at = "asked"
          /\ starting' = [starting EXCEPT ![d].at = "failed"]
          /\ met' = met
          /\ \/ invite' = invite
             \/ /\ invite' = [invite EXCEPT ![starting[d].call] = "stored"]
                /\ starting[d].call \in muddled'
      BY <1>5 DEF StartFails, history, Lose, Muddle
    <2>2. /\ starting'[d] # None /\ starting'[d].at = "failed"
          /\ starting[d].call \in Call /\ starting'[d].call = starting[d].call
          /\ \A e \in Device \ {d} : Starts(e)
      BY <1>2, <2>1
    <2>3. \A c \in Call : \/ invite'[c] = invite[c]
                          \/ c = starting[d].call /\ c \in muddled'
      BY <1>t, <2>1, <2>2 DEF TypeOK
    <2>4. Starts(d)
      BY <2>1, <2>2 DEF Starts
    <2>5. \A c \in Call : Invites(c)
      BY <2>1, <2>2, <2>3 DEF Invites
    <2>6. QED
      BY <2>2, <2>4, <2>5 DEF Beginnings
  <1>6. ASSUME NEW d \in Device, PollCall(d)
        PROVE  Beginnings
    <2>1. /\ starting'[d] = None /\ invite' = invite
          /\ \A e \in Device \ {d} : starting'[e] = starting[e]
      BY <1>6, <1>t, PollCallEffect
    <2>2. \A e \in Device : Starts(e)
      BY <1>6, <2>1 DEF Starts
    <2>3. QED
      BY <2>1, <2>2, InvitesKept DEF Beginnings
  <1>7. ASSUME NEW d \in Device, NEW c \in Call, ShowInvite(d, c)
        PROVE  Beginnings
    <2>1. /\ starting' = starting /\ invite[c] # "unsent"
          /\ \A k \in Call : invite'[k] = invite[k] \/ (k = c /\ invite'[k] # "unsent")
      BY <1>7, <1>t, ShowInviteEffect
    <2>2. \A k \in Call : Invites(k)
      BY <2>1 DEF Invites
    <2>3. QED
      BY <2>1, <2>2, StartsKept DEF Beginnings
  <1>8. ASSUME NEW d \in Device,
               \/ Ring(d) \/ Hear(d) \/ Accept(d) \/ MediaDone(d) \/ MediaFails(d)
               \/ PollFetch(d) \/ \E call \in Call \union {AnyCall} : StrayFetch(d, call)
        PROVE  Beginnings
    <2>1. CASE Ring(d)
      BY <1>s, <1>t, <2>1, RingEffect
    <2>2. CASE Hear(d)
      BY <1>s, <1>t, <2>2, HearEffect
    <2>3. CASE Accept(d)
      BY <1>s, <1>t, <2>3, AcceptEffect
    <2>4. CASE MediaDone(d)
      BY <1>s, <1>t, <2>4, MediaDoneEffect
    <2>5. CASE MediaFails(d)
      BY <1>s, <1>t, <2>5, MediaFailsEffect
    <2>6. CASE PollFetch(d)
      BY <1>s, <2>6, PollFetchEffect
    <2>7. CASE \E call \in Call \union {AnyCall} : StrayFetch(d, call)
      BY <1>s, <2>7, StrayFetchEffect
    <2>8. QED
      BY <1>8, <2>1, <2>2, <2>3, <2>4, <2>5, <2>6, <2>7
  <1>9. ASSUME NEW d \in Device, Decline(d) \/ HangUp(d) \/ NoAnswer(d) \/ PollStart(d)
        PROVE  Beginnings
    <2>1. UNCHANGED <<starting, invite>>
      BY <1>9 DEF Decline, HangUp, NoAnswer, Click, Leave, PollStart, server
    <2>2. QED
      BY <1>s, <2>1
  <1>10. ASSUME NEW s \in posting, Post(s)
         PROVE  Beginnings
    BY <1>10, <1>s DEF Post, client
  <1>11. ASSUME Restart \/ UNCHANGED vars
         PROVE  Beginnings
    BY <1>11, <1>s DEF Restart, vars, client, server
  <1>12. QED
    BY <1>1, <1>3, <1>4, <1>5, <1>6, <1>7, <1>8, <1>9, <1>10, <1>11 DEF Next

(***************************************************************************)
(* What holds of every call, muddled or not.                               *)
(***************************************************************************)
Ends(c) == {From[c], To[c]}

\* A window shows a call of its own device, rings at the end that is called only.
WindowsInv ==
  \A d \in Device : active[d] # None =>
    /\ <<d, active[d].call>> \in met
    /\ active[d].incoming = (d = To[active[d].call])

\* Nobody meets a call that was not offered, nor one of others.
MetInv ==
  \A d \in Device, c \in Call : <<d, c>> \in met => invite[c] # "unsent" /\ d \in Ends(c)

\* A worker starts a call of its device, which has not met it.
StartsInv ==
  \A d \in Device : starting[d] # None =>
    /\ From[starting[d].call] = d
    /\ <<d, starting[d].call>> \notin met
    /\ starting[d].at = "asked" => invite[starting[d].call] = "unsent"
    /\ starting[d].at \in {"invited", "ready"} => invite[starting[d].call] # "unsent"

\* A signal goes to an end of its call, an invite and an answer to the right one.
SignalsInv ==
  \A s \in UnderWay :
    /\ s.to \in Ends(s.call)
    /\ s.kind = "invite" => s.to = To[s.call] /\ invite[s.call] # "unsent"
    /\ s.kind = "answer" => s.to = From[s.call] /\ <<To[s.call], s.call>> \in met

CallsInv == FlowInv /\ WindowsInv /\ MetInv /\ StartsInv /\ SignalsInv

LEMMA Peers ==
  ASSUME NEW c \in Call, NEW d \in Ends(c)
  PROVE  /\ d \in Device /\ Peer(d, c) \in Ends(c) /\ Peer(d, c) \in Device
         /\ Peer(d, c) # d /\ Peer(Peer(d, c), c) = d
         /\ Peer(From[c], c) = To[c] /\ Peer(To[c], c) = From[c]
         /\ From[c] # To[c] /\ From[c] \in Device /\ To[c] \in Device
         /\ Ends(c) = {d, Peer(d, c)}
  BY CallsAssumption DEF Ends, Peer

LEMMA SignalFields ==
  ASSUME NEW d, NEW kind, NEW c
  PROVE  /\ Sent(d, kind, c).kind = kind
         /\ Sent(d, kind, c).call = c
         /\ Sent(d, kind, c).to = Peer(d, c)
  BY DEF Sent

\* An invite that was sent stays sent.
LEMMA NeverUnsent ==
  ASSUME CallsInv, Beginnings, NEW c \in Call, invite[c] # "unsent"
  PROVE  invite'[c] # "unsent"
  <1>1. ASSUME NEW d \in Device, starting[d] # None, starting[d].call = c, starting[d].at = "asked"
        PROVE  FALSE
    BY <1>1 DEF CallsInv, StartsInv
  <1>2. Invites(c)
    BY DEF Beginnings
  <1>3. QED
    BY <1>1, <1>2 DEF Invites

\* A call is new to the device that its window opens with, or that refuses it.
LEMMA NewlyMet ==
  ASSUME CallsInv, NEW d \in Device, NEW c \in Call, Opens(d, c) \/ Refuses(d, c)
  PROVE  /\ <<d, c>> \in met => c \in muddled'
         /\ invite[c] # "unsent"
         /\ d = From[c] \/ d = To[c]
         /\ d = From[c] => PollCall(d) /\ starting[d] # None /\ starting[d].call = c
                             /\ starting[d].at = "ready" /\ Opens(d, c)
  <1>t. TypeInv
    BY DEF CallsInv, FlowInv
  <1>e. From[c] # To[c]
    BY CallsAssumption
  <1>1. CASE /\ PollCall(d)
             /\ starting[d] # None /\ starting[d].call = c /\ starting[d].at = "ready"
             /\ Shows(d, c, FALSE)
             /\ active[d] # None => {c, active[d].call} \subseteq muddled'
             /\ Opens(d, c)
    BY <1>1 DEF CallsInv, StartsInv
  <1>2. CASE /\ \E s \in UnderWay : s.kind = "invite" /\ s.call = c /\ s.to = d
             /\ <<d, c>> \in met => c \in muddled'
    BY <1>e, <1>2 DEF CallsInv, SignalsInv
  <1>3. CASE ShowInvite(d, c) /\ (<<d, c>> \in met => c \in muddled')
    <2>1. d = To[c] /\ invite[c] # "unsent"
      BY <1>t, <1>3, ShowInviteEffect
    <2>2. QED
      BY <1>e, <1>3, <2>1
  <1>4. QED
    BY <1>1, <1>2, <1>3 DEF Opens, Refuses

LEMMA WindowsStep ==
  ASSUME CallsInv, Flow, Moves
  PROVE  WindowsInv'
  <1> SUFFICES ASSUME NEW d \in Device, active'[d] # None
               PROVE  <<d, active'[d].call>> \in met' /\ active'[d].incoming = (d = To[active'[d].call])
    BY DEF WindowsInv
  <1>1. CASE Keeps(d)
    BY <1>1 DEF Keeps, Flow, CallsInv, WindowsInv
  <1>2. CASE Closes(d)
    BY <1>2 DEF Closes
  <1>3. ASSUME NEW c \in Call, Opens(d, c)
        PROVE  <<d, active'[d].call>> \in met' /\ active'[d].incoming = (d = To[active'[d].call])
    <2>1. active'[d].call = c /\ <<d, c>> \in met'
      BY <1>3 DEF Opens, Shows
    <2>2. From[c] # To[c]
      BY CallsAssumption
    <2>3. CASE Shows(d, c, FALSE) /\ starting[d] # None /\ starting[d].call = c
      <3>1. From[c] = d
        BY <2>3 DEF CallsInv, StartsInv
      <3>2. active'[d].incoming = FALSE /\ (d = To[c]) = FALSE
        BY <2>2, <2>3, <3>1 DEF Shows
      <3>3. QED
        BY <2>1, <3>2
    <2>4. CASE Shows(d, c, TRUE) /\ \E s \in UnderWay : s.kind = "invite" /\ s.call = c /\ s.to = d
      <3>1. d = To[c]
        BY <2>4 DEF CallsInv, SignalsInv
      <3>2. active'[d].incoming = TRUE /\ (d = To[c]) = TRUE
        BY <2>4, <3>1 DEF Shows
      <3>3. QED
        BY <2>1, <3>2
    <2>5. CASE Shows(d, c, TRUE) /\ ShowInvite(d, c)
      <3>1. d = To[c]
        BY <2>5 DEF ShowInvite
      <3>2. active'[d].incoming = TRUE /\ (d = To[c]) = TRUE
        BY <2>5, <3>1 DEF Shows
      <3>3. QED
        BY <2>1, <3>2
    <2>6. QED
      BY <1>3, <2>3, <2>4, <2>5 DEF Opens
  <1>4. QED
    BY <1>1, <1>2, <1>3 DEF Moves

LEMMA MetStep ==
  ASSUME CallsInv, Moves, Beginnings
  PROVE  MetInv'
  <1> SUFFICES ASSUME NEW d \in Device, NEW c \in Call, <<d, c>> \in met'
               PROVE  invite'[c] # "unsent" /\ d \in Ends(c)
    BY DEF MetInv, Ends
  <1>1. CASE <<d, c>> \in met
    BY <1>1, NeverUnsent DEF CallsInv, MetInv
  <1>2. CASE <<d, c>> \notin met
    <2>1. Opens(d, c) \/ Refuses(d, c)
      BY <1>2 DEF Moves
    <2>2. QED
      BY <2>1, NewlyMet, NeverUnsent DEF Ends
  <1>3. QED
    BY <1>1, <1>2

LEMMA StartsStep ==
  ASSUME CallsInv, Moves, Beginnings
  PROVE  StartsInv'
  <1> SUFFICES ASSUME NEW d \in Device, starting'[d] # None
               PROVE  /\ From[starting'[d].call] = d
                      /\ <<d, starting'[d].call>> \notin met'
                      /\ starting'[d].at = "asked" => invite'[starting'[d].call] = "unsent"
                      /\ starting'[d].at \in {"invited", "ready"} =>
                           invite'[starting'[d].call] # "unsent"
    BY DEF StartsInv
  <1>t. TypeInv /\ TypeOK
    BY DEF CallsInv, FlowInv, TypeInv
  <1>1. CASE starting'[d] = starting[d]
    <2> DEFINE c == starting[d].call
    <2>1. /\ c \in Call
          /\ From[c] = d /\ <<d, c>> \notin met
          /\ starting[d].at = "asked" => invite[c] = "unsent"
          /\ starting[d].at \in {"invited", "ready"} => invite[c] # "unsent"
      BY <1>1, <1>t, Records DEF CallsInv, StartsInv, StartWorker
    <2>2. <<d, c>> \notin met'
      <3>1. SUFFICES ASSUME Opens(d, c) \/ Refuses(d, c)
                     PROVE  FALSE
        BY <2>1 DEF Moves
      <3>2. PollCall(d)
        BY <2>1, <3>1, NewlyMet
      <3>3. starting'[d] = None
        BY <1>t, <3>2, PollCallEffect
      <3>4. QED
        BY <3>3
    <2>3. starting[d].at = "asked" => invite'[c] = "unsent"
      <3>1. SUFFICES ASSUME starting[d].at = "asked", invite'[c] # "unsent"
                     PROVE  FALSE
        OBVIOUS
      <3>2. PICK e \in Device :
              /\ starting[e] # None /\ starting[e].call = c
              /\ starting'[e] # None /\ starting'[e].at \in {"invited", "failed"}
        BY <2>1, <3>1 DEF Beginnings, Invites
      <3>3. e = d
        BY <2>1, <3>2 DEF CallsInv, StartsInv
      <3>4. QED
        BY <1>1, <3>1, <3>2, <3>3
    <2>4. starting[d].at \in {"invited", "ready"} => invite'[c] # "unsent"
      BY <2>1, NeverUnsent
    <2>5. QED
      BY <1>1, <2>1, <2>2, <2>3, <2>4
  <1>2. CASE /\ starting'[d].call \in Call /\ starting'[d].at = "asked"
             /\ From[starting'[d].call] = d
             /\ invite[starting'[d].call] = "unsent"
             /\ invite' = invite /\ met' = met
    BY <1>2 DEF CallsInv, MetInv
  <1>3. CASE /\ starting[d] # None
             /\ starting[d].call \in Call /\ starting'[d].call = starting[d].call
             /\ met' = met
             /\ \/ /\ starting[d].at = "asked" /\ starting'[d].at = "invited"
                   /\ invite'[starting[d].call] # "unsent"
                \/ starting[d].at = "invited" /\ starting'[d].at = "ready" /\ invite' = invite
                \/ starting[d].at = "asked" /\ starting'[d].at = "failed"
    BY <1>3 DEF CallsInv, StartsInv
  <1>4. CASE PollCall(d)
    BY <1>t, <1>4, PollCallEffect
  <1>5. QED
    BY <1>1, <1>2, <1>3, <1>4 DEF Beginnings, Starts

\* The end that shows a call is one of its own.
LEMMA WindowEnds ==
  ASSUME CallsInv, NEW d \in Device, active[d] # None
  PROVE  /\ active[d].call \in Call
         /\ d \in Ends(active[d].call)
         /\ <<d, active[d].call>> \in met
         /\ active[d].incoming => d = To[active[d].call]
         /\ ~active[d].incoming => d = From[active[d].call]
  <1>1. active[d].call \in Call
    BY Records DEF CallsInv, FlowInv, TypeInv, CallState
  <1>2. d \in Ends(active[d].call) /\ <<d, active[d].call>> \in met
    BY <1>1 DEF CallsInv, WindowsInv, MetInv
  <1>3. active[d].incoming = (d = To[active[d].call])
    BY DEF CallsInv, WindowsInv
  <1>4. QED
    BY <1>1, <1>2, <1>3 DEF Ends

LEMMA SignalsStep ==
  ASSUME CallsInv, Flow, Beginnings
  PROVE  SignalsInv'
  <1> SUFFICES ASSUME NEW s \in UnderWay'
               PROVE  /\ s.to \in Ends(s.call)
                      /\ s.kind = "invite" => s.to = To[s.call] /\ invite'[s.call] # "unsent"
                      /\ s.kind = "answer" => s.to = From[s.call] /\ <<To[s.call], s.call>> \in met'
    BY DEF SignalsInv, Ends
  <1>t. TypeInv /\ TypeOK
    BY DEF CallsInv, FlowInv, TypeInv
  <1>1. CASE s \in UnderWay
    <2>1. s.call \in Call
      BY <1>1, <1>t, UnderWayTypes
    <2>2. QED
      BY <1>1, <2>1, NeverUnsent DEF CallsInv, SignalsInv, Flow
  <1>2. ASSUME NEW d \in Device,
               starting[d] # None, starting[d].at = "invited", starting[d].call \in Call,
               s = Sent(d, "invite", starting[d].call)
        PROVE  s.kind = "invite" /\ s.to = To[s.call] /\ invite'[s.call] # "unsent" /\ s.to \in Ends(s.call)
    <2>1. From[starting[d].call] = d /\ invite[starting[d].call] # "unsent"
      BY <1>2 DEF CallsInv, StartsInv
    <2>2. d \in Ends(starting[d].call)
      BY <2>1 DEF Ends
    <2>3. /\ s.kind = "invite" /\ s.call = starting[d].call /\ s.to = Peer(d, starting[d].call)
      BY <1>2, SignalFields
    <2>4. QED
      BY <1>2, <2>1, <2>2, <2>3, Peers, NeverUnsent
  <1>3. ASSUME NEW d \in Device, active[d] # None, NEW kind, s = Sent(d, kind, active[d].call)
        PROVE  /\ s.to \in Ends(s.call) /\ s.kind = kind
               /\ active[d].incoming => s.to = From[s.call] /\ <<To[s.call], s.call>> \in met
    <2>1. /\ s.kind = kind /\ s.call = active[d].call /\ s.to = Peer(d, active[d].call)
      BY <1>3, SignalFields
    <2>2. /\ active[d].call \in Call
          /\ d \in Ends(active[d].call)
          /\ <<d, active[d].call>> \in met
          /\ active[d].incoming => d = To[active[d].call]
      BY <1>3, WindowEnds
    <2>3. /\ s.to \in Ends(s.call)
          /\ d = To[active[d].call] => s.to = From[s.call]
      BY <2>1, <2>2, Peers
    <2>4. QED
      BY <2>1, <2>2, <2>3
  <1>4. ASSUME NEW d \in Device, NEW c \in Call, ShowInvite(d, c), s = Sent(d, "busy", c)
        PROVE  s.to \in Ends(s.call) /\ s.kind = "busy"
    <2>1. d = To[c]
      BY <1>4 DEF ShowInvite
    <2>2. QED
      BY <1>4, <2>1, SignalFields, Peers DEF Ends
  <1>5. ASSUME NEW d \in Device, Accept(d)
        PROVE  active[d].incoming
    BY <1>5 DEF Accept
  <1>6. CASE Comes(s)
    <2>1. PICK d \in Device :
            \/ /\ starting[d] # None /\ starting[d].at = "invited" /\ starting[d].call \in Call
               /\ s = Sent(d, "invite", starting[d].call)
            \/ /\ active[d] # None
               /\ \/ \E kind \in Ending \union {"webrtc-offer", "webrtc-answer"} :
                       s = Sent(d, kind, active[d].call)
                  \/ Accept(d) /\ s = Sent(d, "answer", active[d].call)
            \/ \E c \in Call : ShowInvite(d, c) /\ s = Sent(d, "busy", c)
      BY <1>6 DEF Comes
    <2>2. CASE starting[d] # None /\ starting[d].at = "invited" /\ starting[d].call \in Call
               /\ s = Sent(d, "invite", starting[d].call)
      BY <1>2, <2>2
    <2>3. ASSUME active[d] # None, NEW kind \in Ending \union {"webrtc-offer", "webrtc-answer"},
                 s = Sent(d, kind, active[d].call)
          PROVE  s.to \in Ends(s.call) /\ s.kind \notin {"invite", "answer"}
      BY <1>3, <2>3 DEF Ending
    <2>4. CASE active[d] # None /\ Accept(d) /\ s = Sent(d, "answer", active[d].call)
      BY <1>3, <1>5, <2>4 DEF Flow
    <2>5. CASE \E c \in Call : ShowInvite(d, c) /\ s = Sent(d, "busy", c)
      BY <1>4, <2>5
    <2>6. QED
      BY <2>1, <2>2, <2>3, <2>4, <2>5
  <1>7. QED
    BY <1>1, <1>6 DEF Flow

LEMMA CallsStep == CallsInv /\ [Next]_vars => CallsInv'
  <1> SUFFICES ASSUME CallsInv, [Next]_vars
               PROVE  CallsInv'
    OBVIOUS
  <1>1. Flow /\ Moves /\ Beginnings
    BY FlowStep, MovesStep, BeginningsStep DEF CallsInv
  <1>2. TypeInv'
    BY TypeStep, MediaOfCallStep DEF CallsInv, FlowInv, TypeInv
  <1>3. FlowInv'
    BY <1>1, <1>2 DEF Flow, FlowInv
  <1>4. QED
    BY <1>1, <1>3, WindowsStep, MetStep, StartsStep, SignalsStep DEF CallsInv

(***************************************************************************)
(* Nobody is left alone.                                                   *)
(***************************************************************************)
\* Who sent an ending is through with the call.
EndingsInv ==
  \A s \in UnderWay :
    s.call \notin muddled /\ s.kind \in Ending => Through(Peer(s.to, s.call), s.call)

\* When one end is through with a call, the other is as well, or will be told.
ToldInv ==
  \A c \in Call : \A d \in Ends(c) :
    c \notin muddled /\ Through(d, c) =>
      \/ Through(Peer(d, c), c)
      \/ \E s \in UnderWay : s.call = c /\ s.to = Peer(d, c) /\ s.kind \in Ending

\* A call that was offered has a caller, in its window or about to be.
OfferedInv ==
  \A c \in Call : c \notin muddled /\ invite[c] # "unsent" =>
    \/ <<From[c], c>> \in met
    \/ /\ starting[From[c]] # None /\ starting[From[c]].call = c
       /\ starting[From[c]].at \in {"invited", "ready"}

\* A caller that hears an answer was answered by the other end.
AnsweredInv ==
  \A c \in Call : c \notin muddled /\ In(From[c], c) /\ active[From[c]].accepted =>
    <<To[c], c>> \in met

AloneInv == CallsInv /\ EndingsInv /\ ToldInv /\ OfferedInv /\ AnsweredInv

\* Who changes the window or the session of a device: the device itself.
LEMMA OwnStep ==
  ASSUME TypeInv, [Next]_vars, NEW d \in Device,
         active'[d] # active[d] \/ media'[d] # media[d]
  PROVE  \/ PollCall(d)
         \/ Ring(d)
         \/ Hear(d)
         \/ \E c \in Call : ShowInvite(d, c)
         \/ Accept(d)
         \/ active[d] # None /\ \E kind \in Ending : Leave(d, kind)
         \/ MediaDone(d)
         \/ MediaFails(d)
  <1>1. ASSUME NEW e \in Device, Alone(e)
        PROVE  d = e
    BY <1>1 DEF Alone
  <1>2. WindowStep
    BY OtherSteps
  <1>3. CASE \E e \in Device : PollCall(e)
    BY <1>1, <1>3, PollCallEffect
  <1>4. CASE \E e \in Device : Ring(e)
    BY <1>1, <1>4, RingEffect
  <1>5. CASE \E e \in Device : Hear(e)
    <2>1. PICK e \in Device : Hear(e)
      BY <1>5
    <2>2. Alone(e)
      BY <2>1, HearEffect
    <2>3. QED
      BY <1>1, <2>1, <2>2
  <1>6. CASE \E e \in Device, c \in Call : ShowInvite(e, c)
    <2>1. PICK e \in Device, c \in Call : ShowInvite(e, c)
      BY <1>6
    <2>2. Alone(e)
      BY <2>1, ShowInviteEffect
    <2>3. QED
      BY <1>1, <2>1, <2>2
  <1>7. CASE \E e \in Device : Accept(e)
    BY <1>1, <1>7, AcceptEffect
  <1>8. CASE \E e \in Device, kind \in Ending : active[e] # None /\ Leave(e, kind)
    BY <1>1, <1>8, LeaveEffect
  <1>9. CASE \E e \in Device : MediaDone(e)
    BY <1>1, <1>9, MediaDoneEffect
  <1>10. CASE \E e \in Device : MediaFails(e)
    BY <1>1, <1>10, MediaFailsEffect
  <1>11. QED
    BY <1>2, <1>3, <1>4, <1>5, <1>6, <1>7, <1>8, <1>9, <1>10 DEF WindowStep

\* What a client hears is under way to it; of another call it muddles its own.
LEMMA HeardSignals ==
  ASSUME FlowInv, NEW d \in Device, Hear(d), NEW s \in Heard(poll[d].signals)
  PROVE  /\ s \in UnderWay /\ s.to = d
         /\ s.kind = "invite" \/ s.call = active[d].call \/ active[d].call \in muddled'
         /\ s.kind \in Ending => Closes(d)
  <1>t. TypeInv
    BY DEF FlowInv
  <1>1. s \in ToSet(poll[d].signals)
    BY DEF Heard, ToSet
  <1>2. poll[d] # None
    BY <1>t, HearEffect
  <1>3. s \in UnderWay /\ s.to = d
    BY <1>1, <1>2 DEF UnderWay, Unread, FlowInv, AnswersInv
  <1>4. s.kind = "invite" \/ s.call = active[d].call \/ active[d].call \in muddled'
    BY <1>t, HearEffect
  <1>5. s.kind \in Ending => KindsHeard(d) \intersect Ending # {}
    BY DEF KindsHeard
  <1>6. s.kind \in Ending => Closes(d)
    BY <1>t, <1>5, HearEffect
  <1>7. QED
    BY <1>3, <1>4, <1>6

LEMMA ThroughStays ==
  ASSUME CallsInv, Flow, Moves, NEW c \in Call, NEW d \in Device, c \notin muddled', Through(d, c)
  PROVE  Through(d, c)'
  <1>1. <<d, c>> \in met' /\ <<d, c>> \in met /\ ~In(d, c)
    BY DEF Flow, Through
  <1>2. CASE Keeps(d)
    BY <1>1, <1>2 DEF Keeps, In, Through
  <1>3. CASE Closes(d)
    BY <1>1, <1>3 DEF Closes, In, Through
  <1>4. ASSUME NEW k \in Call, Opens(d, k)
        PROVE  Through(d, c)'
    <2>1. k # c
      BY <1>1, <1>4, NewlyMet
    <2>2. active'[d].call = k
      BY <1>4 DEF Opens, Shows
    <2>3. QED
      BY <1>1, <2>1, <2>2 DEF In, Through
  <1>5. QED
    BY <1>2, <1>3, <1>4 DEF Moves

\* Who closes the window over a call is through with it.
LEMMA ClosedIsThrough ==
  ASSUME CallsInv, Flow, NEW d \in Device, Closes(d), NEW c, c = active[d].call
  PROVE  Through(d, c)'
  <1>1. <<d, c>> \in met
    BY WindowEnds DEF Closes
  <1>2. QED
    BY <1>1 DEF Through, Flow, Closes, In

LEMMA EndingsStep ==
  ASSUME AloneInv, [Next]_vars, Flow, Moves
  PROVE  EndingsInv'
  <1> SUFFICES ASSUME NEW s \in UnderWay', s.call \notin muddled', s.kind \in Ending
               PROVE  Through(Peer(s.to, s.call), s.call)'
    BY DEF EndingsInv, Peer
  <1>t. CallsInv /\ TypeInv /\ TypeOK
    BY DEF AloneInv, CallsInv, FlowInv, TypeInv
  <1>1. CASE s \in UnderWay
    <2>1. s.call \in Call /\ s.to \in Ends(s.call)
      BY <1>1, <1>t, UnderWayTypes DEF CallsInv, SignalsInv
    <2>2. Through(Peer(s.to, s.call), s.call)
      BY <1>1 DEF AloneInv, EndingsInv, Flow
    <2>3. QED
      BY <1>t, <2>1, <2>2, Peers, ThroughStays
  <1>2. ASSUME NEW d \in Device, active[d] # None, active[d].call \in Call, Closes(d),
               NEW kind \in Ending, s = Sent(d, kind, active[d].call)
        PROVE  Through(Peer(s.to, s.call), s.call)'
    <2>1. s.call = active[d].call /\ s.to = Peer(d, active[d].call)
      BY <1>2, SignalFields
    <2>2. d \in Ends(active[d].call)
      BY <1>2, <1>t, WindowEnds
    <2>3. Peer(s.to, s.call) = d
      BY <1>2, <2>1, <2>2, Peers
    <2>4. QED
      BY <1>2, <1>t, <2>1, <2>3, ClosedIsThrough
  <1>3. ASSUME NEW d \in Device, NEW c \in Call, ShowInvite(d, c), active[d] # None,
               s = Sent(d, "busy", c)
        PROVE  Through(Peer(s.to, s.call), s.call)'
    <2>1. s.call = c /\ s.to = Peer(d, c)
      BY <1>3, SignalFields
    <2>2. /\ d = To[c]
          /\ <<d, c>> \in met => c \in muddled'
          /\ met' = met \union {<<d, c>>}
          /\ active' = active
      BY <1>3, <1>t, ShowInviteEffect
    <2>3. Peer(s.to, s.call) = d
      BY <2>1, <2>2, Peers DEF Ends
    <2>4. ~In(d, c)
      BY <1>3, <1>t, <2>1, <2>2, WindowEnds DEF In
    <2>5. QED
      BY <2>1, <2>2, <2>3, <2>4 DEF Through, In
  <1>4. \A d, c : /\ Sent(d, "invite", c).kind \notin Ending
                  /\ Sent(d, "answer", c).kind \notin Ending
                  /\ Sent(d, "webrtc-offer", c).kind \notin Ending
                  /\ Sent(d, "webrtc-answer", c).kind \notin Ending
    BY SignalFields DEF Ending
  <1>5. CASE Comes(s)
    BY <1>2, <1>3, <1>4, <1>5 DEF Comes
  <1>6. QED
    BY <1>1, <1>5 DEF Flow

\* How a window closes: with a word to the other end, or after one from there.
LEMMA ClosingWord ==
  ASSUME CallsInv, [Next]_vars, NEW d \in Device, Closes(d)
  PROVE  \/ \E kind \in Ending : Sent(d, kind, active[d].call) \in UnderWay'
         \/ \E s \in UnderWay :
              /\ s.kind \in Ending /\ s.to = d
              /\ s.call = active[d].call \/ active[d].call \in muddled'
  <1>t. TypeInv /\ FlowInv
    BY DEF CallsInv, FlowInv
  <1>1. active[d] # None /\ active'[d] = None
    BY DEF Closes
  <1>2. CASE Hear(d)
    <2>1. KindsHeard(d) \intersect Ending # {}
      BY <1>t, <1>1, <1>2, HearEffect
    <2>2. PICK s \in Heard(poll[d].signals) : s.kind \in Ending
      BY <2>1 DEF KindsHeard
    <2>3. s.kind # "invite"
      BY <2>2 DEF Ending
    <2>4. QED
      BY <1>t, <1>2, <2>2, <2>3, HeardSignals
  <1>3. ASSUME NEW kind \in Ending, Leave(d, kind)
        PROVE  Sent(d, kind, active[d].call) \in UnderWay'
    BY <1>t, <1>1, <1>3, LeaveEffect DEF UnderWay
  <1>4. CASE PollCall(d)
    BY <1>t, <1>1, <1>4, PollCallEffect DEF Shows
  <1>5. CASE Ring(d)
    BY <1>t, <1>1, <1>5, RingEffect
  <1>6. CASE \E c \in Call : ShowInvite(d, c)
    BY <1>t, <1>1, <1>6, ShowInviteEffect
  <1>7. CASE Accept(d)
    BY <1>t, <1>1, <1>7, AcceptEffect
  <1>8. CASE MediaDone(d)
    BY <1>t, <1>1, <1>8, MediaDoneEffect
  <1>9. CASE MediaFails(d)
    BY <1>t, <1>1, <1>9, MediaFailsEffect
  <1>10. QED
    BY <1>t, <1>1, <1>2, <1>3, <1>4, <1>5, <1>6, <1>7, <1>8, <1>9, OwnStep

\* An ending on its way is not lost: it is on its way still, or has been of use.
LEMMA EndingArrives ==
  ASSUME CallsInv, Flow, Moves, NEW s \in UnderWay, s.kind \in Ending, s.call \notin muddled'
  PROVE  s \in UnderWay' \/ Through(s.to, s.call)'
  <1>t. TypeInv /\ TypeOK /\ FlowInv
    BY DEF CallsInv, FlowInv, TypeInv
  <1>1. s.call \in Call /\ s.to \in Device
    BY <1>t, UnderWayTypes
  <1>2. CASE Unheard(s)
    <2>1. Through(s.to, s.call)
      BY <1>2 DEF Unheard, Ending
    <2>2. QED
      BY <1>1, <2>1, ThroughStays
  <1>3. CASE Received(s)
    <2>1. In(s.to, s.call)
      BY <1>3 DEF Received
    <2>2. Closes(s.to)
      BY <1>t, <1>1, <1>3, HeardSignals DEF Received
    <2>3. QED
      BY <1>1, <2>1, <2>2, ClosedIsThrough DEF In
  <1>4. QED
    BY <1>2, <1>3 DEF Flow

LEMMA ToldStep ==
  ASSUME AloneInv, [Next]_vars, Flow, Moves
  PROVE  ToldInv'
  <1> SUFFICES ASSUME NEW c \in Call, NEW d \in Ends(c), c \notin muddled', Through(d, c)'
               PROVE  \/ Through(Peer(d, c), c)'
                      \/ \E s \in UnderWay' : s.call = c /\ s.to = Peer(d, c) /\ s.kind \in Ending
    BY DEF ToldInv, Ends, Peer
  <1>t. CallsInv /\ TypeInv /\ TypeOK /\ FlowInv
    BY DEF AloneInv, CallsInv, FlowInv, TypeInv
  <1>p. /\ d \in Device /\ Peer(d, c) \in Device
        /\ \A kind : /\ Sent(d, kind, c).call = c
                     /\ Sent(d, kind, c).to = Peer(d, c)
                     /\ Sent(d, kind, c).kind = kind
    BY Peers, SignalFields
  <1>m. c \notin muddled
    BY DEF Flow
  <1>1. CASE Through(d, c)
    <2>1. CASE Through(Peer(d, c), c)
      BY <1>t, <1>p, <2>1, ThroughStays
    <2>2. ASSUME NEW s \in UnderWay, s.call = c, s.to = Peer(d, c), s.kind \in Ending
          PROVE  \/ Through(Peer(d, c), c)'
                 \/ \E x \in UnderWay' : x.call = c /\ x.to = Peer(d, c) /\ x.kind \in Ending
      <3>1. s \in UnderWay' \/ Through(s.to, s.call)'
        BY <1>t, <2>2, EndingArrives
      <3>2. Through(s.to, s.call)' => Through(Peer(d, c), c)'
        BY <2>2
      <3>3. QED
        BY <2>2, <3>1, <3>2
    <2>3. QED
      BY <1>1, <1>m, <2>1, <2>2 DEF AloneInv, ToldInv
  <1>2. CASE <<d, c>> \notin met
    <2>1. Opens(d, c) \/ Refuses(d, c)
      BY <1>2 DEF Moves, Through
    <2>2. ~Opens(d, c)
      BY DEF Opens, Shows, Through, In
    <2>3. Sent(d, "busy", c) \in UnderWay' /\ "busy" \in Ending
      BY <2>1, <2>2 DEF Refuses, UnderWay, Ending
    <2>4. QED
      BY <1>p, <2>3
  <1>3. CASE In(d, c)
    <2>1. active[d] # None /\ active[d].call = c /\ ~(active'[d] # None /\ active'[d].call = c)
      BY <1>3 DEF In, Through
    <2>2. \A k : ~Opens(d, k)
      BY <2>1 DEF Opens
    <2>3. Closes(d)
      BY <1>p, <2>1, <2>2 DEF Moves, Keeps
    <2>4. CASE \E kind \in Ending : Sent(d, kind, c) \in UnderWay'
      BY <1>p, <2>4
    <2>5. ASSUME NEW s \in UnderWay, s.kind \in Ending, s.to = d, s.call = c
          PROVE  Through(Peer(d, c), c)'
      <3>1. Through(Peer(d, c), c)
        BY <1>m, <2>5 DEF AloneInv, EndingsInv
      <3>2. QED
        BY <1>t, <1>p, <3>1, ThroughStays
    <2>6. QED
      BY <1>t, <1>p, <2>1, <2>3, <2>4, <2>5, ClosingWord
  <1>4. QED
    BY <1>1, <1>2, <1>3 DEF Through

LEMMA OfferedStep ==
  ASSUME AloneInv, Flow, Moves, Beginnings
  PROVE  OfferedInv'
  <1> SUFFICES ASSUME NEW c \in Call, c \notin muddled', invite'[c] # "unsent"
               PROVE  \/ <<From[c], c>> \in met'
                      \/ /\ starting'[From[c]] # None /\ starting'[From[c]].call = c
                         /\ starting'[From[c]].at \in {"invited", "ready"}
    BY DEF OfferedInv
  <1>t. CallsInv /\ TypeInv
    BY DEF AloneInv, CallsInv, FlowInv
  <1>d. From[c] \in Device
    BY CallsAssumption
  <1>1. CASE <<From[c], c>> \in met
    BY <1>1 DEF Flow
  <1>2. CASE /\ starting[From[c]] # None /\ starting[From[c]].call = c
             /\ starting[From[c]].at \in {"invited", "ready"}
    <2>1. CASE PollCall(From[c])
      <3>1. Shows(From[c], c, FALSE)
        BY <1>t, <1>d, <1>2, <2>1, PollCallEffect
      <3>2. QED
        BY <3>1 DEF Shows
    <2>2. CASE ~PollCall(From[c])
      BY <1>d, <1>2, <2>2 DEF Beginnings, Starts
    <2>3. QED
      BY <2>1, <2>2
  <1>3. CASE invite[c] = "unsent"
    <2>1. PICK d \in Device :
            /\ starting[d] # None /\ starting[d].call = c
            /\ starting'[d] # None /\ starting'[d].call = c
            /\ starting'[d].at = "invited"
      BY <1>3 DEF Beginnings, Invites
    <2>2. d = From[c]
      BY <1>t, <2>1 DEF CallsInv, StartsInv
    <2>3. QED
      BY <2>1, <2>2
  <1>4. QED
    BY <1>1, <1>2, <1>3 DEF AloneInv, OfferedInv, Flow

\* How a call in a window comes to be accepted: by its user, or by a signal of the call.
LEMMA AcceptedBy ==
  ASSUME CallsInv, [Next]_vars, Moves, NEW d \in Device, NEW c \in Call, c \notin muddled',
         active'[d] # None, active'[d].call = c, active'[d].accepted
  PROVE  \/ In(d, c) /\ active[d].accepted
         \/ In(d, c) /\ Accept(d) /\ active[d].incoming
         \/ /\ In(d, c) /\ Hear(d)
            /\ \E s \in UnderWay : s.kind = "answer" /\ s.to = d /\ s.call = c
  <1>t. TypeInv /\ FlowInv
    BY DEF CallsInv, FlowInv
  <1>1. In(d, c)
    <2>1. \A k : ~Opens(d, k)
      BY DEF Opens, Shows
    <2>2. Keeps(d)
      BY <2>1 DEF Moves, Closes
    <2>3. QED
      BY <2>2 DEF Keeps, In
  <1>2. CASE Accept(d)
    BY <1>1, <1>2 DEF Accept
  <1>3. CASE Hear(d)
    <2>1. active'[d].accepted = (active[d].accepted \/ "answer" \in KindsHeard(d))
      BY <1>t, <1>3, HearEffect DEF Closes
    <2>2. CASE active[d].accepted
      BY <1>1, <2>2
    <2>3. CASE "answer" \in KindsHeard(d)
      <3>1. PICK s \in Heard(poll[d].signals) : s.kind = "answer"
        BY <2>3 DEF KindsHeard
      <3>2. s \in UnderWay /\ s.to = d /\ s.call = c
        BY <1>t, <1>1, <1>3, <3>1, HeardSignals DEF In
      <3>3. QED
        BY <1>1, <1>3, <3>1, <3>2
    <2>4. QED
      BY <2>1, <2>2, <2>3
  <1>4. CASE active'[d] = active[d]
    BY <1>1, <1>4
  <1>5. ASSUME PollCall(d) \/ Ring(d) \/ \E k \in Call : ShowInvite(d, k)
        PROVE  active'[d] = active[d]
    <2>1. CASE PollCall(d)
      BY <1>t, <2>1, PollCallEffect DEF Shows
    <2>2. CASE Ring(d)
      BY <1>t, <2>2, RingEffect DEF Shows
    <2>3. CASE \E k \in Call : ShowInvite(d, k)
      BY <1>t, <2>3, ShowInviteEffect DEF Shows
    <2>4. QED
      BY <1>5, <2>1, <2>2, <2>3
  <1>6. ASSUME NEW kind \in Ending, active[d] # None, Leave(d, kind)
        PROVE  FALSE
    BY <1>t, <1>6, LeaveEffect DEF Closes
  <1>7. ASSUME MediaDone(d) \/ MediaFails(d)
        PROVE  active'[d] = active[d]
    BY <1>t, <1>7, MediaDoneEffect, MediaFailsEffect
  <1>8. QED
    BY <1>t, <1>2, <1>3, <1>4, <1>5, <1>6, <1>7, OwnStep

LEMMA AnsweredStep ==
  ASSUME AloneInv, [Next]_vars, Flow, Moves
  PROVE  AnsweredInv'
  <1> SUFFICES ASSUME NEW c \in Call, c \notin muddled', In(From[c], c)',
                      active'[From[c]].accepted
               PROVE  <<To[c], c>> \in met'
    BY DEF AnsweredInv
  <1>t. CallsInv
    BY DEF AloneInv
  <1>d. From[c] \in Device /\ From[c] # To[c]
    BY CallsAssumption
  <1>1. CASE In(From[c], c) /\ active[From[c]].accepted
    BY <1>1 DEF AloneInv, AnsweredInv, Flow
  <1>2. CASE In(From[c], c) /\ active[From[c]].incoming
    BY <1>t, <1>d, <1>2, WindowEnds DEF In
  <1>3. CASE \E s \in UnderWay : s.kind = "answer" /\ s.call = c
    BY <1>t, <1>3 DEF CallsInv, SignalsInv, Flow
  <1>4. QED
    BY <1>t, <1>d, <1>1, <1>2, <1>3, AcceptedBy DEF In

LEMMA AloneStep == AloneInv /\ [Next]_vars => AloneInv'
  <1> SUFFICES ASSUME AloneInv, [Next]_vars
               PROVE  AloneInv'
    OBVIOUS
  <1>1. CallsInv /\ FlowInv
    BY DEF AloneInv, CallsInv
  <1>2. Flow /\ Moves /\ Beginnings
    BY <1>1, FlowStep, MovesStep, BeginningsStep
  <1>3. CallsInv'
    BY <1>1, CallsStep
  <1>4. QED
    BY <1>2, <1>3, EndingsStep, ToldStep, OfferedStep, AnsweredStep DEF AloneInv

LEMMA CallsInit == Init => AloneInv
  <1> SUFFICES ASSUME Init
               PROVE  AloneInv
    OBVIOUS
  <1>1. TypeInv
    BY TypeInit DEF Init, TypeInv, MediaOfCall
  <1>2. UnderWay = {}
    BY DEF Init, UnderWay, Unread, ToSet
  <1>3. CallsInv
    BY <1>1, <1>2 DEF Init, CallsInv, FlowInv, AnswersInv, WindowsInv, MetInv, StartsInv, SignalsInv
  <1>4. QED
    BY <1>2, <1>3, CallsAssumption
    DEF Init, AloneInv, EndingsInv, ToldInv, OfferedInv, AnsweredInv, Through, In

\* Nothing that is under way concerns a call when all is quiet about it.
LEMMA QuietCall ==
  ASSUME NEW c \in Call, Quiet(c)
  PROVE  /\ \A s \in UnderWay : s.call # c
         /\ \A d \in Device : starting[d] # None => starting[d].call # c
  <1>1. \A s \in posting \union ToSet(queue) : s.call # c
    BY DEF Quiet
  <1>2. \A d \in Device : \A s \in Unread(d) : s.call # c
    BY DEF Quiet, Unread, Calls
  <1>3. QED
    BY <1>1, <1>2 DEF Quiet, UnderWay

LEMMA AloneInvImplies == AloneInv => NobodyAlone
  <1> SUFFICES ASSUME AloneInv, NEW d \in Device, NEW c \in Call \ muddled,
                      In(d, c), active[d].accepted, Quiet(c)
               PROVE  In(Peer(d, c), c)
    BY DEF NobodyAlone
  <1>t. CallsInv
    BY DEF AloneInv
  <1>1. d \in Ends(c) /\ <<d, c>> \in met /\ invite[c] # "unsent"
    BY <1>t, WindowEnds DEF In, CallsInv, MetInv
  <1>2. Peer(d, c) \in Ends(c) /\ Peer(Peer(d, c), c) = d
    BY <1>1, Peers
  <1>3. <<Peer(d, c), c>> \in met
    <2>1. CASE d = To[c]
      <3>1. <<From[c], c>> \in met
        BY <1>1, QuietCall, CallsAssumption DEF AloneInv, OfferedInv
      <3>2. QED
        BY <1>1, <2>1, <3>1, Peers
    <2>2. CASE d = From[c]
      <3>1. <<To[c], c>> \in met
        BY <2>2 DEF AloneInv, AnsweredInv
      <3>2. QED
        BY <1>1, <2>2, <3>1, Peers
    <2>3. QED
      BY <1>1, <2>1, <2>2 DEF Ends
  <1>4. ~Through(Peer(d, c), c)
    <2>1. \A s \in UnderWay : s.call # c
      BY QuietCall
    <2>2. Through(Peer(d, c), c) => Through(d, c)
      BY <1>2, <2>1 DEF AloneInv, ToldInv
    <2>3. QED
      BY <2>2 DEF Through
  <1>5. QED
    BY <1>3, <1>4 DEF Through

\* For any number of devices and calls: once a call is quiet, whoever is in it and has
\* accepted it is not alone, whatever was clicked, timed out, fetched late or crossed on
\* its way, unless the call lost a signal or a client took one for another call's.
THEOREM NobodyAloneHolds == Spec => []NobodyAlone
  <1>1. AloneInv => NobodyAlone
    BY AloneInvImplies
  <1>2. QED
    BY <1>1, CallsInit, AloneStep, PTL DEF Spec

(***************************************************************************)
(* The sessions of a call: the end that started it offers, the other end   *)
(* replies, the first one applies the reply.                               *)
(***************************************************************************)
OffererStages == {"none", "offering", "offered", "applying", "applied"}
ReplierStages == {"none", "replying", "replied"}
Offers == {"offered", "applying", "applied"}

OnItsWay(kind, c) == \E s \in UnderWay : s.kind = kind /\ s.call = c

\* Each end makes its own kind of session, the caller one as soon as it is answered.
SessionsInv ==
  \A c \in Call : c \notin muddled =>
    /\ In(From[c], c) => /\ media[From[c]] \in OffererStages
                         /\ active[From[c]].accepted => media[From[c]] # "none"
    /\ In(To[c], c) => media[To[c]] \in ReplierStages

\* An offer goes to the end that replies, a reply to the one that offered.
PayloadsInv ==
  \A s \in UnderWay : s.call \notin muddled =>
    /\ s.kind = "webrtc-offer" => s.to = To[s.call]
    /\ s.kind = "webrtc-answer" => s.to = From[s.call]

\* There is no offer, session or reply at the other end before the caller has offered.
OffersFirst ==
  \A c \in Call :
    /\ c \notin muddled
    /\ \/ OnItsWay("webrtc-offer", c) \/ OnItsWay("webrtc-answer", c)
       \/ In(To[c], c) /\ media[To[c]] # "none"
    => <<From[c], c>> \in met /\ (In(From[c], c) => media[From[c]] \in Offers)

\* What was offered is on its way, or was taken up at the other end, if that is there.
OffersInv ==
  \A c \in Call : c \notin muddled /\ In(From[c], c) /\ media[From[c]] \in Offers =>
    \/ OnItsWay("webrtc-offer", c)
    \/ Through(To[c], c)
    \/ In(To[c], c) /\ media[To[c]] \in {"replying", "replied"}

\* What was replied is on its way, or was taken up by the caller, if that is there.
RepliesInv ==
  \A c \in Call : c \notin muddled /\ In(To[c], c) /\ media[To[c]] = "replied" =>
    \/ OnItsWay("webrtc-answer", c)
    \/ Through(From[c], c)
    \/ In(From[c], c) /\ media[From[c]] \in {"applying", "applied"}

MediaInv == CallsInv /\ SessionsInv /\ PayloadsInv /\ OffersFirst /\ OffersInv /\ RepliesInv

\* What a window hears that ends nothing, of a call that is not muddled by it.
LEMMA HeardOfCall ==
  ASSUME MediaInv, Flow, NEW d \in Device, NEW c \in Call, Hear(d), In(d, c), c \notin muddled'
  PROVE  /\ \A kind \in KindsHeard(d) : kind = "invite" \/ OnItsWay(kind, c)
         /\ d = From[c] => "webrtc-offer" \notin KindsHeard(d)
         /\ d = To[c] => "answer" \notin KindsHeard(d) /\ "webrtc-answer" \notin KindsHeard(d)
  <1>t. CallsInv /\ FlowInv /\ c \notin muddled
    BY DEF MediaInv, CallsInv, Flow
  <1>1. ASSUME NEW kind \in KindsHeard(d), kind # "invite"
        PROVE  \E s \in UnderWay : s.kind = kind /\ s.call = c /\ s.to = d
    <2>1. PICK s \in Heard(poll[d].signals) : s.kind = kind
      BY DEF KindsHeard
    <2>2. s \in UnderWay /\ s.to = d /\ s.call = c
      BY <1>t, <1>1, <2>1, HeardSignals DEF In
    <2>3. QED
      BY <2>1, <2>2
  <1>2. From[c] # To[c]
    BY CallsAssumption
  <1>3. ASSUME NEW s \in UnderWay, s.call = c, s.to = d
        PROVE  /\ d = From[c] => s.kind # "webrtc-offer"
               /\ d = To[c] => s.kind # "answer" /\ s.kind # "webrtc-answer"
    BY <1>t, <1>2, <1>3 DEF MediaInv, PayloadsInv, CallsInv, SignalsInv
  <1>4. QED
    BY <1>1, <1>3 DEF OnItsWay

\* What a session that was begun becomes while its call stays in the window.
LEMMA SessionSteps ==
  ASSUME MediaInv, [Next]_vars, Flow, Moves, NEW d \in Device, NEW c \in Call, c \notin muddled',
         In(d, c)'
  PROVE  \/ ~In(d, c) /\ media'[d] = "none" /\ ~active'[d].accepted /\ <<d, c>> \notin met
         \/ /\ In(d, c) /\ ~Hear(d) /\ media'[d] = media[d]
         \/ /\ In(d, c) /\ Hear(d)
            /\ media'[d] = MediaAfter(media[d], KindsHeard(d))
            /\ active'[d].accepted = (active[d].accepted \/ "answer" \in KindsHeard(d))
         \/ /\ In(d, c) /\ ~Hear(d) /\ MediaDone(d)
            /\ \/ /\ media[d] = "offering" /\ media'[d] = "offered"
                  /\ Sent(d, "webrtc-offer", c) \in UnderWay'
               \/ /\ media[d] = "replying" /\ media'[d] = "replied"
                  /\ Sent(d, "webrtc-answer", c) \in UnderWay'
               \/ media[d] = "applying" /\ media'[d] = "applied"
  <1>t. CallsInv /\ FlowInv /\ TypeInv
    BY DEF MediaInv, CallsInv, FlowInv
  <1>i. active'[d] # None /\ active'[d].call = c
    BY DEF In
  <1>1. CASE ~In(d, c)
    <2>1. PICK k \in Call : Opens(d, k)
      BY <1>1, <1>i DEF Moves, Keeps, Closes, In
    <2>2. k = c /\ ~active'[d].accepted
      BY <1>i, <2>1 DEF Opens, Shows
    <2>3. <<d, c>> \notin met
      BY <1>t, <2>1, <2>2, NewlyMet
    <2>4. active[d] = None
      BY <2>1, <2>2 DEF Opens
    <2>4a. media' = media
      <3>1. CASE PollCall(d) \/ Ring(d) \/ \E j \in Call : ShowInvite(d, j)
        BY <1>t, <3>1, PollCallEffect, RingEffect, ShowInviteEffect
      <3>2. CASE Hear(d) \/ Accept(d) \/ MediaDone(d) \/ MediaFails(d)
        BY <1>t, <2>4, <3>2, HearEffect, AcceptEffect, MediaDoneEffect, MediaFailsEffect
      <3>3. QED
        BY <1>t, <1>i, <2>4, <3>1, <3>2, OwnStep
    <2>5. media'[d] = "none"
      BY <1>t, <2>4, <2>4a DEF TypeInv, MediaOfCall
    <2>6. QED
      BY <1>1, <2>2, <2>3, <2>5
  <1>2. CASE In(d, c) /\ Hear(d)
    BY <1>t, <1>i, <1>2, HearEffect DEF Closes
  <1>3. CASE In(d, c) /\ ~Hear(d) /\ media'[d] # media[d]
    <2>1. CASE MediaDone(d)
      BY <1>t, <1>3, <2>1, MediaDoneEffect DEF In, UnderWay
    <2>2. CASE MediaFails(d)
      BY <1>t, <1>3, <2>2, MediaFailsEffect DEF In
    <2>3. CASE \E kind \in Ending : active[d] # None /\ Leave(d, kind)
      BY <1>t, <1>i, <2>3, LeaveEffect DEF Closes
    <2>4. ~PollCall(d) /\ ~Ring(d) /\ ~Accept(d) /\ \A k \in Call : ~ShowInvite(d, k)
      BY <1>t, <1>3, PollCallEffect, RingEffect, AcceptEffect, ShowInviteEffect
    <2>5. QED
      BY <1>t, <1>3, <2>1, <2>2, <2>3, <2>4, OwnStep
  <1>4. QED
    BY <1>1, <1>2, <1>3

\* What signals make of the session of either end.
LEMMA CallerAfter ==
  ASSUME NEW was \in OffererStages, NEW kinds, "webrtc-offer" \notin kinds
  PROVE  /\ MediaAfter(was, kinds) \in OffererStages
         /\ MediaAfter(was, kinds) = "none" => was = "none" /\ "answer" \notin kinds
         /\ MediaAfter(was, kinds) \in Offers <=> was \in Offers
         /\ was \in {"applying", "applied"} => MediaAfter(was, kinds) \in {"applying", "applied"}
         /\ was \in Offers /\ "webrtc-answer" \in kinds =>
              MediaAfter(was, kinds) \in {"applying", "applied"}
  BY DEF OffererStages, Offers, MediaAfter, Connected

LEMMA CalleeAfter ==
  ASSUME NEW was \in ReplierStages, NEW kinds, "answer" \notin kinds, "webrtc-answer" \notin kinds
  PROVE  /\ MediaAfter(was, kinds) \in ReplierStages
         /\ MediaAfter(was, kinds) # "none" <=> was # "none" \/ "webrtc-offer" \in kinds
         /\ MediaAfter(was, kinds) = "replied" <=> was = "replied"
  BY DEF ReplierStages, MediaAfter, Connected

LEMMA CallerSession ==
  ASSUME MediaInv, [Next]_vars, Flow, Moves, NEW c \in Call, c \notin muddled',
         NEW d, d = From[c], In(d, c)'
  PROVE  /\ media'[d] \in OffererStages
         /\ active'[d].accepted => media'[d] # "none"
         /\ In(d, c) /\ media[d] \in Offers => media'[d] \in Offers
         /\ In(d, c) /\ media[d] \in {"applying", "applied"} => media'[d] \in {"applying", "applied"}
         /\ media'[d] \in Offers =>
              (In(d, c) /\ media[d] \in Offers) \/ Sent(d, "webrtc-offer", c) \in UnderWay'
         /\ In(d, c) /\ Hear(d) /\ media[d] \in Offers /\ "webrtc-answer" \in KindsHeard(d) =>
              media'[d] \in {"applying", "applied"}
         /\ ~In(d, c) => <<d, c>> \notin met
  <1>t. CallsInv /\ c \notin muddled /\ d \in Device
    BY CallsAssumption DEF MediaInv, Flow
  <1>s. In(d, c) => media[d] \in OffererStages /\ (active[d].accepted => media[d] # "none")
    BY <1>t DEF MediaInv, SessionsInv
  <1>1. CASE ~In(d, c) /\ media'[d] = "none" /\ ~active'[d].accepted /\ <<d, c>> \notin met
    BY <1>1 DEF OffererStages, Offers
  <1>2. CASE In(d, c) /\ ~Hear(d) /\ media'[d] = media[d]
    <2>1. active'[d].accepted => active[d].accepted
      <3>1. ~active[d].incoming
        BY <1>t, <1>2, WindowEnds, CallsAssumption DEF In
      <3>2. QED
        BY <1>t, <1>2, <3>1, AcceptedBy DEF In
    <2>2. QED
      BY <1>s, <1>2, <2>1
  <1>3. CASE /\ In(d, c) /\ Hear(d)
             /\ media'[d] = MediaAfter(media[d], KindsHeard(d))
             /\ active'[d].accepted = (active[d].accepted \/ "answer" \in KindsHeard(d))
    <2>1. "webrtc-offer" \notin KindsHeard(d)
      BY <1>t, <1>3, HeardOfCall
    <2>2. active'[d].accepted => media'[d] # "none"
      <3>1. active'[d].accepted => active[d].accepted \/ "answer" \in KindsHeard(d)
        BY <1>3, Zenon
      <3>2. active[d].accepted \/ "answer" \in KindsHeard(d) => media'[d] # "none"
        BY <1>s, <1>3, <2>1, CallerAfter
      <3>3. QED
        BY <3>1, <3>2
    <2>3. QED
      BY <1>s, <1>3, <2>1, <2>2, CallerAfter
  <1>4. CASE /\ In(d, c) /\ ~Hear(d) /\ MediaDone(d)
             /\ \/ /\ media[d] = "offering" /\ media'[d] = "offered"
                   /\ Sent(d, "webrtc-offer", c) \in UnderWay'
                \/ media[d] = "replying" /\ media'[d] = "replied"
                \/ media[d] = "applying" /\ media'[d] = "applied"
    BY <1>s, <1>4 DEF OffererStages, Offers
  <1>5. QED
    BY <1>t, <1>1, <1>2, <1>3, <1>4, SessionSteps

LEMMA CalleeSession ==
  ASSUME MediaInv, [Next]_vars, Flow, Moves, NEW c \in Call, c \notin muddled',
         NEW d, d = To[c], In(d, c)'
  PROVE  /\ media'[d] \in ReplierStages
         /\ In(d, c) /\ media[d] # "none" => media'[d] # "none"
         /\ media'[d] = "replied" =>
              (In(d, c) /\ media[d] = "replied") \/ Sent(d, "webrtc-answer", c) \in UnderWay'
         /\ media'[d] # "none" => (In(d, c) /\ media[d] # "none") \/ OnItsWay("webrtc-offer", c)
         /\ In(d, c) /\ Hear(d) /\ "webrtc-offer" \in KindsHeard(d) => media'[d] # "none"
  <1>t. CallsInv /\ c \notin muddled /\ d \in Device
    BY CallsAssumption DEF MediaInv, Flow
  <1>s. In(d, c) => media[d] \in ReplierStages
    BY <1>t DEF MediaInv, SessionsInv
  <1>1. CASE ~In(d, c) /\ media'[d] = "none"
    BY <1>1 DEF ReplierStages
  <1>2. CASE In(d, c) /\ ~Hear(d) /\ media'[d] = media[d]
    BY <1>s, <1>2
  <1>3. CASE /\ In(d, c) /\ Hear(d)
             /\ media'[d] = MediaAfter(media[d], KindsHeard(d))
    <2>1. "answer" \notin KindsHeard(d) /\ "webrtc-answer" \notin KindsHeard(d)
      BY <1>t, <1>3, HeardOfCall
    <2>2. "webrtc-offer" \in KindsHeard(d) => OnItsWay("webrtc-offer", c)
      BY <1>t, <1>3, HeardOfCall
    <2>3. QED
      BY <1>s, <1>3, <2>1, <2>2, CalleeAfter
  <1>4. CASE /\ In(d, c) /\ ~Hear(d) /\ MediaDone(d)
             /\ \/ media[d] = "offering" /\ media'[d] = "offered"
                \/ /\ media[d] = "replying" /\ media'[d] = "replied"
                   /\ Sent(d, "webrtc-answer", c) \in UnderWay'
                \/ media[d] = "applying" /\ media'[d] = "applied"
    BY <1>s, <1>4 DEF ReplierStages
  <1>5. QED
    BY <1>t, <1>1, <1>2, <1>3, <1>4, SessionSteps

LEMMA SessionsStep ==
  ASSUME MediaInv, [Next]_vars, Flow, Moves
  PROVE  SessionsInv'
  BY CallerSession, CalleeSession DEF SessionsInv

\* Who sends an offer or a reply: the end that has just made its session.
LEMMA PayloadComes ==
  ASSUME MediaInv, [Next]_vars, Flow, NEW s, Comes(s), s.call \notin muddled',
         s.kind \in {"webrtc-offer", "webrtc-answer"}
  PROVE  \E d \in Device :
           /\ s.call \in Call /\ In(d, s.call) /\ In(d, s.call)'
           /\ <<d, s.call>> \in met
           /\ \/ /\ s.kind = "webrtc-offer" /\ media[d] = "offering" /\ media'[d] = "offered"
                 /\ d = From[s.call] /\ s.to = To[s.call]
              \/ /\ s.kind = "webrtc-answer" /\ media[d] = "replying" /\ media'[d] = "replied"
                 /\ d = To[s.call] /\ s.to = From[s.call]
  <1>t. CallsInv /\ TypeInv
    BY DEF MediaInv, CallsInv, FlowInv
  <1>1. PICK d \in Device :
          /\ active[d] # None /\ active[d].call \in Call /\ MediaDone(d)
          /\ \/ /\ media[d] = "offering" /\ media'[d] = "offered"
                /\ s = Sent(d, "webrtc-offer", active[d].call)
             \/ /\ media[d] = "replying" /\ media'[d] = "replied"
                /\ s = Sent(d, "webrtc-answer", active[d].call)
    <2>1. \A d, c, kind : kind \in Ending \union {"invite", "answer"} =>
            Sent(d, kind, c).kind \notin {"webrtc-offer", "webrtc-answer"}
      BY SignalFields DEF Ending
    <2>2. PICK d \in Device :
            \/ s = Sent(d, "invite", starting[d].call)
            \/ /\ active[d] # None /\ active[d].call \in Call
               /\ \/ \E kind \in Ending : s = Sent(d, kind, active[d].call)
                  \/ s = Sent(d, "answer", active[d].call)
                  \/ /\ MediaDone(d) /\ media[d] = "offering" /\ media'[d] = "offered"
                     /\ s = Sent(d, "webrtc-offer", active[d].call)
                  \/ /\ MediaDone(d) /\ media[d] = "replying" /\ media'[d] = "replied"
                     /\ s = Sent(d, "webrtc-answer", active[d].call)
            \/ \E c \in Call : s = Sent(d, "busy", c)
      BY DEF Comes
    <2>3. "busy" \in Ending
      BY DEF Ending
    <2>4. QED
      BY <2>1, <2>2, <2>3
  <1>2. s.call = active[d].call /\ s.to = Peer(d, active[d].call)
    BY <1>1, SignalFields
  <1>3. active' = active
    BY <1>t, <1>1, MediaDoneEffect
  <1>4. In(d, s.call) /\ In(d, s.call)'
    BY <1>1, <1>2, <1>3 DEF In
  <1>5. d \in Ends(s.call) /\ <<d, s.call>> \in met /\ s.call \in Call
    BY <1>t, <1>1, <1>2, WindowEnds
  <1>6. s.call \notin muddled
    BY DEF Flow
  <1>7. CASE media[d] = "offering"
    <2>1. d = From[s.call]
      BY <1>4, <1>5, <1>6, <1>7 DEF Ends, MediaInv, SessionsInv, ReplierStages
    <2>2. s.kind = "webrtc-offer" /\ s.to = To[s.call]
      BY <1>1, <1>2, <1>5, <1>7, <2>1, SignalFields, Peers
    <2>3. QED
      BY <1>1, <1>4, <1>5, <1>7, <2>1, <2>2
  <1>8. CASE media[d] = "replying"
    <2>1. d = To[s.call]
      BY <1>4, <1>5, <1>6, <1>8 DEF Ends, MediaInv, SessionsInv, OffererStages
    <2>2. s.kind = "webrtc-answer" /\ s.to = From[s.call]
      BY <1>1, <1>2, <1>5, <1>8, <2>1, SignalFields, Peers
    <2>3. QED
      BY <1>1, <1>4, <1>5, <1>8, <2>1, <2>2
  <1>9. QED
    BY <1>1, <1>7, <1>8

LEMMA PayloadsStep ==
  ASSUME MediaInv, [Next]_vars, Flow
  PROVE  PayloadsInv'
  <1> SUFFICES ASSUME NEW s \in UnderWay', s.call \notin muddled'
               PROVE  /\ s.kind = "webrtc-offer" => s.to = To[s.call]
                      /\ s.kind = "webrtc-answer" => s.to = From[s.call]
    BY DEF PayloadsInv
  <1>1. CASE s \in UnderWay
    BY <1>1 DEF MediaInv, PayloadsInv, Flow
  <1>2. CASE Comes(s) /\ s.kind \in {"webrtc-offer", "webrtc-answer"}
    BY <1>2, PayloadComes
  <1>3. QED
    BY <1>1, <1>2 DEF Flow

\* Who has a call keeps it or is through with it.
LEMMA StaysOrThrough ==
  ASSUME CallsInv, Flow, NEW d \in Device, NEW c \in Call, In(d, c)
  PROVE  In(d, c)' \/ Through(d, c)'
  <1>1. <<d, c>> \in met'
    BY WindowEnds DEF In, Flow
  <1>2. QED
    BY <1>1 DEF Through

LEMMA OffersFirstStep ==
  ASSUME MediaInv, [Next]_vars, Flow, Moves
  PROVE  OffersFirst'
  <1> SUFFICES ASSUME NEW c \in Call, c \notin muddled',
                      \/ OnItsWay("webrtc-offer", c)' \/ OnItsWay("webrtc-answer", c)'
                      \/ In(To[c], c)' /\ media'[To[c]] # "none"
               PROVE  <<From[c], c>> \in met' /\ (In(From[c], c)' => media'[From[c]] \in Offers)
    BY DEF OffersFirst
  <1> DEFINE begun == \/ OnItsWay("webrtc-offer", c) \/ OnItsWay("webrtc-answer", c)
                      \/ In(To[c], c) /\ media[To[c]] # "none"
  <1>t. CallsInv /\ c \notin muddled
    BY DEF MediaInv, Flow
  <1>1. CASE begun
    <2>1. <<From[c], c>> \in met /\ (In(From[c], c) => media[From[c]] \in Offers)
      BY <1>t, <1>1 DEF MediaInv, OffersFirst
    <2>2. QED
      BY <2>1, CallerSession DEF Flow
  <1>2. ASSUME NEW s \in UnderWay', s.call = c, s.kind \in {"webrtc-offer", "webrtc-answer"}
        PROVE  \/ begun
               \/ <<From[c], c>> \in met /\ media'[From[c]] = "offered"
    <2>1. CASE s \in UnderWay
      BY <1>2, <2>1 DEF OnItsWay
    <2>2. CASE Comes(s)
      BY <1>2, <2>2, PayloadComes
    <2>3. QED
      BY <2>1, <2>2 DEF Flow
  <1>3. In(To[c], c)' /\ media'[To[c]] # "none" => begun
    BY CalleeSession
  <1>4. CASE OnItsWay("webrtc-offer", c)' \/ OnItsWay("webrtc-answer", c)'
    <2>1. PICK s \in UnderWay' : s.call = c /\ s.kind \in {"webrtc-offer", "webrtc-answer"}
      BY <1>4 DEF OnItsWay
    <2>2. CASE <<From[c], c>> \in met /\ media'[From[c]] = "offered"
      BY <2>2 DEF Flow, Offers
    <2>3. QED
      BY <1>1, <1>2, <2>1, <2>2
  <1>5. QED
    BY <1>1, <1>3, <1>4

\* An offer or a reply is not lost: it is on its way still, or has been of use.
LEMMA PayloadArrives ==
  ASSUME MediaInv, [Next]_vars, Flow, Moves, NEW s \in UnderWay, s.call \notin muddled',
         s.kind \in {"webrtc-offer", "webrtc-answer"}
  PROVE  \/ s \in UnderWay'
         \/ Through(s.to, s.call)'
         \/ /\ In(s.to, s.call) /\ In(s.to, s.call)' /\ Hear(s.to)
            /\ s.kind \in KindsHeard(s.to)
  <1>t. CallsInv /\ TypeInv /\ TypeOK /\ FlowInv
    BY DEF MediaInv, CallsInv, FlowInv, TypeInv
  <1>1. s.call \in Call /\ s.to \in Device
    BY <1>t, UnderWayTypes
  <1>2. CASE Unheard(s)
    <2>1. Through(s.to, s.call)
      BY <1>2 DEF Unheard
    <2>2. QED
      BY <1>t, <1>1, <2>1, ThroughStays
  <1>3. CASE Received(s)
    <2>1. In(s.to, s.call)
      BY <1>3 DEF Received
    <2>2. CASE Closes(s.to)
      BY <1>t, <1>1, <2>1, <2>2, ClosedIsThrough DEF In
    <2>3. CASE Hear(s.to) /\ s \in Heard(poll[s.to].signals) /\ active'[s.to] # None
      <3>1. s.kind \in KindsHeard(s.to)
        BY <2>3 DEF KindsHeard
      <3>2. In(s.to, s.call)'
        BY <1>t, <1>1, <2>1, <2>3, HearEffect DEF In, Closes
      <3>3. QED
        BY <2>1, <2>3, <3>1, <3>2
    <2>4. QED
      BY <1>3, <2>2, <2>3 DEF Received
  <1>4. QED
    BY <1>2, <1>3 DEF Flow

LEMMA OffersStep ==
  ASSUME MediaInv, [Next]_vars, Flow, Moves
  PROVE  OffersInv'
  <1> SUFFICES ASSUME NEW c \in Call, c \notin muddled', In(From[c], c)', media'[From[c]] \in Offers
               PROVE  \/ OnItsWay("webrtc-offer", c)'
                      \/ Through(To[c], c)'
                      \/ In(To[c], c)' /\ media'[To[c]] \in {"replying", "replied"}
    BY DEF OffersInv
  <1>t. CallsInv /\ c \notin muddled /\ To[c] \in Device /\ From[c] \in Device
    BY CallsAssumption DEF MediaInv, Flow
  <1>r. ReplierStages \ {"none"} = {"replying", "replied"}
    BY DEF ReplierStages
  <1>1. CASE Sent(From[c], "webrtc-offer", c) \in UnderWay'
    BY <1>1, SignalFields DEF OnItsWay
  <1>2. CASE In(From[c], c) /\ media[From[c]] \in Offers
    <2>1. ASSUME NEW s \in UnderWay, s.kind = "webrtc-offer", s.call = c
          PROVE  \/ OnItsWay("webrtc-offer", c)'
                 \/ Through(To[c], c)'
                 \/ In(To[c], c)' /\ media'[To[c]] \in {"replying", "replied"}
      <3>1. s.to = To[c]
        BY <1>t, <2>1 DEF MediaInv, PayloadsInv
      <3>2. CASE s \in UnderWay'
        BY <2>1, <3>2 DEF OnItsWay
      <3>3. CASE /\ In(To[c], c) /\ In(To[c], c)' /\ Hear(To[c])
                 /\ "webrtc-offer" \in KindsHeard(To[c])
        BY <1>r, <3>3, CalleeSession
      <3>4. Through(s.to, s.call)' => Through(To[c], c)'
        BY <2>1, <3>1
      <3>5. QED
        BY <2>1, <3>1, <3>2, <3>3, <3>4, PayloadArrives
    <2>2. CASE Through(To[c], c)
      BY <1>t, <2>2, ThroughStays
    <2>3. CASE In(To[c], c) /\ media[To[c]] \in {"replying", "replied"}
      <3>1. In(To[c], c)' \/ Through(To[c], c)'
        BY <1>t, <2>3, StaysOrThrough
      <3>2. In(To[c], c)' => media'[To[c]] \in {"replying", "replied"}
        BY <1>r, <2>3, CalleeSession
      <3>3. QED
        BY <3>1, <3>2
    <2>4. QED
      BY <1>t, <1>2, <2>1, <2>2, <2>3 DEF MediaInv, OffersInv, OnItsWay
  <1>3. QED
    BY <1>1, <1>2, CallerSession

LEMMA RepliesStep ==
  ASSUME MediaInv, [Next]_vars, Flow, Moves
  PROVE  RepliesInv'
  <1> SUFFICES ASSUME NEW c \in Call, c \notin muddled', In(To[c], c)', media'[To[c]] = "replied"
               PROVE  \/ OnItsWay("webrtc-answer", c)'
                      \/ Through(From[c], c)'
                      \/ In(From[c], c)' /\ media'[From[c]] \in {"applying", "applied"}
    BY DEF RepliesInv
  <1>t. CallsInv /\ c \notin muddled /\ To[c] \in Device /\ From[c] \in Device
    BY CallsAssumption DEF MediaInv, Flow
  <1>1. CASE Sent(To[c], "webrtc-answer", c) \in UnderWay'
    BY <1>1, SignalFields DEF OnItsWay
  <1>2. CASE In(To[c], c) /\ media[To[c]] = "replied"
    <2>1. ASSUME NEW s \in UnderWay, s.kind = "webrtc-answer", s.call = c
          PROVE  \/ OnItsWay("webrtc-answer", c)'
                 \/ Through(From[c], c)'
                 \/ In(From[c], c)' /\ media'[From[c]] \in {"applying", "applied"}
      <3>1. s.to = From[c]
        BY <1>t, <2>1 DEF MediaInv, PayloadsInv
      <3>2. CASE s \in UnderWay'
        BY <2>1, <3>2 DEF OnItsWay
      <3>3. CASE /\ In(From[c], c) /\ In(From[c], c)' /\ Hear(From[c])
                 /\ "webrtc-answer" \in KindsHeard(From[c])
        <4>1. media[From[c]] \in Offers
          BY <1>t, <2>1, <3>3 DEF MediaInv, OffersFirst, OnItsWay
        <4>2. QED
          BY <3>3, <4>1, CallerSession
      <3>4. Through(s.to, s.call)' => Through(From[c], c)'
        BY <2>1, <3>1
      <3>5. QED
        BY <2>1, <3>1, <3>2, <3>3, <3>4, PayloadArrives
    <2>2. CASE Through(From[c], c)
      BY <1>t, <2>2, ThroughStays
    <2>3. CASE In(From[c], c) /\ media[From[c]] \in {"applying", "applied"}
      <3>1. In(From[c], c)' \/ Through(From[c], c)'
        BY <1>t, <2>3, StaysOrThrough
      <3>2. In(From[c], c)' => media'[From[c]] \in {"applying", "applied"}
        BY <2>3, CallerSession
      <3>3. QED
        BY <3>1, <3>2
    <2>4. QED
      BY <1>t, <1>2, <2>1, <2>2, <2>3 DEF MediaInv, RepliesInv, OnItsWay
  <1>3. QED
    BY <1>1, <1>2, CalleeSession

LEMMA MediaStep == MediaInv /\ [Next]_vars => MediaInv'
  <1> SUFFICES ASSUME MediaInv, [Next]_vars
               PROVE  MediaInv'
    OBVIOUS
  <1>1. CallsInv /\ FlowInv
    BY DEF MediaInv, CallsInv
  <1>2. Flow /\ Moves
    BY <1>1, FlowStep, MovesStep
  <1>3. CallsInv'
    BY <1>1, CallsStep
  <1>4. QED
    BY <1>2, <1>3, SessionsStep, PayloadsStep, OffersFirstStep, OffersStep, RepliesStep
    DEF MediaInv

LEMMA MediaInit == Init => MediaInv
  <1> SUFFICES ASSUME Init
               PROVE  MediaInv
    OBVIOUS
  <1>1. UnderWay = {}
    BY DEF Init, UnderWay, Unread, ToSet
  <1>2. \A d \in Device, c \in Call : ~In(d, c)
    BY DEF Init, In
  <1>3. CallsInv
    BY CallsInit DEF AloneInv
  <1>4. QED
    BY <1>1, <1>2, <1>3, CallsAssumption
    DEF MediaInv, SessionsInv, PayloadsInv, OffersFirst, OffersInv, RepliesInv, OnItsWay

LEMMA MediaInvImplies == MediaInv => MediaMade
  <1> SUFFICES ASSUME MediaInv, NEW c \in Call \ muddled, Quiet(c),
                      \A d \in {From[c], To[c]} :
                        /\ In(d, c) /\ active[d].accepted
                        /\ media[d] \notin {"offering", "replying", "applying"}
               PROVE  media[From[c]] = "applied" /\ media[To[c]] = "replied"
    BY DEF MediaMade
  <1>1. \A kind : ~OnItsWay(kind, c)
    BY QuietCall DEF OnItsWay
  <1>2. ~Through(From[c], c) /\ ~Through(To[c], c)
    BY DEF Through
  <1>3. media[From[c]] \in {"offered", "applied"}
    BY DEF MediaInv, SessionsInv, OffererStages
  <1>4. media[To[c]] = "replied"
    BY <1>1, <1>2, <1>3 DEF MediaInv, OffersInv, Offers
  <1>5. QED
    BY <1>1, <1>2, <1>3, <1>4 DEF MediaInv, RepliesInv

\* For any number of devices and calls: once both ends have accepted a call and all is
\* quiet about it, the caller has applied the reply that the other end made to its offer,
\* unless a signal of the call was lost or misdirected.
THEOREM MediaMadeHolds == Spec => []MediaMade
  <1>1. MediaInv => MediaMade
    BY MediaInvImplies
  <1>2. QED
    BY <1>1, MediaInit, MediaStep, PTL DEF Spec

(***************************************************************************)
(* Nothing starts before somebody has clicked Accept.                      *)
(***************************************************************************)
\* A window that shows a call as accepted, or has a session for it, shows one whose
\* Accept was clicked: MediaAfterAccept for both ends, and the cause of every exception.
AcceptedFirst ==
  \A c \in Call \ muddled, d \in Device :
    In(d, c) /\ (active[d].accepted \/ media[d] # "none") => c \in accepted

\* So do the signals that make a client accept a call or make a session for it.
ClickedInv ==
  /\ \A s \in UnderWay : s.kind = "answer" => s.call \in accepted
  /\ \A s \in UnderWay :
       s.kind \in {"webrtc-offer", "webrtc-answer"} /\ s.call \notin muddled => s.call \in accepted

AcceptedInv == MediaInv /\ ClickedInv /\ AcceptedFirst

\* No call is forgotten to have been accepted.
LEMMA AcceptedGrows == [Next]_vars => accepted \subseteq accepted'
  <1> SUFFICES ASSUME [Next]_vars
               PROVE  accepted \subseteq accepted'
    OBVIOUS
  <1>1. ASSUME NEW d \in Device, StartInvite(d) \/ StartSignal(d) \/ StartFails(d) \/ PollCall(d)
        PROVE  accepted' = accepted
    BY <1>1 DEF StartInvite, StartSignal, StartFails, PollCall, Push, history
  <1>2. ASSUME NEW d \in Device, PollStart(d) \/ PollFetch(d) \/ Ring(d) \/ Hear(d)
        PROVE  accepted' = accepted
    BY <1>2 DEF PollStart, PollFetch, Ring, Hear, history
  <1>3. ASSUME NEW d \in Device, Accept(d)
        PROVE  accepted \subseteq accepted'
    BY <1>3 DEF Accept
  <1>4. ASSUME NEW d \in Device, Decline(d) \/ HangUp(d) \/ NoAnswer(d)
        PROVE  accepted' = accepted
    BY <1>4 DEF Decline, HangUp, NoAnswer, Click, Leave
  <1>5. ASSUME NEW d \in Device, MediaDone(d) \/ MediaFails(d)
        PROVE  accepted' = accepted
    BY <1>5 DEF MediaDone, MediaFails, history
  <1>6. ASSUME NEW d \in Device, NEW c \in Call, StartCall(d, c) \/ ShowInvite(d, c)
        PROVE  accepted' = accepted
    BY <1>6 DEF StartCall, ShowInvite, history
  <1>7. ASSUME NEW d \in Device, NEW call, StrayFetch(d, call)
        PROVE  accepted' = accepted
    BY <1>7 DEF StrayFetch
  <1>8. ASSUME NEW s \in posting, Post(s)
        PROVE  accepted' = accepted
    BY <1>8 DEF Post, Push
  <1>9. CASE Restart
    BY <1>9 DEF Restart
  <1>10. CASE UNCHANGED vars
    BY <1>10 DEF vars, history
  <1>11. QED
    BY <1>1, <1>2, <1>3, <1>4, <1>5, <1>6, <1>7, <1>8, <1>9, <1>10 DEF Next

\* Only a click sends an answer, only a session of an accepted call sends a payload.
LEMMA ClickedStep ==
  ASSUME AcceptedInv, [Next]_vars, Flow
  PROVE  ClickedInv'
  <1>t. MediaInv /\ accepted \subseteq accepted' /\ muddled \subseteq muddled'
    BY AcceptedGrows DEF AcceptedInv, Flow
  <1>1. ASSUME NEW s \in UnderWay', s.kind = "answer"
        PROVE  s.call \in accepted'
    <2>1. CASE s \in UnderWay
      BY <1>t, <1>1, <2>1 DEF AcceptedInv, ClickedInv
    <2>2. CASE Comes(s)
      <3>1. PICK d \in Device : Accept(d) /\ s = Sent(d, "answer", active[d].call)
        <4>1. \A d, c, kind : kind # "answer" => Sent(d, kind, c).kind # "answer"
          BY SignalFields
        <4>2. \A kind \in Ending : kind # "answer"
          BY DEF Ending
        <4>3. QED
          BY <1>1, <2>2, <4>1, <4>2 DEF Comes
      <3>2. s.call = active[d].call
        BY <3>1, SignalFields
      <3>3. QED
        BY <3>1, <3>2 DEF Accept
    <2>3. QED
      BY <2>1, <2>2 DEF Flow
  <1>2. ASSUME NEW s \in UnderWay', s.kind \in {"webrtc-offer", "webrtc-answer"},
               s.call \notin muddled'
        PROVE  s.call \in accepted'
    <2>1. CASE s \in UnderWay
      BY <1>t, <1>2, <2>1 DEF AcceptedInv, ClickedInv
    <2>2. CASE Comes(s)
      <3>1. PICK d \in Device : /\ s.call \in Call /\ In(d, s.call)
                                /\ media[d] \in {"offering", "replying"}
        BY <1>t, <1>2, <2>2, PayloadComes
      <3>2. s.call \in accepted
        BY <1>t, <1>2, <3>1 DEF AcceptedInv, AcceptedFirst
      <3>3. QED
        BY <1>t, <3>2
    <2>3. QED
      BY <2>1, <2>2 DEF Flow
  <1>3. QED
    BY <1>1, <1>2 DEF ClickedInv

\* A session begins with an answer or an offer.
LEMMA SessionBegins ==
  ASSUME NEW kinds, "answer" \notin kinds, "webrtc-offer" \notin kinds
  PROVE  MediaAfter("none", kinds) = "none"
  BY DEF MediaAfter, Connected

LEMMA AcceptedFirstStep ==
  ASSUME AcceptedInv, [Next]_vars, Flow, Moves
  PROVE  AcceptedFirst'
  <1> SUFFICES ASSUME NEW c \in Call, c \notin muddled', NEW d \in Device, In(d, c)',
                      active'[d].accepted \/ media'[d] # "none"
               PROVE  c \in accepted'
    BY DEF AcceptedFirst
  <1>t. /\ MediaInv /\ CallsInv /\ c \notin muddled
        /\ accepted \subseteq accepted'
        /\ active'[d] # None /\ active'[d].call = c
    BY AcceptedGrows DEF AcceptedInv, MediaInv, Flow, In
  <1>1. In(d, c) /\ (active[d].accepted \/ media[d] # "none") => c \in accepted
    BY <1>t DEF AcceptedInv, AcceptedFirst
  <1>2. OnItsWay("answer", c) \/ OnItsWay("webrtc-offer", c) => c \in accepted
    BY <1>t DEF AcceptedInv, ClickedInv, OnItsWay
  <1>3. CASE active'[d].accepted
    <2>1. CASE In(d, c) /\ active[d].accepted
      BY <1>t, <1>1, <2>1
    <2>2. CASE In(d, c) /\ Accept(d)
      BY <2>2 DEF Accept, In
    <2>3. CASE \E s \in UnderWay : s.kind = "answer" /\ s.call = c
      BY <1>t, <1>2, <2>3 DEF OnItsWay
    <2>4. QED
      BY <1>t, <1>3, <2>1, <2>2, <2>3, AcceptedBy
  <1>4. CASE media'[d] # "none" /\ ~active'[d].accepted
    <2>1. CASE In(d, c) /\ media[d] # "none"
      BY <1>t, <1>1, <2>1
    <2>2. CASE In(d, c) /\ Hear(d) /\ media'[d] = MediaAfter(media[d], KindsHeard(d))
               /\ media[d] = "none"
      <3>1. "answer" \in KindsHeard(d) \/ "webrtc-offer" \in KindsHeard(d)
        BY <1>4, <2>2, SessionBegins
      <3>2. OnItsWay("answer", c) \/ OnItsWay("webrtc-offer", c)
        BY <1>t, <2>2, <3>1, HeardOfCall
      <3>3. QED
        BY <1>t, <1>2, <3>2
    <2>3. QED
      BY <1>t, <1>4, <2>1, <2>2, SessionSteps
  <1>5. QED
    BY <1>3, <1>4

\* For any number of devices and calls: no client takes a call for accepted, and none
\* makes a session for its sound, before the user who is called has clicked Accept;
\* unless a signal of the call was lost or misdirected.
THEOREM AcceptedFirstHolds == Spec => []AcceptedFirst
  <1>1. Init => AcceptedInv
    <2> SUFFICES ASSUME Init
                 PROVE  AcceptedInv
      OBVIOUS
    <2>1. UnderWay = {}
      BY DEF Init, UnderWay, Unread, ToSet
    <2>2. \A d \in Device, c \in Call : ~In(d, c)
      BY DEF Init, In
    <2>3. QED
      BY <2>1, <2>2, MediaInit DEF AcceptedInv, ClickedInv, AcceptedFirst
  <1>2. AcceptedInv /\ [Next]_vars => AcceptedInv'
    <2> SUFFICES ASSUME AcceptedInv, [Next]_vars
                 PROVE  AcceptedInv'
      OBVIOUS
    <2>1. MediaInv /\ FlowInv
      BY DEF AcceptedInv, MediaInv, CallsInv
    <2>2. Flow /\ Moves
      BY <2>1, FlowStep, MovesStep
    <2>3. QED
      BY <2>1, <2>2, MediaStep, ClickedStep, AcceptedFirstStep DEF AcceptedInv
  <1>3. AcceptedInv => AcceptedFirst
    BY DEF AcceptedInv
  <1>4. QED
    BY <1>1, <1>2, <1>3, PTL DEF Spec
=============================================================================
