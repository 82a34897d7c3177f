------------------------------- MODULE Calls -------------------------------
(***************************************************************************)
(* Calls between clients: how a call is started, rings, is accepted and    *)
(* ends, over signals that wait in the server's queue (SignalQueue) and an *)
(* encrypted message that invites as well.  A client handles its own part  *)
(* in one thread; its requests are made by workers, whose order is open.   *)
(***************************************************************************)
EXTENDS SignalQueue

CONSTANTS
  Device,
  Call,
  From,     \* From[c]: the device that starts call c
  To,       \* To[c]: the device it calls
  None,
  Limit,    \* signals a fetch returns at most
  MaxClicks,  \* bound of the model: calls declined or hung up
  MaxLost   \* bound of the model: posts, answers and queues that are lost

ASSUME CallsAssumption ==
  /\ From \in [Call -> Device]
  /\ To \in [Call -> Device]
  /\ \A c \in Call : From[c] # To[c]
  /\ AnyCall \notin Call
  /\ Limit \in Nat \ {0}
  /\ MaxClicks \in Nat
  /\ MaxLost \in Nat

VARIABLES
  active,    \* active[d]: the call of the call window, or None
  starting,  \* starting[d]: the worker of call_rx, or None
  poll,      \* poll[d]: the fetch of call_signal_rx, or None
  strays,    \* strays[d]: fetches on their way whose answer nobody awaits
  posting,   \* the signals of workers that have not reached the server
  invite,    \* invite[c]: the encrypted message that invites to c
  queue,     \* the server's queue of signals
  media,     \* media[d]: the WebRTC session and the worker of webrtc_rx
  accepted,  \* history: the calls whose Accept was clicked
  met,       \* history: which devices have had which call, or refused it as busy
  muddled,   \* history: the calls that lost a signal, or took one for another
  clicks,    \* how often a call was declined or hung up
  lost       \* how much was lost

client == <<active, starting, poll, strays, media>>
server == <<invite, queue>>
history == <<accepted, met, muddled, clicks, lost>>
vars == <<client, posting, server, history>>

Ending == {"decline", "busy", "hangup"}
Kind == Ending \union {"invite", "answer", "webrtc-offer", "webrtc-answer"}
Signal == [kind : Kind, call : Call, to : Device]

CallState == [call : Call, incoming : BOOLEAN, accepted : BOOLEAN]
StartWorker == [call : Call, at : {"asked", "invited", "ready", "failed"}]
Poll == [call : Call \union {AnyCall}, done : BOOLEAN, signals : Seq(Signal)]
Connected == {"offered", "replied", "applied"}
Media == {"none", "offering", "replying", "applying"} \union Connected

ASSUME NoneAssumption == None \notin CallState \union StartWorker \union Poll

TypeOK ==
  /\ active \in [Device -> CallState \union {None}]
  /\ starting \in [Device -> StartWorker \union {None}]
  /\ poll \in [Device -> Poll \union {None}]
  /\ strays \in [Device -> SUBSET (Call \union {AnyCall})]
  /\ posting \subseteq Signal
  /\ invite \in [Call -> {"unsent", "stored", "shown"}]
  /\ queue \in Seq(Signal) /\ Len(queue) <= MaxQueue
  /\ media \in [Device -> Media]
  /\ accepted \subseteq Call /\ muddled \subseteq Call
  /\ met \subseteq Device \X Call
  /\ clicks \in 0 .. MaxClicks
  /\ lost \in 0 .. MaxLost

Init ==
  /\ active = [d \in Device |-> None]
  /\ starting = [d \in Device |-> None]
  /\ poll = [d \in Device |-> None]
  /\ strays = [d \in Device |-> {}]
  /\ posting = {}
  /\ invite = [c \in Call |-> "unsent"]
  /\ queue = <<>>
  /\ media = [d \in Device |-> "none"]
  /\ accepted = {} /\ met = {} /\ muddled = {} /\ clicks = 0 /\ lost = 0

-----------------------------------------------------------------------------
In(d, c) == active[d] # None /\ active[d].call = c
Peer(d, c) == IF From[c] = d THEN To[c] ELSE From[c]

\* A signal from d to the other end of the call.
Sent(d, kind, c) == [kind |-> kind, call |-> c, to |-> Peer(d, c)]
Calls(signals) == {s.call : s \in signals}

\* The calls of signals that d received and did nothing with, unless d is through
\* with the call: an invite may be missed, it comes twice.
Missed(d, signals) ==
  Calls({s \in signals :
           /\ s.kind \notin {"invite", "answer"}
           /\ <<d, s.call>> \in met => In(d, s.call)})

Muddle(calls) == muddled' = muddled \union calls
Lose(calls) == lost < MaxLost /\ lost' = lost + 1 /\ Muddle(calls)

\* A signal reaches the queue, where the oldest may have to make room for it.
Push(signal) ==
  /\ queue' = Queued(queue, signal)
  /\ Muddle(IF Len(queue) >= MaxQueue THEN {Head(queue).call} ELSE {})
  /\ UNCHANGED <<accepted, met, clicks, lost>>

\* The call c comes to d as its active call, maybe a second time.
Enter(d, c, incoming) ==
  /\ active' = [active EXCEPT ![d] = [call |-> c, incoming |-> incoming, accepted |-> FALSE]]
  /\ met' = met \union {<<d, c>>}

-----------------------------------------------------------------------------
\* start_call
StartCall(d, c) ==
  /\ starting[d] = None
  /\ active[d] = None
  /\ From[c] = d
  /\ invite[c] = "unsent"
  /\ starting' = [starting EXCEPT ![d] = [call |-> c, at |-> "asked"]]
  /\ UNCHANGED <<active, poll, strays, media, posting, server, history>>

\* run_start_call_flow: the encrypted invite, after the check that the user is online.
StartInvite(d) ==
  /\ starting[d] # None
  /\ starting[d].at = "asked"
  /\ starting' = [starting EXCEPT ![d].at = "invited"]
  /\ invite' = [invite EXCEPT ![starting[d].call] = "stored"]
  /\ UNCHANGED <<active, poll, strays, media, posting, queue, history>>

\* run_start_call_flow: the invite signal, whose failure is ignored.
StartSignal(d) ==
  /\ starting[d] # None
  /\ starting[d].at = "invited"
  /\ starting' = [starting EXCEPT ![d].at = "ready"]
  /\ \/ Push(Sent(d, "invite", starting[d].call))
     \/ Lose({}) /\ UNCHANGED <<queue, accepted, met, clicks>>
  /\ UNCHANGED <<active, poll, strays, media, posting, invite>>

\* The user is not online or the message fails, which may be stored all the same.
StartFails(d) ==
  /\ starting[d] # None
  /\ starting[d].at = "asked"
  /\ starting' = [starting EXCEPT ![d].at = "failed"]
  /\ \/ UNCHANGED <<invite, history>>
     \/ /\ invite' = [invite EXCEPT ![starting[d].call] = "stored"]
        /\ Lose({starting[d].call})
        /\ UNCHANGED <<accepted, met, clicks>>
  /\ UNCHANGED <<active, poll, strays, media, posting, queue>>

\* poll_call_result: whatever call came in meanwhile is overwritten.
PollCall(d) ==
  /\ starting[d] # None
  /\ starting[d].at \in {"ready", "failed"}
  /\ starting' = [starting EXCEPT ![d] = None]
  /\ IF starting[d].at = "failed"
     THEN UNCHANGED <<active, met, muddled>>
     ELSE /\ Enter(d, starting[d].call, FALSE)
          /\ Muddle(IF active[d] = None THEN {} ELSE {starting[d].call, active[d].call})
  /\ UNCHANGED <<poll, strays, media, posting, server, accepted, clicks, lost>>

-----------------------------------------------------------------------------
\* poll_call_signals: a fetch for the active call, or for any when there is none.
PollStart(d) ==
  /\ poll[d] = None
  /\ poll' = [poll EXCEPT ![d] =
                [call |-> IF active[d] = None THEN AnyCall ELSE active[d].call,
                 done |-> FALSE, signals |-> <<>>]]
  /\ UNCHANGED <<active, starting, strays, media, posting, server, history>>

\* The server answers it; an error does no more than an empty answer.
PollFetch(d) ==
  /\ poll[d] # None
  /\ ~poll[d].done
  /\ LET batch == Fetched(queue, d, poll[d].call, Limit)
     IN  /\ queue' = Retained(queue, d, poll[d].call, Limit)
         /\ \/ /\ poll' = [poll EXCEPT ![d].done = TRUE, ![d].signals = batch]
               /\ UNCHANGED history
            \/ /\ batch # <<>>
               /\ poll' = [poll EXCEPT ![d].done = TRUE]
               /\ Lose(Missed(d, ToSet(batch)))
               /\ UNCHANGED <<accepted, met, clicks>>
  /\ UNCHANGED <<active, starting, strays, media, posting, invite>>

\* A fetch that nobody waits for takes its signals with it.
StrayFetch(d, call) ==
  /\ call \in strays[d]
  /\ strays' = [strays EXCEPT ![d] = @ \ {call}]
  /\ queue' = Retained(queue, d, call, Limit)
  /\ Muddle(Missed(d, ToSet(Fetched(queue, d, call, Limit))))
  /\ UNCHANGED <<active, starting, poll, media, posting, invite, accepted, met, clicks, lost>>

\* poll_call_signals without an active call: the first invite rings, the rest of the
\* answer is ignored.
Ring(d) ==
  LET signals == ToSet(poll[d].signals)
      invites == {i \in DOMAIN poll[d].signals : poll[d].signals[i].kind = "invite"}
      call == poll[d].signals[Min(invites)].call
  IN  /\ poll[d] # None
      /\ poll[d].done
      /\ active[d] = None
      /\ poll' = [poll EXCEPT ![d] = None]
      /\ IF invites = {}
         THEN Muddle(Missed(d, signals)) /\ UNCHANGED <<active, met>>
         ELSE /\ Enter(d, call, TRUE)
              /\ Muddle(Missed(d, signals) \union (IF <<d, call>> \in met THEN {call} ELSE {}))
      /\ UNCHANGED <<starting, strays, media, posting, server, accepted, clicks, lost>>

\* The signals an active call hears: up to the first that ends it.
Heard(signals) ==
  {signals[i] : i \in {j \in DOMAIN signals :
                         \A k \in 1 .. j - 1 : signals[k].kind \notin Ending}}

\* What the WebRTC session does about them, in this order.
MediaAfter(was, kinds) ==
  LET offering == IF "answer" \in kinds /\ was = "none" THEN "offering" ELSE was
      replying == IF "webrtc-offer" \in kinds /\ offering = "none" THEN "replying" ELSE offering
  IN  IF "webrtc-answer" \in kinds /\ replying \in Connected THEN "applying" ELSE replying

\* poll_call_signals with an active call: the call of a signal is not looked at.
Hear(d) ==
  LET heard == Heard(poll[d].signals)
      kinds == {s.kind : s \in heard}
      other == {s \in heard : s.kind # "invite" /\ s.call # active[d].call}
  IN  /\ poll[d] # None
      /\ poll[d].done
      /\ active[d] # None
      /\ poll' = [poll EXCEPT ![d] = None]
      /\ IF kinds \intersect Ending # {}
         THEN /\ active' = [active EXCEPT ![d] = None]
              /\ media' = [media EXCEPT ![d] = "none"]
         ELSE /\ active' = [active EXCEPT ![d].accepted = @ \/ "answer" \in kinds]
              /\ media' = [media EXCEPT ![d] = MediaAfter(@, kinds)]
      /\ Muddle(Calls(other) \union (IF other = {} THEN {} ELSE {active[d].call})
                  \union Missed(d, {s \in ToSet(poll[d].signals) : s.call # active[d].call}))
      /\ UNCHANGED <<starting, strays, posting, server, accepted, met, clicks, lost>>

-----------------------------------------------------------------------------
\* push_incoming of the encrypted invite: it rings, or is answered with busy.
ShowInvite(d, c) ==
  /\ To[c] = d
  /\ invite[c] = "stored"
  /\ invite' = [invite EXCEPT ![c] = "shown"]
  /\ Muddle(IF <<d, c>> \in met THEN {c} ELSE {})
  /\ IF active[d] = None
     THEN Enter(d, c, TRUE) /\ UNCHANGED posting
     ELSE /\ posting' = posting \union {Sent(d, "busy", c)}
          /\ met' = met \union {<<d, c>>}
          /\ UNCHANGED active
  /\ UNCHANGED <<starting, poll, strays, media, queue, accepted, clicks, lost>>

\* Mutant of Accept: the callee offers a session as well.
AcceptOffers(d) ==
  /\ active[d] # None
  /\ active[d].incoming
  /\ ~active[d].accepted
  /\ posting' = posting \union {Sent(d, "answer", active[d].call)}
  /\ active' = [active EXCEPT ![d].accepted = TRUE]
  /\ accepted' = accepted \union {active[d].call}
  /\ media' = [media EXCEPT ![d] = "offering"]
  /\ UNCHANGED <<starting, poll, strays, server, met, muddled, clicks, lost>>

\* render_call_window: accept
Accept(d) ==
  /\ active[d] # None
  /\ active[d].incoming
  /\ ~active[d].accepted
  /\ posting' = posting \union {Sent(d, "answer", active[d].call)}
  /\ active' = [active EXCEPT ![d].accepted = TRUE]
  /\ accepted' = accepted \union {active[d].call}
  /\ UNCHANGED <<starting, poll, strays, media, server, met, muddled, clicks, lost>>

\* The call window closes: the session stops and the fetch is left to itself.
Leave(d, kind) ==
  /\ posting' = posting \union {Sent(d, kind, active[d].call)}
  /\ active' = [active EXCEPT ![d] = None]
  /\ media' = [media EXCEPT ![d] = "none"]
  /\ poll' = [poll EXCEPT ![d] = None]
  /\ strays' = [strays EXCEPT ![d] =
                  IF poll[d] = None \/ poll[d].done THEN @ ELSE @ \union {poll[d].call}]
  /\ Muddle(IF poll[d] = None THEN {}
            ELSE Missed(d, {s \in ToSet(poll[d].signals) : s.call # active[d].call}))
  /\ UNCHANGED <<starting, server, accepted, met, lost>>

Click(d, kind) == clicks < MaxClicks /\ clicks' = clicks + 1 /\ Leave(d, kind)

\* render_call_window: decline
Decline(d) ==
  active[d] # None /\ active[d].incoming /\ ~active[d].accepted /\ Click(d, "decline")

\* render_call_window: hang up
HangUp(d) == active[d] # None /\ Click(d, "hangup")

\* Mutants of NoAnswer: the other end is not told; the wrong end looks at the clock.
NoAnswerSilent(d) ==
  /\ active[d] # None
  /\ ~active[d].incoming
  /\ ~active[d].accepted
  /\ poll[d] = None
  /\ active' = [active EXCEPT ![d] = None]
  /\ UNCHANGED <<starting, poll, strays, media, posting, server, history>>
NoAnswerOfCallee(d) ==
  /\ active[d] # None
  /\ active[d].incoming
  /\ ~active[d].accepted
  /\ poll[d] = None
  /\ Leave(d, "hangup")
  /\ UNCHANGED clicks

\* poll_call_signals: nobody answered within CALL_ANSWER_TIMEOUT; looked at only
\* between two fetches.
NoAnswer(d) ==
  /\ active[d] # None
  /\ ~active[d].incoming
  /\ ~active[d].accepted
  /\ poll[d] = None
  /\ Leave(d, "hangup")
  /\ UNCHANGED clicks

-----------------------------------------------------------------------------
\* A worker's signal reaches the queue, or is refused or lost, which nobody notices.
Post(s) ==
  /\ s \in posting
  /\ posting' = posting \ {s}
  /\ \/ Push(s)
     \/ Lose({s.call}) /\ UNCHANGED <<queue, accepted, met, clicks>>
  /\ UNCHANGED <<client, invite>>

\* poll_webrtc_result: a session was made, and its payload goes to the other end.
MediaDone(d) ==
  LET done == [offering |-> "offered", replying |-> "replied", applying |-> "applied"]
      sent == [offering |-> {"webrtc-offer"}, replying |-> {"webrtc-answer"}, applying |-> {}]
  IN  /\ media[d] \in DOMAIN done
      /\ media' = [media EXCEPT ![d] = done[@]]
      /\ posting' = posting \union {Sent(d, kind, active[d].call) : kind \in sent[media[d]]}
      /\ UNCHANGED <<active, starting, poll, strays, server, history>>

\* poll_webrtc_result: an error; a session that was there before stays.
MediaFails(d) ==
  /\ media[d] \in {"offering", "replying", "applying"}
  /\ media' = [media EXCEPT ![d] = IF @ = "applying" THEN "offered" ELSE "none"]
  /\ Lose({active[d].call})
  /\ UNCHANGED <<active, starting, poll, strays, posting, server, accepted, met, clicks>>

\* The queue is in the memory of the server.
Restart ==
  /\ queue # <<>>
  /\ queue' = <<>>
  /\ Lose(Calls({s \in ToSet(queue) : s.kind # "invite"}))
  /\ UNCHANGED <<client, posting, invite, accepted, met, clicks>>

Next ==
  \/ \E d \in Device :
       \/ StartInvite(d) \/ StartSignal(d) \/ StartFails(d) \/ PollCall(d)
       \/ PollStart(d) \/ PollFetch(d) \/ Ring(d) \/ Hear(d)
       \/ Accept(d) \/ Decline(d) \/ HangUp(d) \/ NoAnswer(d)
       \/ MediaDone(d) \/ MediaFails(d)
       \/ \E c \in Call : StartCall(d, c) \/ ShowInvite(d, c)
       \/ \E call \in Call \union {AnyCall} : StrayFetch(d, call)
  \/ \E s \in posting : Post(s)
  \/ Restart

Spec == Init /\ [][Next]_vars

\* Requests end and their results are polled in each frame; past its 45 seconds a call
\* is given up in the first frame without a fetch.  Nobody has to click anything.
Fairness ==
  /\ \A d \in Device :
       /\ WF_vars(StartInvite(d) \/ StartFails(d)) /\ WF_vars(StartSignal(d))
       /\ WF_vars(PollCall(d)) /\ WF_vars(PollStart(d)) /\ WF_vars(PollFetch(d))
       /\ WF_vars(Ring(d)) /\ WF_vars(Hear(d)) /\ SF_vars(NoAnswer(d))
  /\ \A s \in Signal : WF_vars(Post(s))

FairSpec == Spec /\ Fairness

-----------------------------------------------------------------------------
\* Nothing that concerns the call is under way.
Quiet(c) ==
  /\ \A s \in posting \union ToSet(queue) : s.call # c
  /\ \A d \in Device :
       /\ poll[d] # None => c \notin Calls(ToSet(poll[d].signals))
       /\ starting[d] # None => starting[d].call # c

\* Whoever talks is not alone: once a call's signals have all arrived, a device that
\* is in an accepted call has the other end in the same call, whatever was answered,
\* declined, timed out or hung up at once; unless a signal was lost or misdirected.
NobodyAlone ==
  \A d \in Device, c \in Call \ muddled :
    In(d, c) /\ active[d].accepted /\ Quiet(c) => In(Peer(d, c), c)

\* When both ends have accepted and all is quiet, the two sessions have exchanged
\* offer and answer, each made by the right end.
MediaMade ==
  \A c \in Call \ muddled :
    /\ \A d \in {From[c], To[c]} :
         In(d, c) /\ active[d].accepted /\ media[d] \notin {"offering", "replying", "applying"}
    /\ Quiet(c)
    => media[From[c]] = "applied" /\ media[To[c]] = "replied"

\* A caller does not wait for ever: the call is accepted, or given up.
CallerNotKept ==
  \A d \in Device, c \in Call :
    In(d, c) /\ ~active[d].incoming ~> ~In(d, c) \/ active[d].accepted

\* When one end has left a call that the other has accepted, the other leaves as well.
OtherFollows ==
  \A d \in Device, c \in Call :
    In(d, c) /\ active[d].accepted /\ ~In(Peer(d, c), c)
      ~> ~In(d, c) \/ In(Peer(d, c), c) \/ c \in muddled

\* "Incoming call. Media starts after you accept."
MediaAfterAccept ==
  \A d \in Device :
    active[d] # None /\ active[d].incoming /\ active[d].accepted => active[d].call \in accepted

\* "User is busy in another call.": who answers busy is in another call.
BusyInAnother ==
  [][\A s \in posting' \ posting :
       s.kind = "busy" => ~In(To[s.call], s.call)]_vars
=============================================================================
