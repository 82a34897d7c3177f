--------------------------- MODULE CallSignaling ---------------------------
(***************************************************************************)
(* The server's side of call signalling: signals accepted from any sender, *)
(* fetched by their recipient with or without the name of a call, dropped  *)
(* when the queue is full, and gone when an answer is lost or the server   *)
(* is started again.                                                       *)
(***************************************************************************)
EXTENDS SignalQueue

CONSTANTS
  Device,
  Call,
  AskedLimit,  \* the limits clients ask for
  MaxLimit,    \* the upper bound of clamp(1, 500)
  MaxSent      \* bound of the model: signals accepted

ASSUME SignalingAssumption ==
  /\ AnyCall \notin Call
  /\ AskedLimit \subseteq Nat
  /\ MaxLimit \in Nat \ {0}
  /\ MaxSent \in Nat

VARIABLES
  queue,    \* the signals that wait, oldest first
  sent,     \* how many signals were accepted
  got,      \* got[d]: the signals device d has received, in order
  dropped,  \* the signals that made room for others
  lost      \* the signals of lost answers and of a server that ended

signalingVars == <<queue, sent, got, dropped, lost>>

\* The accepted signals are numbered.
Signal == [to : Device, call : Call, n : 1 .. MaxSent]

SignalingTypeOK ==
  /\ queue \in Seq(Signal) /\ Len(queue) <= MaxQueue
  /\ sent \in 0 .. MaxSent
  /\ got \in [Device -> Seq(Signal)]
  /\ dropped \subseteq Signal
  /\ lost \subseteq Signal

SignalingInit ==
  /\ queue = <<>>
  /\ sent = 0
  /\ got = [d \in Device |-> <<>>]
  /\ dropped = {}
  /\ lost = {}

-----------------------------------------------------------------------------
\* send_call_signal, once the sender, the recipient, the block list and the presence
\* of the recipient have passed its checks.
SendSignal(d, c) ==
  /\ sent < MaxSent
  /\ sent' = sent + 1
  /\ queue' = Queued(queue, [to |-> d, call |-> c, n |-> sent'])
  /\ dropped' = dropped \union (ToSet(queue) \ ToSet(queue'))
  /\ UNCHANGED <<got, lost>>

ClampSignals(asked) == IF asked < 1 THEN 1 ELSE IF asked > MaxLimit THEN MaxLimit ELSE asked

\* fetch_call_signals: what is taken from the queue is in the answer only, which
\* arrives or is lost.
FetchSignals(d, c, asked) ==
  LET batch == Fetched(queue, d, c, ClampSignals(asked))
  IN  /\ queue' = Retained(queue, d, c, ClampSignals(asked))
      /\ \/ got' = [got EXCEPT ![d] = @ \o batch] /\ UNCHANGED lost
         \/ lost' = lost \union ToSet(batch) /\ UNCHANGED got
      /\ UNCHANGED <<sent, dropped>>

\* The queue is in the memory of the server.
SignalingRestart ==
  /\ lost' = lost \union ToSet(queue)
  /\ queue' = <<>>
  /\ UNCHANGED <<sent, got, dropped>>

SignalingNext ==
  \/ \E d \in Device, c \in Call : SendSignal(d, c)
  \/ \E d \in Device, c \in Call \union {AnyCall}, asked \in AskedLimit : FetchSignals(d, c, asked)
  \/ SignalingRestart

-----------------------------------------------------------------------------
Numbers(signals) == {s.n : s \in signals}
Received == UNION {ToSet(got[d]) : d \in Device}

\* Each accepted signal is in one place, once: it waits, was received by its recipient,
\* or is gone.  No fetch loses or repeats one, whatever call and limit it names, and one
\* that made room was older than all that wait.
SignalsConserved ==
  LET waiting == ToSet(queue)
      gone    == dropped \union lost
  IN  /\ 1 .. sent = Numbers(waiting \union Received \union gone)
      /\ \A s, t \in waiting \union Received \union gone : s.n = t.n => s = t
      /\ waiting \intersect (Received \union gone) = {}
      /\ Received \intersect gone = {} /\ dropped \intersect lost = {}
      /\ IsInjective(queue)
      /\ \A d \in Device : IsInjective(got[d]) /\ \A i \in DOMAIN got[d] : got[d][i].to = d
      /\ \A old \in dropped, s \in waiting : old.n < s.n

\* The signals of one call reach a device in the order they were accepted, though
\* fetches that name the call and fetches that do not take turns.
SignalsInOrder ==
  \A d \in Device : \A i, j \in DOMAIN got[d] :
    i < j /\ got[d][i].call = got[d][j].call => got[d][i].n < got[d][j].n
=============================================================================
