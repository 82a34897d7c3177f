---------------------------- MODULE SignalQueue ----------------------------
(***************************************************************************)
(* The queue of call signals in the server's memory: what a send and a     *)
(* fetch, each under the queue's lock, do to it.  A signal is a record     *)
(* with a recipient and a call; the rest of it is left to the modules that *)
(* use the queue.                                                          *)
(***************************************************************************)
EXTENDS Places, SequencesExt

CONSTANTS
  MaxQueue,  \* MAX_SIGNAL_QUEUE
  AnyCall    \* a fetch that names no call

ASSUME QueueAssumption == MaxQueue \in Nat \ {0}

\* Mutant of Queued: the queue is one longer than its bound.
QueuedOneMore(queue, signal) ==
  Append(IF Len(queue) > MaxQueue THEN Tail(queue) ELSE queue, signal)

\* The queue with a signal at its end; the oldest signal of all makes room for it.
Queued(queue, signal) ==
  Append(IF Len(queue) >= MaxQueue THEN Tail(queue) ELSE queue, signal)

\* The places of the signals a fetch asks for.
Wanted(queue, device, call) ==
  {i \in DOMAIN queue : queue[i].to = device /\ call \in {AnyCall, queue[i].call}}

\* Mutant of Taken: the newest of them.
TakenNewest(queue, device, call, limit) ==
  {i \in Wanted(queue, device, call) :
     Cardinality({j \in Wanted(queue, device, call) : j >= i}) <= limit}

\* The oldest of them, up to the limit of the fetch.
Taken(queue, device, call, limit) ==
  {i \in Wanted(queue, device, call) :
     Cardinality({j \in Wanted(queue, device, call) : j <= i}) <= limit}

Fetched(queue, device, call, limit) == At(queue, Taken(queue, device, call, limit))

\* Mutant of Retained: the signals beyond the limit go as well.
RetainedOthers(queue, device, call, limit) ==
  At(queue, DOMAIN queue \ Wanted(queue, device, call))

Retained(queue, device, call, limit) ==
  At(queue, DOMAIN queue \ Taken(queue, device, call, limit))
=============================================================================
