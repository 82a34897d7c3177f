-------------------------- MODULE MessageLifecycle --------------------------
(***************************************************************************)
(* What the server promises about a message, with no handler, transaction, *)
(* lock or block list in sight: a message is stored once, is handed out to *)
(* its recipient any number of times, and is read at most once, only by a  *)
(* recipient that holds it.  Module Mailbox implements this specification. *)
(***************************************************************************)
EXTENDS Naturals

CONSTANTS
  Device,   \* the device ids
  Msg,      \* the message ids, each drawn by the sender for one message
  To        \* the recipient device of each message

VARIABLES
  phase,    \* phase[m]: how far message m has come
  held      \* held[d]: the messages device d has received

lifecycleVars == <<phase, held>>

Phase == {"unsent", "stored", "delivered", "read"}

LifecycleInit ==
  /\ phase = [m \in Msg |-> "unsent"]
  /\ held  = [d \in Device |-> {}]

\* The message enters the store.  A second copy of the same id changes nothing.
Store(m) ==
  /\ phase[m] = "unsent"
  /\ phase' = [phase EXCEPT ![m] = "stored"]
  /\ UNCHANGED held

\* The store commits to handing a batch of one device's unread messages to it.
HandOut(d, S) ==
  /\ \A m \in S : To[m] = d /\ phase[m] \in {"stored", "delivered"}
  /\ phase' = [m \in Msg |-> IF m \in S THEN "delivered" ELSE phase[m]]
  /\ UNCHANGED held

\* A part of what was handed out reaches the device.
Receive(d, S) ==
  /\ \A m \in S : To[m] = d /\ phase[m] \in {"delivered", "read"}
  /\ held' = [held EXCEPT ![d] = @ \union S]
  /\ UNCHANGED phase

\* The device acknowledges messages it holds.
Read(d, S) ==
  /\ S \subseteq held[d]
  /\ phase' = [m \in Msg |-> IF m \in S THEN "read" ELSE phase[m]]
  /\ UNCHANGED held

LifecycleNext ==
  \/ \E m \in Msg : Store(m)
  \/ \E d \in Device, S \in SUBSET Msg : HandOut(d, S) \/ Receive(d, S) \/ Read(d, S)

LifecycleSpec == LifecycleInit /\ [][LifecycleNext]_lifecycleVars
=============================================================================
