----------------------------- MODULE MCMailbox -----------------------------
(* Small instances of Mailbox for TLC. *)
EXTENDS Mailbox, TLC

CONSTANTS alice, bob, a, b, m1, m2, m3

MCOwner == a :> alice @@ b :> bob

\* m1 and m2 are for b; m3, where there is one, is the answer.
MCFrom == [m \in Msg |-> IF m = m3 THEN b ELSE a]
MCTo   == [m \in Msg |-> IF m = m3 THEN a ELSE b]

\* Three messages from a to b.
MCAllFrom == [m \in Msg |-> a]
MCAllTo   == [m \in Msg |-> b]

\* Two devices of one account, between which there is nobody to block.
MCOneOwner == [d \in Device |-> alice]

\* With all messages alike and all calls alike.
MCMsgSymmetry == Permutations(Request) \union Permutations(Msg)

MCSymmetry == Permutations(Request) \union Permutations(Drainer)
=============================================================================
