------------------------------ MODULE Places ------------------------------
(***************************************************************************)
(* Parts of a sequence, as sets of its places.                             *)
(***************************************************************************)
EXTENDS Integers, Sequences, FiniteSets

\* What stands at some places, in the order of the sequence.
At(sequence, places) ==
  LET place(k) == CHOOSE i \in places : Cardinality({j \in places : j <= i}) = k
  IN  [k \in 1 .. Cardinality(places) |-> sequence[place(k)]]
=============================================================================
