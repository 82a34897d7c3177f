------------------------------ MODULE MCCalls ------------------------------
(* Small instances of Calls for TLC. *)
EXTENDS Calls, TLC

CONSTANTS a, b, c1, c2

\* One call from a to b.
OneFrom == c1 :> a
OneTo == c1 :> b

\* Each device calls the other.
BothFrom == c1 :> a @@ c2 :> b
BothTo == c1 :> b @@ c2 :> a
=============================================================================
