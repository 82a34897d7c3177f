---------------------------- MODULE MCChatStatus ----------------------------
(* Small instances of ChatStatus for TLC. *)
EXTENDS ChatStatus, TLC

MCSymmetry == Permutations(Msg) \union Permutations(Incoming)
=============================================================================
