--------------------------- MODULE MCPeerSessions ---------------------------
(* Small instances of PeerSessions for TLC. *)
EXTENDS PeerSessions, TLC

CONSTANTS a, b, ca, cb, ta, tb, tb2

\* ca and ta are sent by a, the others by b, each to the other one.
MCFrom == [m \in Msg |-> IF m \in {ca, ta} THEN a ELSE b]
MCTo   == [m \in Msg |-> IF m \in {ca, ta} THEN b ELSE a]

\* tb and tb2 are alike.
MCTextSymmetry == Permutations({tb, tb2})

-----------------------------------------------------------------------------
(***************************************************************************)
(* The behaviours of PeerSessions in which nothing fails: every request is *)
(* answered, no client dies, no session is reset, no chat is deleted.      *)
(***************************************************************************)
CalmSync(c) ==
  \/ SyncNothing(c) \/ SyncFetch(c) \/ SyncDecrypt(c, Unknown(c)) \/ SyncRefresh(c, TRUE, TRUE)
  \/ SyncRetry(c) \/ SyncApply(c)

CalmNext ==
  \/ \E m \in Msg : SendText(m) \/ OpenChat(m) \/ Seal(m) \/ Post(m, TRUE) \/ PersistSent(m)
  \/ \E c \in Device :
       \/ CalmSync(c)
       \/ AckEnd(c, TRUE, TRUE)
       \/ \E p \in Device : SelectChat(c, p)

\* These conditions imply Fairness where nothing fails; a is the one who gets texts.
CalmSpec ==
  /\ Init /\ [][CalmNext]_vars
  /\ WF_vars(CalmSync(a))
  /\ WF_vars(AckEnd(a, TRUE, TRUE))
  /\ SF_vars(SelectChat(a, b))
=============================================================================
