---------------------------- MODULE MCServerLive ----------------------------
(***************************************************************************)
(* What the server owes its callers in the end, of the message store and   *)
(* of the bundle requests: a behaviour is one of either part.              *)
(***************************************************************************)
EXTENDS MCMailbox, BundlePool

CONSTANTS k1, k2

MCUpload == {<<k1>>, <<k2, k1>>}

VARIABLE part

serverVars == <<part, vars, bundleVars>>

ServerInit == part \in {"messages", "prekeys"} /\ Init /\ BundleInit

ServerNext ==
  /\ UNCHANGED part
  /\ \/ part = "messages" /\ Next /\ UNCHANGED bundleVars
     \/ part = "prekeys" /\ BundleNext /\ UNCHANGED vars

\* The drains of the part that has none are not to be fair; its calls never begin.
ServerLiveSpec ==
  /\ ServerInit /\ [][ServerNext]_serverVars
  /\ part = "messages" => Fairness
  /\ BundleFairness
=============================================================================
