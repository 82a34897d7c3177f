------------------------- MODULE PeerSessionsProofs -------------------------
(***************************************************************************)
(* Theorems about PeerSessions, for every set of devices and messages,     *)
(* every number of fetched messages and of crashes, resets and deletions.  *)
(***************************************************************************)
EXTENDS PeerSessions, FiniteSetTheorems, TLAPS

(***************************************************************************)
(* A key with the largest counter.  The library's induction rules take an  *)
(* operator; a minimal counterexample in the well-founded order of finite  *)
(* subsets does the same without one.                                      *)
(***************************************************************************)
LEMMA LargestExists ==
  ASSUME NEW A, IsFiniteSet(A), A # {}, NEW f \in [A -> Nat]
  PROVE  \E x \in A : \A y \in A : f[y] <= f[x]
  <1> DEFINE Bad == {U \in FiniteSubsetsOf(A) :
                       U # {} /\ ~ \E x \in U : \A y \in U : f[y] <= f[x]}
  <1>1. SUFFICES ASSUME Bad # {}
                 PROVE  FALSE
    <2>1. A \in FiniteSubsetsOf(A)
      BY DEF FiniteSubsetsOf
    <2>2. QED
      BY <2>1
  <1>2. PICK U \in Bad : \A V \in Bad : <<V, U>> \notin StrictSubsetOrdering(A)
    <2>1. Bad \subseteq FiniteSubsetsOf(A)
      OBVIOUS
    <2> HIDE DEF Bad
    <2>2. QED
      BY <1>1, <2>1, FS_StrictSubsetOrderingWellFounded, WFMin
  <1>3. U \subseteq A /\ IsFiniteSet(U) /\ U # {}
    BY DEF FiniteSubsetsOf
  <1>4. PICK x \in U : TRUE
    BY <1>3
  <1>5. U \ {x} \in FiniteSubsetsOf(A)
    BY <1>3, FS_RemoveElement DEF FiniteSubsetsOf
  <1>6. U \ {x} \notin Bad
    <2>1. <<U \ {x}, U>> \in StrictSubsetOrdering(A)
      BY <1>3, <1>4 DEF StrictSubsetOrdering
    <2>2. QED
      BY <1>2, <2>1
  <1>7. CASE U = {x}
    BY <1>3, <1>7
  <1>8. CASE U # {x}
    <2>1. PICK y \in U \ {x} : \A z \in U \ {x} : f[z] <= f[y]
      BY <1>4, <1>5, <1>6, <1>8
    <2>2. CASE f[x] <= f[y]
      BY <1>3, <2>1, <2>2
    <2>3. CASE f[y] <= f[x]
      BY <1>3, <2>1, <2>3
    <2>4. QED
      BY <1>3, <2>1, <2>2, <2>3
  <1>9. QED
    BY <1>7, <1>8

(***************************************************************************)
(* Types.  A batch is typed because it is made of places of the box, which *)
(* only grows.                                                             *)
(***************************************************************************)
BatchInBox ==
  \A c \in Device : sync[c] # None =>
    sync[c].batch \subseteq DOMAIN box[c] /\ sync[c].left \subseteq sync[c].batch

TypeInv == TypeOK /\ BatchInBox

LEMMA Boxes ==
  ASSUME TypeOK, NEW c \in Device
  PROVE  /\ DOMAIN box[c] \subseteq Nat
         /\ \A i \in DOMAIN box[c] : box[c][i] \in Msg /\ From[box[c][i]] \in Device
  BY PeerSessionsAssumption DEF TypeOK

\* What the batch opens is of the batch, and each receiving chain that moves is
\* one past the key of a message that was opened.
LEMMA OpeningInBatch ==
  ASSUME TypeOK, NEW c \in Device, NEW s, NEW batch \in SUBSET DOMAIN box[c]
  PROVE  \A m \in Opening(c, s, batch) :
           /\ m \in Msg /\ s[From[m]] # None
           /\ \E i \in DOMAIN box[c] : m = box[c][i]
  BY Boxes DEF Opening

LEMMA AdvancedBy ==
  ASSUME TypeOK, NEW c \in Device, NEW s \in [Device -> Session \union {None}],
         NEW batch \in SUBSET DOMAIN box[c]
  PROVE  /\ Advanced(c, s, batch) \in [Device -> Session \union {None}]
         /\ \A p \in Device :
              \/ Advanced(c, s, batch)[p] = s[p]
              \/ \E m \in Opening(c, s, batch) :
                   /\ From[m] = p
                   /\ Advanced(c, s, batch)[p] = [s[p] EXCEPT !.recv = 1 + post[m].counter]
  <1>1. ASSUME NEW p \in Device
        PROVE  /\ Advanced(c, s, batch)[p] \in Session \union {None}
               /\ \/ Advanced(c, s, batch)[p] = s[p]
                  \/ \E m \in Opening(c, s, batch) :
                       /\ From[m] = p
                       /\ Advanced(c, s, batch)[p] = [s[p] EXCEPT !.recv = 1 + post[m].counter]
    <2> DEFINE from == {k \in Opening(c, s, batch) : From[k] = p}
               used == {post[m].counter : m \in from}
               f == [m \in from |-> post[m].counter]
    <2>1. from \subseteq Msg /\ \A m \in from : post[m].counter \in Nat
      BY OpeningInBatch DEF TypeOK, Worker
    <2>2. Advanced(c, s, batch)[p] =
            IF used = {} THEN s[p]
            ELSE [s[p] EXCEPT !.recv = 1 + CHOOSE n \in used : \A k \in used : k <= n]
      BY DEF Advanced
    <2>3. CASE from = {}
      BY <2>2, <2>3
    <2>4. CASE from # {}
      <3>1. IsFiniteSet(from) /\ f \in [from -> Nat]
        BY <2>1, FS_Subset, PeerSessionsAssumption
      <3>2. PICK m \in from : \A k \in from : f[k] <= f[m]
        <4> HIDE DEF f, from
        <4>1. QED
          BY <2>4, <3>1, LargestExists
      <3>3. \A n \in used : n <= post[m].counter
        BY <3>2
      <3>4. PICK k \in from : post[k].counter = CHOOSE n \in used : \A i \in used : i <= n
        <4>1. post[m].counter \in used
          OBVIOUS
        <4>2. (CHOOSE n \in used : \A i \in used : i <= n) \in used
          <5> HIDE DEF used
          <5>1. QED
            BY <3>3, <4>1
        <4>3. QED
          BY <4>2
      <3>5. Advanced(c, s, batch)[p] = [s[p] EXCEPT !.recv = 1 + post[k].counter]
        BY <2>2, <3>4
      <3>6. s[p] \in Session
        BY OpeningInBatch
      <3>7. [s[p] EXCEPT !.recv = 1 + post[k].counter] \in Session
        BY <2>1, <3>6 DEF Session
      <3>8. QED
        BY <3>5, <3>7
    <2>5. QED
      BY <2>3, <2>4
  <1>2. Advanced(c, s, batch) = [p \in Device |-> Advanced(c, s, batch)[p]]
    BY DEF Advanced
  <1>3. QED
    BY <1>1, <1>2

LEMMA Records ==
  ASSUME TypeOK
  PROVE  /\ \A c, p \in Device : session[c][p] # None => session[c][p] \in Session
         /\ \A c \in Device : session[c] \in [Device -> Session \union {None}]
         /\ \A c \in Device : sync[c] # None => sync[c] \in Sync
  BY DEF TypeOK

LEMMA NewSessionType == NewSession \in Session
  BY DEF NewSession, Session

\* The sessions a batch is tried with, those of new peers being derived first.
LEMMA DerivedType ==
  ASSUME TypeOK, NEW c \in Device, NEW derived \in SUBSET Device
  PROVE  [p \in Device |-> IF p \in derived THEN NewSession ELSE session[c][p]]
           \in [Device -> Session \union {None}]
  BY NewSessionType DEF TypeOK

LEMMA SessionUpdates ==
  ASSUME NEW y \in Session, NEW n \in Nat
  PROVE  /\ y.send \in Nat /\ y.recv \in Nat
         /\ [y EXCEPT !.send = @ + 1] \in Session
         /\ [y EXCEPT !.send = @ + 1].recv = y.recv
         /\ [y EXCEPT !.recv = n] \in Session
         /\ [y EXCEPT !.recv = n].recv = n
  BY DEF Session

LEMMA WorkerUpdates ==
  ASSUME NEW w \in Worker, NEW pc \in {"started", "posted", "ended"}
  PROVE  /\ [w EXCEPT !.pc = pc] \in Worker
         /\ [w EXCEPT !.pc = pc].pc = pc
         /\ [w EXCEPT !.pc = pc].counter = w.counter
  BY DEF Worker

LEMMA FirstSubset == ASSUME NEW n, NEW S PROVE First(n, S) \subseteq S
  BY DEF First

LEMMA TypeInit == Init => TypeInv
  <1> SUFFICES ASSUME Init PROVE TypeInv
    OBVIOUS
  <1>1. \A m \in Msg : post[m] \in Worker
    BY DEF Init, Worker
  <1>2. upsets \in 0 .. MaxUpset
    BY PeerSessionsAssumption DEF Init
  <1>3. QED
    BY <1>1, <1>2 DEF Init, TypeInv, TypeOK, BatchInBox

\* What marking a chat read leaves the history and the acknowledgements.
LEMMA MarkReadType ==
  ASSUME TypeOK, NEW c \in Device, NEW p,
         NEW h \in [Msg -> {"none", "unread", "reverted", "read"}], MarkRead(c, p, h)
  PROVE  /\ history' \in [Msg -> {"none", "unread", "reverted", "read"}]
         /\ acking' \in [Device -> SUBSET Msg]
  <1>1. ToAck(c, p, h) \subseteq Msg
    BY DEF ToAck, Text
  <1>2. QED
    BY <1>1 DEF MarkRead, TypeOK

LEMMA SendTypes ==
  ASSUME TypeInv, NEW m \in Msg, SendStep(m)
  PROVE  TypeInv'
  <1> USE DEF TypeInv, TypeOK
  <1>1. From[m] \in Device /\ To[m] \in Device
    BY PeerSessionsAssumption
  <1>2. CASE SendText(m)
    <2>1. [post[m] EXCEPT !.pc = "started"] \in Worker
      BY WorkerUpdates
    <2>2. QED
      BY <1>2, <2>1 DEF SendText, BatchInBox, uiVars, serverVars
  <1>3. CASE OpenChat(m)
    <2>1. [post[m] EXCEPT !.pc = "started"] \in Worker
      BY WorkerUpdates
    <2>2. session' \in [Device -> [Device -> Session \union {None}]]
      BY <1>1, <1>3, NewSessionType DEF OpenChat
    <2>3. saved' \in [Device -> [Device -> Session \union {None}]]
      BY <1>1, <1>3, <2>2 DEF OpenChat
    <2>4. QED
      BY <1>3, <2>1, <2>2, <2>3 DEF OpenChat, BatchInBox, uiVars, serverVars
  <1>4. CASE Seal(m)
    <2>1. CASE session[From[m]][To[m]] = None
      <3>1. [post[m] EXCEPT !.pc = "ended"] \in Worker
        BY DEF Worker
      <3>2. QED
        BY <1>4, <2>1, <3>1 DEF Seal, BatchInBox, uiVars, serverVars
    <2>2. CASE session[From[m]][To[m]] # None
      <3>1. session[From[m]][To[m]] \in Session
        BY <1>1, <2>2
      <3> DEFINE new == [session[From[m]][To[m]] EXCEPT !.send = @ + 1]
      <3>2. new \in Session
        BY <3>1, SessionUpdates
      <3>3. [pc |-> "sealed", counter |-> session[From[m]][To[m]].send] \in Worker
        BY <3>1, SessionUpdates DEF Worker
      <3>4. session' = [session EXCEPT ![From[m]] = [@ EXCEPT ![To[m]] = new]]
        BY <1>4, <2>2, <1>1 DEF Seal
      <3> HIDE DEF new
      <3>5. session' \in [Device -> [Device -> Session \union {None}]]
        BY <1>1, <3>2, <3>4
      <3>6. post' \in [Msg -> Worker]
        BY <1>4, <2>2, <3>3 DEF Seal
      <3>7. QED
        BY <1>4, <3>5, <3>6 DEF Seal, BatchInBox, uiVars, serverVars
    <2>3. QED
      BY <2>1, <2>2
  <1>5. ASSUME NEW stored \in BOOLEAN, Post(m, stored)
        PROVE  TypeInv'
    <2>1. [post[m] EXCEPT !.pc = "posted"] \in Worker
      BY WorkerUpdates
    <2>2. Append(box[To[m]], m) \in Seq(Msg) /\ DOMAIN box[To[m]] \subseteq DOMAIN Append(box[To[m]], m)
      BY <1>1
    <2>3. box' \in [Device -> Seq(Msg)] /\ \A c \in Device : DOMAIN box[c] \subseteq DOMAIN box'[c]
      BY <1>1, <1>5, <2>2 DEF Post
    <2>4. BatchInBox'
      BY <1>5, <2>3 DEF Post, BatchInBox
    <2>5. QED
      BY <1>5, <2>1, <2>3, <2>4 DEF Post, uiVars
  <1>6. CASE PersistSent(m)
    <2>1. [post[m] EXCEPT !.pc = "ended"] \in Worker
      BY WorkerUpdates
    <2>2. QED
      BY <1>1, <1>6, <2>1 DEF PersistSent, BatchInBox, uiVars, serverVars
  <1>7. QED
    BY <1>2, <1>3, <1>4, <1>5, <1>6 DEF SendStep

\* One sync step of c leaves the other clients' syncs alone.
LEMMA BatchKept ==
  ASSUME TypeInv, NEW c \in Device, NEW new,
         sync' = [sync EXCEPT ![c] = new], UNCHANGED box,
         new # None => new.batch \subseteq DOMAIN box[c] /\ new.left \subseteq new.batch
  PROVE  BatchInBox'
  BY DEF TypeInv, TypeOK, BatchInBox

LEMMA SyncOpened ==
  ASSUME NEW y \in Sync, NEW opened \in SUBSET Msg, NEW pc \in {"refresh", "apply"}
  PROVE  /\ [y EXCEPT !.opened = opened, !.pc = pc] \in Sync
         /\ [y EXCEPT !.opened = opened, !.pc = pc].batch = y.batch
         /\ [y EXCEPT !.opened = opened, !.pc = pc].left = y.left
  BY DEF Sync

LEMMA SyncEnded ==
  ASSUME NEW y \in Sync, NEW opened \in SUBSET Msg
  PROVE  /\ [y EXCEPT !.pc = "apply", !.opened = opened] \in Sync
         /\ [y EXCEPT !.pc = "apply", !.opened = opened].batch = y.batch
         /\ [y EXCEPT !.pc = "apply", !.opened = opened].left = y.left
         /\ [y EXCEPT !.pc = "apply"] \in Sync
         /\ [y EXCEPT !.pc = "apply"].batch = y.batch
         /\ [y EXCEPT !.pc = "apply"].left = y.left
  BY DEF Sync

LEMMA SyncRefreshed ==
  ASSUME NEW y \in Sync, NEW i, NEW r \in BOOLEAN
  PROVE  /\ [y EXCEPT !.left = @ \ {i}, !.refreshed = r] \in Sync
         /\ [y EXCEPT !.left = @ \ {i}, !.refreshed = r].batch = y.batch
         /\ [y EXCEPT !.left = @ \ {i}, !.refreshed = r].left = y.left \ {i}
  BY DEF Sync

\* The sessions of c are replaced, in memory and in the file.
LEMMA SessionsReplaced ==
  ASSUME TypeOK, NEW c \in Device, NEW s \in [Device -> Session \union {None}],
         session' = [session EXCEPT ![c] = s], saved' = [saved EXCEPT ![c] = session'[c]]
  PROVE  /\ session' \in [Device -> [Device -> Session \union {None}]]
         /\ saved' \in [Device -> [Device -> Session \union {None}]]
         /\ saved' = [saved EXCEPT ![c] = s]
  BY DEF TypeOK

LEMMA SyncTypes ==
  ASSUME TypeInv, NEW c \in Device, SyncStep(c)
  PROVE  TypeInv'
  <1> USE DEF TypeInv
  <1>1. /\ sync[c] # None => sync[c] \in Sync /\ sync[c].batch \subseteq DOMAIN box[c]
                             /\ sync[c].left \subseteq sync[c].batch
        /\ session[c] \in [Device -> Session \union {None}]
    BY Records DEF BatchInBox
  <1>2. CASE SyncNothing(c)
    <2>1. /\ history' \in [Msg -> {"none", "unread", "reverted", "read"}]
          /\ acking' \in [Device -> SUBSET Msg]
      BY <1>2, MarkReadType DEF SyncNothing, TypeOK
    <2>2. QED
      BY <1>2, <2>1 DEF SyncNothing, TypeOK, BatchInBox, serverVars
  <1>3. CASE SyncFetch(c)
    <2> DEFINE P == First(FetchLimit, Pending(c))
               new == [pc |-> "fetched", batch |-> P, left |-> P,
                       refreshed |-> FALSE, opened |-> {}]
    <2>1. P \subseteq DOMAIN box[c] /\ DOMAIN box[c] \subseteq Nat
      BY FirstSubset, Boxes DEF Pending
    <2>2. sync' = [sync EXCEPT ![c] = new]
      BY <1>3 DEF SyncFetch
    <2> HIDE DEF P
    <2>3. new \in Sync /\ new.batch = P /\ new.left = P
      BY <2>1 DEF Sync
    <2> HIDE DEF new
    <2>4. BatchInBox' /\ sync' \in [Device -> Sync \union {None}]
      BY <1>3, <2>1, <2>2, <2>3, BatchKept DEF SyncFetch, TypeOK, serverVars
    <2>5. QED
      BY <1>3, <2>4 DEF SyncFetch, TypeOK, serverVars, uiVars
  <1>4. ASSUME NEW derived \in SUBSET Device, SyncDecrypt(c, derived)
        PROVE  TypeInv'
    <2> DEFINE s == [p \in Device |-> IF p \in derived THEN NewSession ELSE session[c][p]]
               opened == Opening(c, s, sync[c].batch)
               pc == IF opened = {} THEN "refresh" ELSE "apply"
               new == [sync[c] EXCEPT !.opened = opened, !.pc = pc]
    <2>1. sync[c] # None /\ s \in [Device -> Session \union {None}]
      BY <1>4, DerivedType DEF SyncDecrypt
    <2>2. /\ session' = [session EXCEPT ![c] = Advanced(c, s, sync[c].batch)]
          /\ saved' = [saved EXCEPT ![c] = session'[c]]
          /\ sync' = [sync EXCEPT ![c] = new]
          /\ UNCHANGED <<post, serverVars, uiVars, upsets>>
      BY <1>4 DEF SyncDecrypt, TypeOK
    <2> HIDE DEF s
    <2>3. opened \subseteq Msg
      BY <1>1, <2>1, OpeningInBatch
    <2> HIDE DEF opened
    <2>4. pc \in {"refresh", "apply"}
      OBVIOUS
    <2> HIDE DEF pc
    <2>5. /\ sync[c] \in Sync
          /\ sync[c].batch \subseteq DOMAIN box[c] /\ sync[c].left \subseteq sync[c].batch
      BY <1>1, <2>1
    <2>6. new \in Sync /\ new.batch = sync[c].batch /\ new.left = sync[c].left
      BY <2>3, <2>4, <2>5, SyncOpened
    <2> HIDE DEF new
    <2>7. /\ session' \in [Device -> [Device -> Session \union {None}]]
          /\ saved' \in [Device -> [Device -> Session \union {None}]]
      BY <2>1, <2>2, <2>5, AdvancedBy, SessionsReplaced
    <2>8. BatchInBox' /\ sync' \in [Device -> Sync \union {None}]
      BY <2>2, <2>5, <2>6, BatchKept DEF TypeOK, serverVars
    <2>9. QED
      BY <2>2, <2>7, <2>8 DEF TypeOK, serverVars, uiVars
  <1>5. ASSUME NEW fetched \in BOOLEAN, NEW derived \in BOOLEAN, SyncRefresh(c, fetched, derived)
        PROVE  TypeInv'
    <2>1. PICK i \in sync[c].left :
            /\ session' = IF derived THEN [session EXCEPT ![c][From[box[c][i]]] = NewSession]
                                     ELSE session
            /\ sync' = [sync EXCEPT ![c].left = @ \ {i}, ![c].refreshed = @ \/ fetched]
      BY <1>5 DEF SyncRefresh
    <2> DEFINE r == sync[c].refreshed \/ fetched
               new == [sync[c] EXCEPT !.left = @ \ {i}, !.refreshed = r]
    <2>2. sync[c] # None /\ sync[c] \in Sync /\ r \in BOOLEAN
      BY <1>1, <1>5 DEF SyncRefresh, Sync
    <2>3. From[box[c][i]] \in Device
      BY <1>1, <2>2, Boxes
    <2>4. sync' = [sync EXCEPT ![c] = new]
      BY <2>1, <2>2 DEF TypeOK
    <2> HIDE DEF r
    <2>5. new \in Sync /\ new.batch = sync[c].batch /\ new.left = sync[c].left \ {i}
      BY <2>2, SyncRefreshed
    <2> HIDE DEF new
    <2>6. BatchInBox' /\ sync' \in [Device -> Sync \union {None}]
      BY <1>1, <1>5, <2>2, <2>4, <2>5, BatchKept DEF SyncRefresh, TypeOK, serverVars
    <2>7. session' \in [Device -> [Device -> Session \union {None}]]
      BY <2>1, <2>3, NewSessionType DEF TypeOK
    <2>8. saved' \in [Device -> [Device -> Session \union {None}]]
      BY <1>5, <2>7 DEF SyncRefresh, TypeOK
    <2>9. QED
      BY <1>5, <2>6, <2>7, <2>8 DEF SyncRefresh, TypeOK, serverVars, uiVars
  <1>6. CASE SyncRetry(c)
    <2> DEFINE opened == Opening(c, session[c], sync[c].batch)
               new == IF sync[c].refreshed
                        THEN [sync[c] EXCEPT !.pc = "apply", !.opened = opened]
                        ELSE [sync[c] EXCEPT !.pc = "apply"]
    <2>1. sync[c] # None /\ opened \subseteq Msg
      BY <1>1, <1>6, OpeningInBatch DEF SyncRetry
    <2>2. sync' = [sync EXCEPT ![c] = new]
      BY <1>6 DEF SyncRetry, TypeOK
    <2> HIDE DEF opened
    <2>3. new \in Sync /\ new.batch = sync[c].batch /\ new.left = sync[c].left
      BY <1>1, <2>1, SyncEnded
    <2> HIDE DEF new
    <2>4. BatchInBox' /\ sync' \in [Device -> Sync \union {None}]
      BY <1>1, <1>6, <2>1, <2>2, <2>3, BatchKept DEF SyncRetry, TypeOK, serverVars
    <2>5. /\ session' \in [Device -> [Device -> Session \union {None}]]
          /\ saved' \in [Device -> [Device -> Session \union {None}]]
      <3>1. CASE sync[c].refreshed
        <4>1. session' = [session EXCEPT ![c] = Advanced(c, session[c], sync[c].batch)]
          BY <1>6, <3>1 DEF SyncRetry, TypeOK
        <4>2. QED
          BY <1>1, <1>6, <2>1, <3>1, <4>1, AdvancedBy, SessionsReplaced DEF SyncRetry
      <3>2. CASE ~sync[c].refreshed
        BY <1>6, <3>2 DEF SyncRetry, TypeOK
      <3>3. QED
        BY <3>1, <3>2
    <2>6. QED
      BY <1>6, <2>4, <2>5 DEF SyncRetry, TypeOK, serverVars, uiVars
  <1>7. CASE SyncApply(c)
    <2> DEFINE pushed == {m \in sync[c].opened : m \in Text /\ history[m] = "none"}
               h == [m \in Msg |-> IF m \in pushed THEN "unread" ELSE history[m]]
    <2>1. h \in [Msg -> {"none", "unread", "reverted", "read"}] /\ MarkRead(c, selected[c], h)
      BY <1>7 DEF SyncApply, TypeOK
    <2>2. /\ copies' = [m \in Msg |-> IF m \in pushed THEN copies[m] + 1 ELSE copies[m]]
          /\ seen' = seen \union pushed
          /\ sync' = [sync EXCEPT ![c] = None]
          /\ UNCHANGED <<session, saved, post, serverVars, selected, upsets>>
      BY <1>7 DEF SyncApply
    <2>3. seen' \subseteq Text /\ copies' \in [Msg -> Nat]
      BY <2>2 DEF TypeOK
    <2> HIDE DEF pushed, h
    <2>4. /\ history' \in [Msg -> {"none", "unread", "reverted", "read"}]
          /\ acking' \in [Device -> SUBSET Msg]
      BY <2>1, MarkReadType
    <2>5. BatchInBox' /\ sync' \in [Device -> Sync \union {None}]
      BY <2>2, BatchKept DEF TypeOK, serverVars
    <2>6. QED
      BY <2>2, <2>3, <2>4, <2>5 DEF TypeOK, serverVars
  <1>8. QED
    BY <1>2, <1>3, <1>4, <1>5, <1>6, <1>7 DEF SyncStep

LEMMA UserTypes ==
  ASSUME TypeInv, NEW c \in Device, UserStep(c)
  PROVE  TypeInv'
  <1> USE DEF TypeInv
  <1>1. ASSUME NEW p \in Device, SelectChat(c, p)
        PROVE  TypeInv'
    <2>1. /\ history' \in [Msg -> {"none", "unread", "reverted", "read"}]
          /\ acking' \in [Device -> SUBSET Msg]
      BY <1>1, MarkReadType DEF SelectChat, TypeOK
    <2>2. QED
      BY <1>1, <2>1 DEF SelectChat, TypeOK, BatchInBox, serverVars
  <1>2. ASSUME NEW p \in Device, DeleteChat(c, p)
        PROVE  TypeInv'
    <2>1. upsets' \in 0 .. MaxUpset
      BY <1>2, PeerSessionsAssumption DEF DeleteChat, TypeOK
    <2>2. /\ history' \in [Msg -> {"none", "unread", "reverted", "read"}]
          /\ copies' \in [Msg -> Nat]
      BY <1>2 DEF DeleteChat, TypeOK
    <2>3. QED
      BY <1>2, <2>1, <2>2 DEF DeleteChat, TypeOK, BatchInBox, serverVars
  <1>3. ASSUME NEW applied \in BOOLEAN, NEW answered \in BOOLEAN, AckEnd(c, applied, answered)
        PROVE  TypeInv'
    BY <1>3 DEF AckEnd, TypeOK, BatchInBox
  <1>4. CASE LeaveChat(c)
    BY <1>4 DEF LeaveChat, TypeOK, BatchInBox, serverVars
  <1>5. CASE ResetSession(c)
    <2>1. upsets' \in 0 .. MaxUpset
      BY <1>5, PeerSessionsAssumption DEF ResetSession, TypeOK
    <2>2. selected[c] \in Device
      BY <1>5 DEF ResetSession, TypeOK
    <2>3. session' \in [Device -> [Device -> Session \union {None}]]
      BY <1>5, <2>2 DEF ResetSession, TypeOK
    <2>4. saved' \in [Device -> [Device -> Session \union {None}]]
      BY <1>5, <2>3 DEF ResetSession, TypeOK
    <2>5. QED
      BY <1>5, <2>1, <2>3, <2>4 DEF ResetSession, TypeOK, BatchInBox, serverVars, uiVars
  <1>6. ASSUME NEW stillRead \in SUBSET Msg, Crash(c, stillRead)
        PROVE  TypeInv'
    <2>1. upsets' \in 0 .. MaxUpset
      BY <1>6, PeerSessionsAssumption DEF Crash, TypeOK
    <2>2. \A m \in Msg : [post[m] EXCEPT !.pc = "ended"] \in Worker
      BY WorkerUpdates DEF TypeOK
    <2>3. post' \in [Msg -> Worker]
      BY <1>6, <2>2 DEF Crash, TypeOK
    <2>4. BatchInBox' /\ sync' \in [Device -> Sync \union {None}]
      BY <1>6, BatchKept DEF Crash, TypeOK, serverVars
    <2>5. /\ session' \in [Device -> [Device -> Session \union {None}]]
          /\ history' \in [Msg -> {"none", "unread", "reverted", "read"}]
          /\ acking' \in [Device -> SUBSET Msg]
          /\ selected' \in [Device -> Device \union {None}]
      BY <1>6 DEF Crash, TypeOK
    <2>6. QED
      BY <1>6, <2>1, <2>3, <2>4, <2>5 DEF Crash, TypeOK, serverVars
  <1>7. QED
    BY <1>1, <1>2, <1>3, <1>4, <1>5, <1>6 DEF UserStep

LEMMA TypeStep == TypeInv /\ [Next]_vars => TypeInv'
  <1>1. ASSUME TypeInv, UNCHANGED vars
        PROVE  TypeInv'
    BY <1>1 DEF TypeInv, TypeOK, BatchInBox, vars, serverVars, uiVars
  <1>2. QED
    BY <1>1, SendTypes, SyncTypes, UserTypes DEF Next

\* Sessions, boxes, batches and histories keep their types, for any number of
\* clients, messages, crashes, resets and deleted chats.
THEOREM TypeCorrect == Spec => []TypeOK
<1>1. TypeInv => TypeOK
  BY DEF TypeInv
<1>2. QED
  BY TypeInit, TypeStep, <1>1, PTL DEF Spec

-----------------------------------------------------------------------------
(***************************************************************************)
(* The history.  A text has one entry or none, and only what has had one   *)
(* is being acknowledged or was.                                           *)
(***************************************************************************)
OneCopy  == \A m \in Msg : copies[m] = IF history[m] = "none" THEN 0 ELSE 1
ShownNow == \A m \in Msg : history[m] # "none" => m \in seen
AckShown == \A c \in Device : acking[c] \subseteq seen

HistoryInv == TypeInv /\ OneCopy /\ ShownNow /\ AckShown /\ AckedWasShown

HistoryState == {"none", "unread", "reverted", "read"}

\* Marking a chat read makes no entry and takes none away, and it acknowledges
\* entries only.
LEMMA MarkReadKeeps ==
  ASSUME TypeOK, NEW c \in Device, NEW p, NEW h \in [Msg -> HistoryState], MarkRead(c, p, h)
  PROVE  /\ \A m \in Msg : history'[m] = "none" <=> h[m] = "none"
         /\ \A d \in Device : \A m \in acking'[d] : m \in acking[d] \/ (m \in Msg /\ h[m] # "none")
  <1>1. \A m \in ToAck(c, p, h) : m \in Msg /\ h[m] \in {"unread", "reverted"}
    BY DEF ToAck, Text
  <1>2. \A m \in Msg : history'[m] = IF m \in ToAck(c, p, h) THEN "read" ELSE h[m]
    BY DEF MarkRead
  <1>3. \A d \in Device : acking'[d] \subseteq acking[d] \union ToAck(c, p, h)
    BY DEF MarkRead, TypeOK
  <1>4. ASSUME NEW m \in Msg
        PROVE  history'[m] = "none" <=> h[m] = "none"
    <2>1. CASE m \in ToAck(c, p, h)
      BY <1>1, <1>2, <2>1
    <2>2. CASE m \notin ToAck(c, p, h)
      BY <1>2, <2>2
    <2>3. QED
      BY <2>1, <2>2
  <1>5. ASSUME NEW d \in Device, NEW m \in acking'[d]
        PROVE  m \in acking[d] \/ (m \in Msg /\ h[m] # "none")
    BY <1>1, <1>3
  <1>6. QED
    BY <1>4, <1>5

\* Where no entry comes or goes, what is acknowledged has one.
LEMMA HistoryKept ==
  ASSUME HistoryInv, UNCHANGED <<copies, seen, acked>>,
         \A m \in Msg : history'[m] = "none" <=> history[m] = "none",
         \A d \in Device : \A m \in acking'[d] :
           m \in acking[d] \/ (m \in Msg /\ history[m] # "none")
  PROVE  OneCopy' /\ ShownNow' /\ AckShown' /\ AckedWasShown'
  BY DEF HistoryInv, OneCopy, ShownNow, AckShown, AckedWasShown

LEMMA HistoryUntouched ==
  ASSUME HistoryInv, UNCHANGED <<history, copies, seen, acking, acked>>
  PROVE  OneCopy' /\ ShownNow' /\ AckShown' /\ AckedWasShown'
  BY DEF HistoryInv, OneCopy, ShownNow, AckShown, AckedWasShown

LEMMA HistoryStep == HistoryInv /\ [Next]_vars => HistoryInv'
  <1> SUFFICES ASSUME HistoryInv, [Next]_vars
               PROVE  OneCopy' /\ ShownNow' /\ AckShown' /\ AckedWasShown'
    BY TypeStep DEF HistoryInv
  <1>1. TypeOK /\ history \in [Msg -> HistoryState]
    BY DEF HistoryInv, TypeInv, TypeOK, HistoryState
  <1>2. ASSUME NEW c \in Device,
               SyncNothing(c) \/ \E p \in Device : SelectChat(c, p)
        PROVE  OneCopy' /\ ShownNow' /\ AckShown' /\ AckedWasShown'
    <2>1. UNCHANGED <<copies, seen, acked>> /\ \E p : MarkRead(c, p, history)
      BY <1>2 DEF SyncNothing, SelectChat, serverVars
    <2>2. QED
      BY <1>1, <2>1, MarkReadKeeps, HistoryKept
  <1>3. ASSUME NEW c \in Device, SyncApply(c)
        PROVE  OneCopy' /\ ShownNow' /\ AckShown' /\ AckedWasShown'
    <2> DEFINE pushed == {m \in sync[c].opened : m \in Text /\ history[m] = "none"}
               h == [m \in Msg |-> IF m \in pushed THEN "unread" ELSE history[m]]
    <2>1. /\ MarkRead(c, selected[c], h)
          /\ copies' = [m \in Msg |-> IF m \in pushed THEN copies[m] + 1 ELSE copies[m]]
          /\ seen' = seen \union pushed /\ acked' = acked
      BY <1>3 DEF SyncApply, serverVars
    <2>2. h \in [Msg -> HistoryState] /\ \A m \in pushed : history[m] = "none"
      BY <1>1 DEF HistoryState
    <2>3. \A m \in Msg : h[m] = "none" <=> history[m] = "none" /\ m \notin pushed
      OBVIOUS
    <2> HIDE DEF pushed, h
    <2>4. /\ \A m \in Msg : history'[m] = "none" <=> h[m] = "none"
          /\ \A d \in Device : \A m \in acking'[d] : m \in acking[d] \/ (m \in Msg /\ h[m] # "none")
      BY <1>1, <2>1, <2>2, MarkReadKeeps
    <2>5. /\ \A m \in Msg : history'[m] = "none" <=> history[m] = "none" /\ m \notin pushed
          /\ \A d \in Device : \A m \in acking'[d] :
               m \in acking[d] \/ (m \in Msg /\ (history[m] # "none" \/ m \in pushed))
      BY <2>3, <2>4
    <2>6. OneCopy'
      BY <2>1, <2>2, <2>5 DEF HistoryInv, OneCopy
    <2>7. ShownNow' /\ AckShown' /\ AckedWasShown'
      BY <2>1, <2>5 DEF HistoryInv, ShownNow, AckShown, AckedWasShown
    <2>8. QED
      BY <2>6, <2>7
  <1>4. ASSUME NEW c \in Device, NEW applied \in BOOLEAN, NEW answered \in BOOLEAN,
               AckEnd(c, applied, answered)
        PROVE  OneCopy' /\ ShownNow' /\ AckShown' /\ AckedWasShown'
    <2>1. \A m \in Msg : history'[m] = "none" <=> history[m] = "none"
      BY <1>4 DEF AckEnd
    <2>2. \A d \in Device : acking'[d] \subseteq acking[d]
      BY <1>1, <1>4 DEF AckEnd, TypeOK
    <2>3. acked' \subseteq acked \union acking[c] /\ seen' = seen /\ copies' = copies
      BY <1>4 DEF AckEnd
    <2>4. QED
      BY <2>1, <2>2, <2>3 DEF HistoryInv, OneCopy, ShownNow, AckShown, AckedWasShown
  <1>5. ASSUME NEW c \in Device, NEW p \in Device, DeleteChat(c, p)
        PROVE  OneCopy' /\ ShownNow' /\ AckShown' /\ AckedWasShown'
    <2> DEFINE chat == {m \in Text : To[m] = c /\ From[m] = p}
    <2>1. /\ history' = [m \in Msg |-> IF m \in chat THEN "none" ELSE history[m]]
          /\ copies' = [m \in Msg |-> IF m \in chat THEN 0 ELSE copies[m]]
          /\ UNCHANGED <<seen, acking, acked>>
      BY <1>5 DEF DeleteChat, serverVars
    <2> HIDE DEF chat
    <2>2. QED
      BY <2>1 DEF HistoryInv, OneCopy, ShownNow, AckShown, AckedWasShown
  <1>6. ASSUME NEW c \in Device, NEW stillRead \in SUBSET Msg, Crash(c, stillRead)
        PROVE  OneCopy' /\ ShownNow' /\ AckShown' /\ AckedWasShown'
    <2>1. \A m \in stillRead : history[m] = "reverted"
      BY <1>6 DEF Crash
    <2>2. history' = [m \in Msg |-> IF m \in stillRead THEN "read" ELSE history[m]]
      BY <1>6 DEF Crash
    <2>3. \A m \in Msg : history'[m] = "none" <=> history[m] = "none"
      BY <2>1, <2>2
    <2>4. /\ UNCHANGED <<copies, seen, acked>>
          /\ \A d \in Device : acking'[d] \subseteq acking[d]
      BY <1>1, <1>6 DEF Crash, TypeOK, serverVars
    <2>5. \A d \in Device : \A m \in acking'[d] :
            m \in acking[d] \/ (m \in Msg /\ history[m] # "none")
      BY <2>4
    <2>6. QED
      BY <2>3, <2>4, <2>5, HistoryKept
  <1>7. ASSUME \/ \E m \in Msg : SendStep(m)
               \/ \E c \in Device :
                    \/ SyncFetch(c) \/ SyncRetry(c) \/ LeaveChat(c) \/ ResetSession(c)
                    \/ \E derived \in SUBSET Device : SyncDecrypt(c, derived)
                    \/ \E fetched, derived \in BOOLEAN : SyncRefresh(c, fetched, derived)
               \/ UNCHANGED vars
        PROVE  UNCHANGED <<history, copies, seen, acking, acked>>
    BY <1>7 DEF SendStep, SendText, OpenChat, Seal, Post, PersistSent, SyncFetch, SyncRetry,
         LeaveChat, ResetSession, SyncDecrypt, SyncRefresh, vars, serverVars, uiVars
  <1>8. QED
    BY <1>2, <1>3, <1>4, <1>5, <1>6, <1>7, HistoryUntouched DEF Next, SyncStep, UserStep

LEMMA HistoryInit == Init => HistoryInv
  <1>1. ASSUME Init
        PROVE  OneCopy /\ ShownNow /\ AckShown /\ AckedWasShown
    BY <1>1 DEF Init, OneCopy, ShownNow, AckShown, AckedWasShown
  <1>2. QED
    BY <1>1, TypeInit DEF HistoryInv

\* However often a text is fetched and opened again, after refreshes, resets,
\* deleted chats and crashes of any number, the history has at most one entry of it.
THEOREM NoDuplicatesHolds == Spec => []NoDuplicates
<1>1. HistoryInv => NoDuplicates
  BY DEF HistoryInv, OneCopy, NoDuplicates
<1>2. QED
  BY HistoryInit, HistoryStep, <1>1, PTL DEF Spec

\* The store learns "read" only of texts the recipient's history has shown.
THEOREM AckedWasShownHolds == Spec => []AckedWasShown
<1>1. HistoryInv => AckedWasShown
  BY DEF HistoryInv
<1>2. QED
  BY HistoryInit, HistoryStep, <1>1, PTL DEF Spec

-----------------------------------------------------------------------------
(***************************************************************************)
(* The chains.  A receiving chain stands one past the key of a message     *)
(* that is stored, in memory and in the session file alike: a crash takes  *)
(* the file's sessions back.                                               *)
(***************************************************************************)
Keys(c, p) == {post[m].counter + 1 : m \in {k \in Msg : From[k] = p /\ To[k] = c /\ Stored(k)}}

\* A message in a box is addressed to its owner, and its counter is settled.
MailPosted ==
  \A c \in Device : \A i \in DOMAIN box[c] :
    To[box[c][i]] = c /\ post[box[c][i]].pc \in {"posted", "ended"}

SavedBehindSent ==
  \A c, p \in Device : saved[c][p] # None /\ saved[c][p].recv > 0 => saved[c][p].recv \in Keys(c, p)

ChainInv == TypeInv /\ MailPosted /\ ReceiveBehindSent /\ SavedBehindSent

\* Stored messages stay, with the counter they were sealed with.
LEMMA MailStep ==
  ASSUME TypeInv, MailPosted, [Next]_vars
  PROVE  /\ MailPosted'
         /\ \A m \in Msg : Stored(m) => Stored(m)' /\ post'[m].counter = post[m].counter
  <1> USE DEF TypeInv
  <1>1. ASSUME UNCHANGED <<box, post>>
        PROVE  /\ MailPosted'
               /\ \A m \in Msg : Stored(m) => Stored(m)' /\ post'[m].counter = post[m].counter
    BY <1>1 DEF MailPosted, Stored
  <1>2. ASSUME UNCHANGED box,
               \A m \in Msg : post[m].pc \in {"posted", "ended"} =>
                 post'[m].pc \in {"posted", "ended"} /\ post'[m].counter = post[m].counter
        PROVE  /\ MailPosted'
               /\ \A m \in Msg : Stored(m) => Stored(m)' /\ post'[m].counter = post[m].counter
    <2>1. \A m \in Msg : Stored(m) => post[m].pc \in {"posted", "ended"}
      BY PeerSessionsAssumption DEF MailPosted, Stored, Range
    <2>2. MailPosted'
      BY <1>2, Boxes DEF MailPosted
    <2>3. QED
      BY <1>2, <2>1, <2>2 DEF Stored
  <1>3. ASSUME NEW m \in Msg, SendText(m) \/ OpenChat(m) \/ Seal(m) \/ PersistSent(m)
        PROVE  /\ UNCHANGED box
               /\ \A k \in Msg : post[k].pc \in {"posted", "ended"} =>
                    post'[k].pc \in {"posted", "ended"} /\ post'[k].counter = post[k].counter
    <2>1. UNCHANGED box /\ \A k \in Msg \ {m} : post'[k] = post[k]
      BY <1>3 DEF SendText, OpenChat, Seal, PersistSent, serverVars, TypeOK
    <2>2. ASSUME post[m].pc \in {"posted", "ended"}
          PROVE  post'[m] = [post[m] EXCEPT !.pc = "ended"]
      BY <1>3, <2>2 DEF SendText, OpenChat, Seal, PersistSent, TypeOK
    <2>3. [post[m] EXCEPT !.pc = "ended"].pc = "ended"
          /\ [post[m] EXCEPT !.pc = "ended"].counter = post[m].counter
      BY WorkerUpdates DEF TypeOK
    <2>4. QED
      BY <2>1, <2>2, <2>3
  <1>4. ASSUME NEW m \in Msg, NEW stored \in BOOLEAN, Post(m, stored)
        PROVE  /\ MailPosted'
               /\ \A k \in Msg : Stored(k) => Stored(k)' /\ post'[k].counter = post[k].counter
    <2>1. /\ post' = [post EXCEPT ![m] = [@ EXCEPT !.pc = "posted"]]
          /\ box' = IF stored THEN [box EXCEPT ![To[m]] = Append(@, m)] ELSE box
      BY <1>4 DEF Post
    <2>2. /\ post'[m].pc = "posted" /\ post'[m].counter = post[m].counter
          /\ \A k \in Msg \ {m} : post'[k] = post[k]
      BY <2>1, WorkerUpdates DEF TypeOK
    <2>3. To[m] \in Device /\ box[To[m]] \in Seq(Msg)
      BY PeerSessionsAssumption DEF TypeOK
    <2>4. ASSUME NEW c \in Device
          PROVE  /\ \A i \in DOMAIN box[c] : i \in DOMAIN box'[c] /\ box'[c][i] = box[c][i]
                 /\ \A i \in DOMAIN box'[c] :
                      \/ i \in DOMAIN box[c] /\ box'[c][i] = box[c][i]
                      \/ c = To[m] /\ box'[c][i] = m
      <3>1. CASE stored /\ c = To[m]
        <4>1. box'[c] = Append(box[c], m)
          BY <2>1, <3>1 DEF TypeOK
        <4>2. QED
          BY <2>3, <3>1, <4>1
      <3>2. CASE ~(stored /\ c = To[m])
        BY <2>1, <2>3, <3>2 DEF TypeOK
      <3>3. QED
        BY <3>1, <3>2
    <2>5. ASSUME NEW c \in Device, NEW i \in DOMAIN box[c]
          PROVE  box[c][i] \in Msg /\ post[box[c][i]].pc \in {"posted", "ended"}
                 /\ post'[box[c][i]].pc \in {"posted", "ended"}
      BY <2>2, Boxes DEF MailPosted
    <2>6. MailPosted'
      BY <2>2, <2>4, <2>5 DEF MailPosted
    <2>7. \A k \in Msg : Stored(k) => Stored(k)'
      BY <2>4, PeerSessionsAssumption DEF Stored, Range
    <2>8. QED
      BY <2>2, <2>6, <2>7
  <1>5. ASSUME NEW c \in Device, NEW stillRead \in SUBSET Msg, Crash(c, stillRead)
        PROVE  /\ UNCHANGED box
               /\ \A k \in Msg : post[k].pc \in {"posted", "ended"} =>
                    post'[k].pc \in {"posted", "ended"} /\ post'[k].counter = post[k].counter
    <2>1. \A k \in Msg : post'[k] = post[k] \/ post'[k] = [post[k] EXCEPT !.pc = "ended"]
      BY <1>5 DEF Crash
    <2>2. \A k \in Msg : /\ [post[k] EXCEPT !.pc = "ended"].pc = "ended"
                         /\ [post[k] EXCEPT !.pc = "ended"].counter = post[k].counter
      BY WorkerUpdates DEF TypeOK
    <2>3. UNCHANGED box
      BY <1>5 DEF Crash, serverVars
    <2>4. QED
      BY <2>1, <2>2, <2>3
  <1>6. ASSUME \/ \E c \in Device : SyncStep(c)
               \/ \E c \in Device :
                    \/ \E p \in Device : SelectChat(c, p) \/ DeleteChat(c, p)
                    \/ \E applied, answered \in BOOLEAN : AckEnd(c, applied, answered)
                    \/ LeaveChat(c) \/ ResetSession(c)
               \/ UNCHANGED vars
        PROVE  UNCHANGED <<box, post>>
    BY <1>6 DEF SyncStep, SyncNothing, SyncFetch, SyncDecrypt, SyncRefresh, SyncRetry, SyncApply,
         SelectChat, DeleteChat, AckEnd, LeaveChat, ResetSession, vars, serverVars
  <1>7. QED
    BY <1>1, <1>2, <1>3, <1>4, <1>5, <1>6 DEF Next, SendStep, UserStep

LEMMA KeysGrow ==
  ASSUME TypeInv, MailPosted, [Next]_vars, NEW c \in Device, NEW p \in Device
  PROVE  Keys(c, p) \subseteq Keys(c, p)'
  BY MailStep DEF Keys

\* What a batch opens is a stored message for the client, so its key is a known one.
LEMMA AdvancedKeys ==
  ASSUME TypeInv, MailPosted, NEW c \in Device, NEW s \in [Device -> Session \union {None}],
         NEW batch \in SUBSET DOMAIN box[c], NEW p \in Device
  PROVE  \/ Advanced(c, s, batch)[p] = s[p]
         \/ Advanced(c, s, batch)[p].recv \in Keys(c, p)
  <1> USE DEF TypeInv
  <1>1. CASE Advanced(c, s, batch)[p] # s[p]
    <2>1. PICK m \in Opening(c, s, batch) :
            /\ From[m] = p
            /\ Advanced(c, s, batch)[p] = [s[p] EXCEPT !.recv = 1 + post[m].counter]
      BY <1>1, AdvancedBy
    <2>2. m \in Msg /\ s[p] # None /\ \E i \in DOMAIN box[c] : m = box[c][i]
      BY <2>1, OpeningInBatch
    <2>3. To[m] = c /\ Stored(m) /\ post[m].counter \in Nat
      BY <2>2 DEF MailPosted, Stored, Range, TypeOK, Worker
    <2>4. Advanced(c, s, batch)[p].recv = 1 + post[m].counter
      BY <2>1, <2>2, <2>3, SessionUpdates
    <2>5. 1 + post[m].counter = post[m].counter + 1
      BY <2>3
    <2>6. QED
      BY <2>1, <2>2, <2>3, <2>4, <2>5 DEF Keys
  <1>2. QED
    BY <1>1

\* Where a session of a client comes from in a step: it stays, loses what it
\* received, comes back from the file, or has received a stored message.
LEMMA SessionStep ==
  ASSUME TypeInv, MailPosted, [Next]_vars, NEW c \in Device, NEW p \in Device,
         session'[c][p] # None
  PROVE  \/ session[c][p] # None /\ session'[c][p].recv = session[c][p].recv
         \/ saved[c][p] # None /\ session'[c][p].recv = saved[c][p].recv
         \/ session'[c][p].recv = 0
         \/ session'[c][p].recv \in Keys(c, p)
  <1> DEFINE Known == \/ session[c][p] # None /\ session'[c][p].recv = session[c][p].recv
                      \/ saved[c][p] # None /\ session'[c][p].recv = saved[c][p].recv
                      \/ session'[c][p].recv = 0
                      \/ session'[c][p].recv \in Keys(c, p)
  <1> USE DEF TypeInv
  <1>1. CASE session'[c][p] = session[c][p]
    BY <1>1
  <1>2. CASE session'[c][p] = NewSession
    BY <1>2 DEF NewSession
  <1>3. ASSUME NEW m \in Msg, OpenChat(m)
        PROVE  session'[c][p] = session[c][p] \/ session'[c][p] = NewSession
    BY <1>3, PeerSessionsAssumption DEF OpenChat, TypeOK
  <1>4. ASSUME NEW m \in Msg, Seal(m), session'[c][p] # session[c][p]
        PROVE  Known
    <2>1. /\ session[From[m]][To[m]] # None
          /\ session' = [session EXCEPT ![From[m]] =
                           [@ EXCEPT ![To[m]] = [session[From[m]][To[m]] EXCEPT !.send = @ + 1]]]
      BY <1>4, PeerSessionsAssumption DEF Seal, TypeOK
    <2>2. From[m] = c /\ To[m] = p
      BY <1>4, <2>1, PeerSessionsAssumption DEF TypeOK
    <2>3. session'[c][p] = [session[c][p] EXCEPT !.send = @ + 1]
      BY <2>1, <2>2 DEF TypeOK
    <2>4. QED
      BY <2>1, <2>2, <2>3, SessionUpdates, Records
  <1>5. ASSUME NEW d \in Device, NEW derived \in SUBSET Device, SyncDecrypt(d, derived)
        PROVE  Known
    <2> DEFINE s == [q \in Device |-> IF q \in derived THEN NewSession ELSE session[d][q]]
    <2>1. s \in [Device -> Session \union {None}]
      BY DerivedType
    <2>2. s[p] = NewSession \/ s[p] = session[d][p]
      OBVIOUS
    <2>3. session' = [session EXCEPT ![d] = Advanced(d, s, sync[d].batch)] /\ sync[d] # None
      BY <1>5 DEF SyncDecrypt
    <2> HIDE DEF s
    <2>4. CASE c = d
      <3>1. session'[c][p] = Advanced(d, s, sync[d].batch)[p]
        BY <2>3, <2>4 DEF TypeOK
      <3>2. sync[d].batch \in SUBSET DOMAIN box[d]
        BY <2>3 DEF BatchInBox
      <3>3. session'[c][p] = s[p] \/ session'[c][p].recv \in Keys(c, p)
        BY <2>1, <2>4, <3>1, <3>2, AdvancedKeys
      <3>4. QED
        BY <1>1, <1>2, <2>2, <2>4, <3>3
    <2>5. CASE c # d
      BY <1>1, <2>3, <2>5
    <2>6. QED
      BY <2>4, <2>5
  <1>6. ASSUME NEW d \in Device, NEW fetched \in BOOLEAN, NEW derived \in BOOLEAN,
               SyncRefresh(d, fetched, derived)
        PROVE  session'[c][p] = session[c][p] \/ session'[c][p] = NewSession
    <2>1. PICK i \in sync[d].left :
            session' = IF derived THEN [session EXCEPT ![d][From[box[d][i]]] = NewSession]
                                  ELSE session
      BY <1>6 DEF SyncRefresh
    <2>2. From[box[d][i]] \in Device
      BY <1>6, <2>1, Boxes DEF SyncRefresh, BatchInBox
    <2>3. QED
      BY <2>1, <2>2 DEF TypeOK
  <1>7. ASSUME NEW d \in Device, SyncRetry(d), session'[c][p] # session[c][p]
        PROVE  Known
    <2>1. session' = [session EXCEPT ![d] = Advanced(d, session[d], sync[d].batch)]
          /\ sync[d] # None
      BY <1>7 DEF SyncRetry, TypeOK
    <2>2. c = d
      BY <1>7, <2>1 DEF TypeOK
    <2>3. session'[c][p] = Advanced(c, session[c], sync[c].batch)[p]
      BY <2>1, <2>2 DEF TypeOK
    <2>4. sync[c].batch \in SUBSET DOMAIN box[c] /\ session[c] \in [Device -> Session \union {None}]
      BY <2>1, <2>2 DEF BatchInBox, TypeOK
    <2>5. session'[c][p].recv \in Keys(c, p)
      BY <1>7, <2>3, <2>4, AdvancedKeys
    <2>6. QED
      BY <2>5
  <1>8. ASSUME NEW d \in Device, ResetSession(d)
        PROVE  session'[c][p] = session[c][p]
    BY <1>8 DEF ResetSession, TypeOK
  <1>9. ASSUME NEW d \in Device, NEW stillRead \in SUBSET Msg, Crash(d, stillRead)
        PROVE  Known
    <2>1. session'[c][p] = session[c][p] \/ session'[c][p] = saved[c][p]
      BY <1>9 DEF Crash, TypeOK
    <2>2. QED
      BY <2>1
  <1>10. ASSUME \/ \E m \in Msg : SendText(m) \/ PersistSent(m) \/ \E stored \in BOOLEAN : Post(m, stored)
                \/ \E d \in Device :
                     \/ SyncNothing(d) \/ SyncFetch(d) \/ SyncApply(d) \/ LeaveChat(d)
                     \/ \E q \in Device : SelectChat(d, q) \/ DeleteChat(d, q)
                     \/ \E applied, answered \in BOOLEAN : AckEnd(d, applied, answered)
                \/ UNCHANGED vars
         PROVE  session' = session
    BY <1>10 DEF SendText, PersistSent, Post, SyncNothing, SyncFetch, SyncApply, LeaveChat,
         SelectChat, DeleteChat, AckEnd, vars
  <1>11. Known
    <2> HIDE DEF Known
    <2>1. session'[c][p] = session[c][p] \/ session'[c][p] = NewSession => Known
      BY <1>1, <1>2 DEF Known
    <2>2. QED
      BY <2>1, <1>3, <1>4, <1>5, <1>6, <1>7, <1>8, <1>9, <1>10
         DEF Next, SendStep, SyncStep, UserStep
  <1>12. QED
    BY <1>11

\* The file is written from memory.
LEMMA SavedStep ==
  ASSUME TypeInv, [Next]_vars, NEW c \in Device, NEW p \in Device
  PROVE  saved'[c][p] = saved[c][p] \/ saved'[c][p] = session'[c][p]
  <1>1. \/ saved' = saved
        \/ \E d \in Device : saved' = [saved EXCEPT ![d] = session'[d]]
    BY PeerSessionsAssumption
       DEF Next, SendStep, SyncStep, UserStep, SendText, OpenChat, Seal, Post, PersistSent,
           SyncNothing, SyncFetch, SyncDecrypt, SyncRefresh, SyncRetry, SyncApply, SelectChat,
           DeleteChat, AckEnd, LeaveChat, ResetSession, Crash, vars
  <1>2. QED
    BY <1>1 DEF TypeInv, TypeOK

LEMMA ChainStep == ChainInv /\ [Next]_vars => ChainInv'
  <1> SUFFICES ASSUME ChainInv, [Next]_vars
               PROVE  ChainInv'
    OBVIOUS
  <1>1. TypeInv' /\ MailPosted'
    BY TypeStep, MailStep DEF ChainInv
  <1>2. ASSUME NEW c \in Device, NEW p \in Device, session'[c][p] # None, session'[c][p].recv > 0
        PROVE  session'[c][p].recv \in Keys(c, p)'
    <2>1. \/ session[c][p] # None /\ session'[c][p].recv = session[c][p].recv
          \/ saved[c][p] # None /\ session'[c][p].recv = saved[c][p].recv
          \/ session'[c][p].recv \in Keys(c, p)
      BY <1>2, SessionStep DEF ChainInv
    <2>2. session'[c][p].recv \in Keys(c, p)
      BY <1>2, <2>1 DEF ChainInv, ReceiveBehindSent, SavedBehindSent, Keys
    <2>3. QED
      BY <2>2, KeysGrow DEF ChainInv
  <1>3. ASSUME NEW c \in Device, NEW p \in Device, saved'[c][p] # None, saved'[c][p].recv > 0
        PROVE  saved'[c][p].recv \in Keys(c, p)'
    <2>1. CASE saved'[c][p] = saved[c][p]
      BY <1>3, <2>1, KeysGrow DEF ChainInv, SavedBehindSent
    <2>2. CASE saved'[c][p] = session'[c][p]
      BY <1>2, <1>3, <2>2
    <2>3. QED
      BY <2>1, <2>2, SavedStep DEF ChainInv
  <1>4. ReceiveBehindSent'
    <2>1. \A c, p \in Device : \A n \in Keys(c, p)' :
            \E m \in Msg : From[m] = p /\ To[m] = c /\ Stored(m)' /\ post'[m].counter + 1 = n
      BY DEF Keys
    <2>2. QED
      BY <1>2, <2>1 DEF ReceiveBehindSent
  <1>5. SavedBehindSent'
    BY <1>3 DEF SavedBehindSent
  <1>6. QED
    BY <1>1, <1>4, <1>5 DEF ChainInv

\* A receiving chain is never past the keys of the messages that were stored for
\* it, whatever is refetched, refreshed, reset or restored from the file.
THEOREM ReceiveBehindSentHolds == Spec => []ReceiveBehindSent
<1>1. Init => ChainInv
  <2>1. ASSUME Init
        PROVE  MailPosted /\ ReceiveBehindSent /\ SavedBehindSent
    BY <2>1 DEF Init, MailPosted, ReceiveBehindSent, SavedBehindSent
  <2>2. QED
    BY <2>1, TypeInit DEF ChainInv
<1>2. ChainInv => ReceiveBehindSent
  BY DEF ChainInv
<1>3. QED
  BY <1>1, <1>2, ChainStep, PTL DEF Spec

-----------------------------------------------------------------------------
(***************************************************************************)
(* Texts that nobody will read.  A contact message is never acknowledged,  *)
(* so it is in each batch that has a later message, and takes the chain    *)
(* past the counters that are not above its own.                           *)
(***************************************************************************)
\* Ahead of m in the box is a contact message of the same sender, with a counter not
\* below the one of m.
BehindContact(m) ==
  \E i, j \in DOMAIN box[To[m]] :
    LET k == box[To[m]][i] IN
      /\ i < j /\ box[To[m]][j] = m
      /\ From[k] = From[m] /\ k \in Contact /\ post[k].counter >= post[m].counter

LostBehindContact == \A m \in Text : BehindContact(m) => m \notin seen

\* A message is stored once.
StoredOnce == \A c \in Device : \A i, j \in DOMAIN box[c] : box[c][i] = box[c][j] => i = j

\* A batch has the contact messages ahead of what it has.
BatchWhole ==
  \A c \in Device : sync[c] # None =>
    \A j \in sync[c].batch : \A i \in DOMAIN box[c] :
      i < j /\ box[c][i] \in Contact => i \in sync[c].batch

\* What is opened, and what was ever shown, is behind no contact message.
InFront(m) == Stored(m) /\ ~BehindContact(m)
OpenedInFront == \A c \in Device : sync[c] # None => \A m \in sync[c].opened : InFront(m)
SeenInFront == \A m \in seen : InFront(m)

LostInv ==
  /\ HistoryInv /\ MailPosted
  /\ StoredOnce /\ BatchWhole /\ OpenedInFront /\ SeenInFront

\* How a box changes: a message that was in none is appended.
LEMMA BoxStep ==
  ASSUME TypeInv, MailPosted, [Next]_vars, NEW c \in Device
  PROVE  /\ \A i \in DOMAIN box[c] : i \in DOMAIN box'[c] /\ box'[c][i] = box[c][i]
         /\ \A i \in DOMAIN box'[c] :
              \/ i \in DOMAIN box[c]
              \/ /\ \A j \in DOMAIN box'[c] : j <= i
                 /\ \A j \in DOMAIN box[c] : box[c][j] # box'[c][i]
                 /\ box'[c][i] \in Msg /\ To[box'[c][i]] = c /\ ~Stored(box'[c][i])
  <1>1. CASE box'[c] = box[c]
    BY <1>1
  <1>2. ASSUME NEW m \in Msg, Post(m, TRUE), c = To[m]
        PROVE  /\ \A i \in DOMAIN box[c] : i \in DOMAIN box'[c] /\ box'[c][i] = box[c][i]
               /\ \A i \in DOMAIN box'[c] :
                    \/ i \in DOMAIN box[c]
                    \/ (\A j \in DOMAIN box'[c] : j <= i) /\ box'[c][i] = m
    <2>1. box[c] \in Seq(Msg) /\ box'[c] = Append(box[c], m)
      BY <1>2 DEF Post, TypeInv, TypeOK
    <2>2. QED
      BY <2>1
  <1>3. ASSUME NEW m \in Msg, Post(m, TRUE), c = To[m]
        PROVE  ~Stored(m) /\ \A j \in DOMAIN box[c] : box[c][j] # m
    <2>1. \A j \in DOMAIN box[c] : box[c][j] # m
      BY <1>3 DEF Post, MailPosted
    <2>2. QED
      BY <1>3, <2>1 DEF Stored, Range
  <1>4. box'[c] = box[c] \/ \E m \in Msg : Post(m, TRUE) /\ c = To[m]
    <2>1. ASSUME NEW m \in Msg, NEW stored \in BOOLEAN, Post(m, stored)
          PROVE  box'[c] = box[c] \/ (Post(m, TRUE) /\ c = To[m])
      <3>1. CASE stored = TRUE
        BY <2>1, <3>1 DEF Post, TypeInv, TypeOK
      <3>2. CASE stored = FALSE
        BY <2>1, <3>2 DEF Post
      <3>3. QED
        BY <3>1, <3>2
    <2>2. ASSUME \/ \E m \in Msg : SendText(m) \/ OpenChat(m) \/ Seal(m) \/ PersistSent(m)
                 \/ \E d \in Device : SyncStep(d) \/ UserStep(d)
                 \/ UNCHANGED vars
          PROVE  box' = box
      BY <2>2 DEF SendText, OpenChat, Seal, PersistSent, SyncStep, UserStep, SyncNothing,
           SyncFetch, SyncDecrypt, SyncRefresh, SyncRetry, SyncApply, SelectChat, DeleteChat,
           AckEnd, LeaveChat, ResetSession, Crash, vars, serverVars
    <2>3. QED
      BY <2>1, <2>2 DEF Next, SendStep
  <1>5. QED
    BY <1>1, <1>2, <1>3, <1>4

\* What is in front stays in front: places and counters of stored messages are settled,
\* and whatever comes later comes behind it.
LEMMA StaysInFront ==
  ASSUME LostInv, [Next]_vars, NEW m \in Msg, InFront(m)
  PROVE  InFront(m)'
  <1> DEFINE c == To[m]
  <1>t. TypeInv /\ TypeOK /\ MailPosted /\ c \in Device
    BY PeerSessionsAssumption DEF LostInv, HistoryInv, TypeInv
  <1>1. Stored(m) /\ Stored(m)' /\ \A k \in Msg : Stored(k) => post'[k].counter = post[k].counter
    BY <1>t, MailStep DEF InFront
  <1>2. PICK n \in DOMAIN box[c] : box[c][n] = m
    BY <1>1 DEF Stored, Range
  <1>3. ASSUME NEW i \in DOMAIN box'[c], NEW j \in DOMAIN box'[c], i < j, box'[c][j] = m
        PROVE  i \in DOMAIN box[c] /\ j \in DOMAIN box[c]
    <2>1. j \in DOMAIN box[c]
      BY <1>t, <1>1, <1>3, BoxStep
    <2>2. i \in DOMAIN box[c]
      <3>1. i \in Nat /\ j \in Nat
        <4>1. box'[c] \in Seq(Msg)
          BY <1>t, TypeStep DEF TypeInv, TypeOK
        <4>2. QED
          BY <4>1
      <3>2. ~(\A k \in DOMAIN box'[c] : k <= i)
        BY <1>3, <3>1
      <3>3. QED
        BY <1>t, <3>2, BoxStep
    <2>3. QED
      BY <2>1, <2>2
  <1>4. ASSUME NEW i \in DOMAIN box[c], NEW j \in DOMAIN box[c]
        PROVE  /\ box'[c][i] = box[c][i] /\ box'[c][j] = box[c][j]
               /\ post'[box[c][i]].counter = post[box[c][i]].counter
    <2>1. box[c][i] \in Msg /\ Stored(box[c][i])
      BY <1>t, Boxes DEF MailPosted, Stored, Range
    <2>2. QED
      BY <1>t, <1>1, <2>1, BoxStep
  <1>5. ASSUME BehindContact(m)'
        PROVE  BehindContact(m)
    <2>1. PICK i \in DOMAIN box'[c], j \in DOMAIN box'[c] :
            /\ i < j /\ box'[c][j] = m
            /\ From[box'[c][i]] = From[m] /\ box'[c][i] \in Contact
            /\ post'[box'[c][i]].counter >= post'[m].counter
      BY <1>5 DEF BehindContact
    <2>2. i \in DOMAIN box[c] /\ j \in DOMAIN box[c]
      BY <1>3, <2>1
    <2>3. QED
      BY <1>1, <1>4, <2>1, <2>2 DEF BehindContact
  <1>6. QED
    BY <1>1, <1>5 DEF InFront

\* What a batch opens is in front: the contact message it would be behind is in the batch
\* as well, and opens first or is stale itself.
LEMMA OpeningInFront ==
  ASSUME LostInv, NEW c \in Device, sync[c] # None, NEW s
  PROVE  \A m \in Opening(c, s, sync[c].batch) : InFront(m)
  <1> SUFFICES ASSUME NEW m \in Opening(c, s, sync[c].batch)
               PROVE  InFront(m)
    OBVIOUS
  <1>t. TypeInv /\ TypeOK /\ sync[c].batch \subseteq DOMAIN box[c]
    BY DEF LostInv, HistoryInv, TypeInv, BatchInBox
  <1>1. PICK j \in sync[c].batch :
          /\ m = box[c][j]
          /\ \A k \in sync[c].batch :
               k < j /\ From[box[c][k]] = From[m] => post[box[c][k]].counter < post[m].counter
    BY DEF Opening
  <1>2. j \in DOMAIN box[c] /\ m \in Msg /\ To[m] = c /\ Stored(m)
    BY <1>t, <1>1, Boxes DEF LostInv, MailPosted, Stored, Range
  <1>3. ASSUME BehindContact(m)
        PROVE  FALSE
    <2>1. PICK i \in DOMAIN box[c], n \in DOMAIN box[c] :
            /\ i < n /\ box[c][n] = m
            /\ From[box[c][i]] = From[m] /\ box[c][i] \in Contact
            /\ post[box[c][i]].counter >= post[m].counter
      BY <1>2, <1>3 DEF BehindContact
    <2>2. n = j
      BY <1>1, <1>2, <2>1 DEF LostInv, StoredOnce
    <2>3. i \in sync[c].batch
      BY <2>1, <2>2 DEF LostInv, BatchWhole
    <2>4. post[box[c][i]].counter \in Nat /\ post[m].counter \in Nat
      BY <1>t, <1>2, <2>1, Boxes DEF TypeOK, Worker
    <2>5. QED
      BY <1>1, <2>1, <2>2, <2>3, <2>4
  <1>4. QED
    BY <1>2, <1>3 DEF InFront

\* What a sync works on: its batch, once fetched, and what that opened.
LEMMA SyncEffect ==
  ASSUME TypeInv, [Next]_vars, NEW c \in Device, sync'[c] # None
  PROVE  \/ /\ sync[c] # None /\ sync'[c].batch = sync[c].batch
            /\ \/ sync'[c].opened = sync[c].opened
               \/ \E s : sync'[c].opened = Opening(c, s, sync[c].batch)
         \/ /\ UNCHANGED box
            /\ sync'[c].batch = First(FetchLimit, Pending(c)) /\ sync'[c].opened = {}
  <1> USE DEF TypeInv
  <1> DEFINE Works == \/ /\ sync[c] # None /\ sync'[c].batch = sync[c].batch
                         /\ \/ sync'[c].opened = sync[c].opened
                            \/ \E s : sync'[c].opened = Opening(c, s, sync[c].batch)
                      \/ /\ UNCHANGED box
                         /\ sync'[c].batch = First(FetchLimit, Pending(c))
                         /\ sync'[c].opened = {}
  <1>1. CASE sync'[c] = sync[c]
    BY <1>1
  <1>2. ASSUME NEW d \in Device, NEW new, sync' = [sync EXCEPT ![d] = new], c # d
        PROVE  sync'[c] = sync[c]
    BY <1>2 DEF TypeOK
  <1>3. ASSUME NEW d \in Device, SyncFetch(d)
        PROVE  Works
    <2> DEFINE P == First(FetchLimit, Pending(d))
               new == [pc |-> "fetched", batch |-> P, left |-> P,
                       refreshed |-> FALSE, opened |-> {}]
    <2>1. sync' = [sync EXCEPT ![d] = new] /\ UNCHANGED box
      BY <1>3 DEF SyncFetch, serverVars
    <2>2. CASE c = d
      BY <2>1, <2>2 DEF TypeOK
    <2> HIDE DEF new
    <2>3. QED
      BY <1>1, <1>2, <2>1, <2>2
  <1>4. ASSUME NEW d \in Device, NEW derived \in SUBSET Device, SyncDecrypt(d, derived)
        PROVE  Works
    <2>1. CASE c = d
      <3> DEFINE s == [p \in Device |-> IF p \in derived THEN NewSession ELSE session[c][p]]
                 opened == Opening(c, s, sync[c].batch)
                 pc == IF opened = {} THEN "refresh" ELSE "apply"
      <3>1. sync[c] \in Sync /\ sync[c] # None
        BY <1>4, <2>1, Records DEF SyncDecrypt
      <3>2. sync' = [sync EXCEPT ![c].opened = opened, ![c].pc = pc]
        BY <1>4, <2>1 DEF SyncDecrypt
      <3> HIDE DEF opened, pc
      <3>3. sync'[c] = [sync[c] EXCEPT !.opened = opened, !.pc = pc]
        BY <3>2 DEF TypeOK
      <3>4. sync'[c].batch = sync[c].batch /\ sync'[c].opened = opened
        BY <3>1, <3>3 DEF Sync
      <3>5. QED
        BY <3>1, <3>4 DEF opened
    <2>2. CASE c # d
      BY <1>1, <1>4, <2>2 DEF SyncDecrypt, TypeOK
    <2>3. QED
      BY <2>1, <2>2
  <1>5. ASSUME NEW d \in Device, NEW fetched \in BOOLEAN, NEW derived \in BOOLEAN,
               SyncRefresh(d, fetched, derived)
        PROVE  Works
    <2>1. PICK i \in sync[d].left :
            sync' = [sync EXCEPT ![d].left = @ \ {i}, ![d].refreshed = @ \/ fetched]
      BY <1>5 DEF SyncRefresh
    <2>2. CASE c = d
      <3> DEFINE r == sync[c].refreshed \/ fetched
      <3>1. sync[c] \in Sync /\ sync[c] # None
        BY <1>5, <2>2, Records DEF SyncRefresh
      <3>2. sync'[c] = [sync[c] EXCEPT !.left = @ \ {i}, !.refreshed = r]
        BY <2>1, <2>2 DEF TypeOK
      <3> HIDE DEF r
      <3>3. sync'[c].batch = sync[c].batch /\ sync'[c].opened = sync[c].opened
        BY <3>1, <3>2 DEF Sync
      <3>4. QED
        BY <3>1, <3>3
    <2>3. CASE c # d
      BY <1>1, <2>1, <2>3 DEF TypeOK
    <2>4. QED
      BY <2>2, <2>3
  <1>6. ASSUME NEW d \in Device, SyncRetry(d)
        PROVE  Works
    <2>1. CASE c = d
      <3> DEFINE opened == Opening(c, session[c], sync[c].batch)
      <3>1. sync[c] \in Sync /\ sync[c] # None
        BY <1>6, <2>1, Records DEF SyncRetry
      <3>2. \/ sync'[c] = [sync[c] EXCEPT !.pc = "apply", !.opened = opened]
            \/ sync'[c] = [sync[c] EXCEPT !.pc = "apply"]
        BY <1>6, <2>1 DEF SyncRetry, TypeOK
      <3> HIDE DEF opened
      <3>3. /\ sync'[c].batch = sync[c].batch
            /\ sync'[c].opened = opened \/ sync'[c].opened = sync[c].opened
        BY <3>1, <3>2 DEF Sync
      <3>4. QED
        BY <3>1, <3>3 DEF opened
    <2>2. CASE c # d
      BY <1>1, <1>6, <2>2 DEF SyncRetry, TypeOK
    <2>3. QED
      BY <2>1, <2>2
  <1>7. ASSUME \/ \E m \in Msg : SendStep(m)
               \/ \E d \in Device :
                    \/ SyncNothing(d) \/ SyncApply(d) \/ LeaveChat(d) \/ ResetSession(d)
                    \/ \E p \in Device : SelectChat(d, p) \/ DeleteChat(d, p)
                    \/ \E applied, answered \in BOOLEAN : AckEnd(d, applied, answered)
                    \/ \E stillRead \in SUBSET Msg : Crash(d, stillRead)
               \/ UNCHANGED vars
        PROVE  sync'[c] = sync[c]
    <2>1. sync' = sync \/ \E d \in Device : sync' = [sync EXCEPT ![d] = None]
      BY <1>7 DEF SendStep, SendText, OpenChat, Seal, Post, PersistSent, SyncNothing, SyncApply,
           LeaveChat, ResetSession, SelectChat, DeleteChat, AckEnd, Crash, vars
    <2>2. QED
      BY <2>1 DEF TypeOK
  <1>8. Works
    <2> HIDE DEF Works
    <2>1. sync'[c] = sync[c] => Works
      BY <1>1 DEF Works
    <2>2. QED
      BY <2>1, <1>3, <1>4, <1>5, <1>6, <1>7 DEF Next, SyncStep, UserStep
  <1>9. QED
    BY <1>8

\* What is shown was opened.
LEMMA SeenStep ==
  ASSUME TypeInv, [Next]_vars, NEW m \in seen'
  PROVE  m \in seen \/ \E c \in Device : sync[c] # None /\ m \in sync[c].opened
  <1>1. ASSUME NEW c \in Device, SyncApply(c)
        PROVE  m \in seen \/ (sync[c] # None /\ m \in sync[c].opened)
    BY <1>1 DEF SyncApply
  <1>2. ASSUME \/ \E k \in Msg : SendStep(k)
               \/ \E c \in Device : UserStep(c)
               \/ \E c \in Device :
                    \/ SyncNothing(c) \/ SyncFetch(c) \/ SyncRetry(c)
                    \/ \E derived \in SUBSET Device : SyncDecrypt(c, derived)
                    \/ \E fetched, derived \in BOOLEAN : SyncRefresh(c, fetched, derived)
               \/ UNCHANGED vars
        PROVE  seen' = seen
    BY <1>2 DEF SendStep, SendText, OpenChat, Seal, Post, PersistSent, SyncNothing, SyncFetch,
         SyncDecrypt, SyncRefresh, SyncRetry, UserStep, SelectChat, DeleteChat, AckEnd,
         LeaveChat, ResetSession, Crash, vars, uiVars
  <1>3. QED
    BY <1>1, <1>2 DEF Next, SyncStep

\* A fetch that returns a message returns the pending ones ahead of it.
LEMMA FirstClosed ==
  ASSUME NEW n \in Nat, NEW S \in SUBSET Nat, IsFiniteSet(S), NEW j \in First(n, S),
         NEW i \in S, i < j
  PROVE  i \in First(n, S)
  <1> DEFINE A == {k \in S : k < i}
             B == {k \in S : k < j}
  <1>1. A \subseteq B /\ IsFiniteSet(B) /\ Cardinality(B) < n
    <2>1. j \in S /\ Cardinality(B) < n
      BY DEF First
    <2>2. A \subseteq B
      <3>1. i \in Nat /\ j \in Nat /\ \A k \in S : k \in Nat
        BY <2>1
      <3>2. \A k \in S : k < i => k < j
        BY <3>1
      <3>3. QED
        BY <3>2
    <2>3. B \subseteq S
      OBVIOUS
    <2>4. IsFiniteSet(B)
      <3> HIDE DEF B
      <3>1. QED
        BY <2>3, FS_Subset
    <2>5. QED
      BY <2>1, <2>2, <2>4
  <1>2. Cardinality(A) <= Cardinality(B) /\ Cardinality(A) \in Nat /\ Cardinality(B) \in Nat
    BY <1>1, FS_Subset, FS_CardinalityType
  <1>3. Cardinality(A) < n
    <2> HIDE DEF A, B
    <2>1. QED
      BY <1>1, <1>2
  <1>4. QED
    BY <1>3 DEF First

LEMMA BatchWholeStep ==
  ASSUME LostInv, [Next]_vars
  PROVE  BatchWhole'
  <1>t. TypeInv /\ TypeOK /\ MailPosted
    BY DEF LostInv, HistoryInv, TypeInv
  <1> SUFFICES ASSUME NEW c \in Device, sync'[c] # None, NEW j \in sync'[c].batch,
                      NEW i \in DOMAIN box'[c], i < j, box'[c][i] \in Contact
               PROVE  i \in sync'[c].batch
    BY DEF BatchWhole
  <1>1. CASE sync[c] # None /\ sync'[c].batch = sync[c].batch
    <2>1. j \in DOMAIN box[c] /\ j \in DOMAIN box'[c]
      BY <1>t, <1>1, BoxStep DEF TypeInv, BatchInBox
    <2>2. box'[c] \in Seq(Msg) /\ i \in Nat /\ j \in Nat
      <3>1. box'[c] \in Seq(Msg)
        BY <1>t, TypeStep DEF TypeInv, TypeOK
      <3>2. QED
        BY <2>1, <3>1
    <2>3. i \in DOMAIN box[c]
      <3>1. ~(\A k \in DOMAIN box'[c] : k <= i)
        BY <2>1, <2>2
      <3>2. QED
        BY <1>t, <3>1, BoxStep
    <2>4. box[c][i] \in Contact
      BY <1>t, <2>3, BoxStep
    <2>5. QED
      BY <1>1, <2>3, <2>4 DEF LostInv, BatchWhole
  <1>2. CASE UNCHANGED box /\ sync'[c].batch = First(FetchLimit, Pending(c))
    <2>1. box[c][i] \notin acked
      BY <1>2 DEF LostInv, HistoryInv, AckedWasShown, TypeInv, TypeOK, Text
    <2>2. i \in Pending(c)
      BY <1>2, <2>1 DEF Pending
    <2>3. Pending(c) \in SUBSET Nat /\ IsFiniteSet(Pending(c)) /\ FetchLimit \in Nat
      <3>1. box[c] \in Seq(Msg)
        BY <1>t DEF TypeOK
      <3>2. DOMAIN box[c] = 1 .. Len(box[c]) /\ Len(box[c]) \in Nat
        BY <3>1
      <3>3. IsFiniteSet(1 .. Len(box[c]))
        <4> DEFINE n == Len(box[c])
        <4>1. n \in Int /\ 1 \in Int
          BY <3>2
        <4> HIDE DEF n
        <4>2. IsFiniteSet(1 .. n)
          BY <4>1, FS_Interval
        <4>3. QED
          BY <4>2 DEF n
      <3>4. Pending(c) \subseteq 1 .. Len(box[c])
        BY <3>2 DEF Pending
      <3>5. IsFiniteSet(Pending(c))
        BY <3>3, <3>4, FS_Subset
      <3>6. 1 .. Len(box[c]) \subseteq Nat /\ FetchLimit \in Nat
        BY <3>2, PeerSessionsAssumption
      <3>7. QED
        BY <3>4, <3>5, <3>6
    <2>4. QED
      BY <1>2, <2>2, <2>3, FirstClosed
  <1>3. QED
    BY <1>t, <1>1, <1>2, SyncEffect

LEMMA LostStep == LostInv /\ [Next]_vars => LostInv'
  <1> SUFFICES ASSUME LostInv, [Next]_vars
               PROVE  LostInv'
    OBVIOUS
  <1>t. HistoryInv /\ TypeInv /\ TypeOK /\ MailPosted
    BY DEF LostInv, HistoryInv, TypeInv
  <1>1. HistoryInv' /\ MailPosted'
    BY <1>t, HistoryStep, MailStep
  <1>2. StoredOnce'
    <2> SUFFICES ASSUME NEW c \in Device, NEW i \in DOMAIN box'[c], NEW j \in DOMAIN box'[c],
                        box'[c][i] = box'[c][j]
                 PROVE  i = j
      BY DEF StoredOnce
    <2>1. CASE i \in DOMAIN box[c] /\ j \in DOMAIN box[c]
      BY <1>t, <2>1, BoxStep DEF LostInv, StoredOnce
    <2>2. CASE i \notin DOMAIN box[c] /\ j \notin DOMAIN box[c]
      <3>1. i <= j /\ j <= i
        BY <1>t, <2>2, BoxStep
      <3>2. box'[c] \in Seq(Msg)
        BY <1>t, TypeStep DEF TypeInv, TypeOK
      <3>3. i \in Nat /\ j \in Nat
        BY <3>2
      <3>4. QED
        BY <3>1, <3>3
    <2>3. ASSUME NEW k \in DOMAIN box[c], NEW n \in DOMAIN box'[c], n \notin DOMAIN box[c]
          PROVE  box'[c][k] # box'[c][n]
      BY <1>t, <2>3, BoxStep
    <2>4. QED
      BY <2>1, <2>2, <2>3
  <1>3. OpenedInFront'
    <2> SUFFICES ASSUME NEW c \in Device, sync'[c] # None, NEW m \in sync'[c].opened
                 PROVE  InFront(m)'
      BY DEF OpenedInFront
    <2>1. InFront(m)
      BY <1>t, SyncEffect, OpeningInFront DEF LostInv, OpenedInFront
    <2>2. m \in Msg
      BY <1>1 DEF HistoryInv, TypeInv, TypeOK, Sync
    <2>3. QED
      BY <2>1, <2>2, StaysInFront
  <1>4. SeenInFront'
    <2> SUFFICES ASSUME NEW m \in seen'
                 PROVE  InFront(m)'
      BY DEF SeenInFront
    <2>1. InFront(m)
      BY <1>t, SeenStep DEF LostInv, SeenInFront, OpenedInFront
    <2>2. m \in Msg
      BY <1>1 DEF HistoryInv, TypeInv, TypeOK, Text
    <2>3. QED
      BY <2>1, <2>2, StaysInFront
  <1>5. QED
    BY <1>1, <1>2, <1>3, <1>4, BatchWholeStep DEF LostInv

\* The cause of every violation of EveryTextShown that a contact message makes, for any
\* number of clients and messages and whatever is fetched, refreshed, reset or restored:
\* a text that is stored behind a contact message of its sender, with a counter that is
\* not above the contact message's, has never been shown and never will be, since both
\* stay where they are.
THEOREM LostBehindContactHolds == Spec => []LostBehindContact
<1>1. Init => LostInv
  <2>1. ASSUME Init
        PROVE  /\ MailPosted /\ StoredOnce /\ BatchWhole /\ OpenedInFront /\ SeenInFront
    BY <2>1 DEF Init, MailPosted, StoredOnce, BatchWhole, OpenedInFront, SeenInFront
  <2>2. QED
    BY <2>1, HistoryInit DEF LostInv
<1>2. LostInv => LostBehindContact
  BY DEF LostInv, SeenInFront, InFront, LostBehindContact
<1>3. QED
  BY <1>1, <1>2, LostStep, PTL DEF Spec
=============================================================================
