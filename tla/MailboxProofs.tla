--------------------------- MODULE MailboxProofs ---------------------------
(***************************************************************************)
(* Theorems about Mailbox, for every set of devices, messages, calls and   *)
(* drains and every limit.                                                 *)
(***************************************************************************)
EXTENDS Mailbox, FiniteSetTheorems, TLAPS

(***************************************************************************)
(* Types.  Marking the rows of a batch is typed only because every row a   *)
(* drain has selected exists, so the two are proved together.              *)
(***************************************************************************)
TypeInv == TypeOK /\ SelectedStayPending

\* A row, call or drain that is there is a record of its kind.
LEMMA Records ==
  ASSUME TypeOK
  PROVE  /\ \A m \in Msg : Stored(m) => row[m] \in Row
         /\ \A r \in Request : send[r] # None => send[r] \in SendCall
         /\ \A x \in Drainer : drain[x] # None => drain[x] \in DrainCall
  BY DEF TypeOK, Stored

\* The field updates of the handlers stay within the record types.
LEMMA SendUpdates ==
  ASSUME NEW c \in SendCall, NEW t \in Nat
  PROVE  /\ [c EXCEPT !.pc = "checked"] \in SendCall
         /\ [c EXCEPT !.pc = "stamped", !.at = t] \in SendCall
         /\ [c EXCEPT !.history.clear = TRUE] \in SendCall
  BY DEF SendCall, History

LEMMA RowUpdates ==
  ASSUME NEW w \in Row
  PROVE  /\ [w EXCEPT !.delivered = TRUE] \in Row
         /\ [w EXCEPT !.acked = TRUE] \in Row
         /\ [w EXCEPT !.delivered = TRUE].delivered
         /\ ~w.acked => ~[w EXCEPT !.delivered = TRUE].acked
         /\ [w EXCEPT !.acked = TRUE].acked
  BY DEF Row

LEMMA DrainUpdates ==
  ASSUME NEW c \in DrainCall
  PROVE  [c EXCEPT !.pc = "committed"] \in DrainCall
  BY DEF DrainCall

\* No record is None: a new row or call is seen as one that is there.
LEMMA NotNone == \A w \in Row \union SendCall \union DrainCall : w # None
  BY NoneAssumption

LEMMA TypeInit == Init => TypeInv
  BY DEF Init, TypeInv, TypeOK, SelectedStayPending, Selecting

\* Every handler, loss and crash keeps the variables typed.
LEMMA TypeStep == TypeInv /\ [Next]_vars => TypeOK'
  <1> SUFFICES ASSUME TypeInv, [Next]_vars
               PROVE  TypeOK'
    OBVIOUS
  <1> USE DEF TypeInv, TypeOK
  <1>1. ASSUME NEW r \in Request, NEW m \in Msg, SendArrive(r, m)
        PROVE  TypeOK'
    <2>1. [clear |-> Clear(blocks, m), after |-> {k \in Msg : Stored(k) /\ To[k] = To[m]}]
            \in History
      BY DEF History, Clear
    <2>2. QED
      BY <1>1, <2>1 DEF SendArrive, SendCall
  <1>2. ASSUME NEW r \in Request, CheckBlocks(r)
        PROVE  TypeOK'
    BY <1>2, Records, SendUpdates DEF CheckBlocks
  <1>3. ASSUME NEW r \in Request, BeginInsert(r)
        PROVE  TypeOK'
    <2>1. clock' \in Nat
      BY <1>3 DEF BeginInsert
    <2>2. [send[r] EXCEPT !.pc = "stamped", !.at = clock'] \in SendCall
      BY <1>3, <2>1, Records, SendUpdates DEF BeginInsert
    <2>3. QED
      BY <1>3, <2>1, <2>2 DEF BeginInsert
  <1>4. ASSUME NEW r \in Request, CommitInsert(r)
        PROVE  TypeOK'
    <2>1. send[r] \in SendCall
      BY <1>4, Records DEF CommitInsert
    <2>2. /\ send[r].msg \in Msg
          /\ [at |-> send[r].at, delivered |-> FALSE, acked |-> FALSE,
              history |-> send[r].history] \in Row
      BY <2>1 DEF SendCall, Row
    <2>3. row' \in [Msg -> Row \union {None}] /\ accepted' \in [Msg -> Nat]
      BY <1>4, <2>2 DEF CommitInsert
    <2>4. QED
      BY <1>4, <2>3 DEF CommitInsert
  <1>5. ASSUME NEW r \in Request, SendDropped(r)
        PROVE  TypeOK'
    BY <1>5 DEF SendDropped
  <1>6. ASSUME NEW x \in Drainer, NEW d \in Device, NEW asked \in AskedLimit,
               DrainSelect(x, d, asked)
        PROVE  TypeOK'
    BY <1>6 DEF DrainSelect, DrainCall, Oldest, Pending
  <1>7. ASSUME NEW x \in Drainer, DrainCommit(x)
        PROVE  TypeOK'
    <2>1. \A m \in drain[x].batch : m \in Msg /\ row[m] \in Row
      BY <1>7, Records DEF DrainCommit, SelectedStayPending, Pending
    <2>2. row' \in [Msg -> Row \union {None}]
      BY <1>7, <2>1, RowUpdates DEF DrainCommit
    <2>3. drain' \in [Drainer -> DrainCall \union {None}]
      BY <1>7, Records, DrainUpdates DEF DrainCommit, Selecting
    <2>4. QED
      BY <1>7, <2>2, <2>3 DEF DrainCommit
  <1>8. ASSUME NEW x \in Drainer, DrainAbort(x)
        PROVE  TypeOK'
    BY <1>8 DEF DrainAbort
  <1>9. ASSUME NEW x \in Drainer, NEW arrives \in SUBSET Msg, DrainReply(x, arrives)
        PROVE  TypeOK'
    BY <1>9, Records DEF DrainReply, DrainCall
  <1>10. ASSUME NEW d \in Device, NEW S \in SUBSET Msg, Ack(d, S)
         PROVE  TypeOK'
    BY <1>10, Records, RowUpdates DEF Ack, Pending
  <1>11. ASSUME NEW u \in User, NEW v \in User, Block(u, v)
         PROVE  TypeOK'
    BY <1>11 DEF Block
  <1>12. ASSUME NEW u \in User, NEW v \in User, Unblock(u, v)
         PROVE  TypeOK'
    BY <1>12, Records, SendUpdates DEF Unblock
  <1>13. ASSUME Crash
         PROVE  TypeOK'
    BY <1>13 DEF Crash
  <1>14. CASE UNCHANGED vars
    BY <1>14 DEF vars
  <1>15. QED
    BY <1>1, <1>2, <1>3, <1>4, <1>5, <1>6, <1>7, <1>8, <1>9, <1>10, <1>11, <1>12, <1>13,
       <1>14 DEF Next, SendStep, DrainStep

\* What a step may do to a row that is there: keep its stamp and its history, and
\* set delivered or acked, never clear them.  Only an acknowledgement of a row no
\* drain has selected takes it out of the pending ones.
RowsGrow ==
  \A m \in Msg : Stored(m) =>
    /\ Stored(m)'
    /\ row'[m].at = row[m].at
    /\ row'[m].history = row[m].history
    /\ row[m].delivered => row'[m].delivered
    /\ row[m].acked => row'[m].acked
    /\ m \in Locked /\ ~row[m].acked => ~row'[m].acked

LEMMA RowsGrowStep == TypeInv /\ [Next]_vars => RowsGrow
  <1> SUFFICES ASSUME TypeInv, [Next]_vars, NEW m \in Msg, Stored(m)
               PROVE  /\ Stored(m)'
                      /\ row'[m].at = row[m].at
                      /\ row'[m].history = row[m].history
                      /\ row[m].delivered => row'[m].delivered
                      /\ row[m].acked => row'[m].acked
                      /\ m \in Locked /\ ~row[m].acked => ~row'[m].acked
    BY DEF RowsGrow
  <1> USE DEF TypeInv
  <1>1. row[m] \in Row
    BY Records
  <1>2. /\ row[m] # None
        /\ [row[m] EXCEPT !.delivered = TRUE] # None
        /\ [row[m] EXCEPT !.acked = TRUE] # None
    BY <1>1, RowUpdates, NotNone DEF Stored
  <1>3. ASSUME NEW r \in Request, CommitInsert(r)
        PROVE  row'[m] = row[m]
    BY <1>3 DEF CommitInsert, Stored, TypeOK
  <1>4. ASSUME NEW x \in Drainer, DrainCommit(x)
        PROVE  row'[m] = row[m] \/ row'[m] = [row[m] EXCEPT !.delivered = TRUE]
    BY <1>4 DEF DrainCommit
  <1>5. ASSUME NEW d \in Device, NEW S \in SUBSET Msg, Ack(d, S)
        PROVE  \/ row'[m] = row[m]
               \/ row'[m] = [row[m] EXCEPT !.acked = TRUE] /\ m \notin Locked
    BY <1>5 DEF Ack
  <1>6. \/ row'[m] = row[m]
        \/ row'[m] = [row[m] EXCEPT !.delivered = TRUE]
        \/ row'[m] = [row[m] EXCEPT !.acked = TRUE] /\ m \notin Locked
    <2>1. CASE row' = row
      BY <2>1
    <2>2. CASE row' # row
      BY <1>3, <1>4, <1>5, <2>2
         DEF Next, SendStep, DrainStep, SendArrive, CheckBlocks, BeginInsert, SendDropped,
             DrainSelect, DrainAbort, DrainReply, Block, Unblock, Crash, vars
    <2>3. QED
      BY <2>1, <2>2
  <1>7. QED
    BY <1>1, <1>2, <1>6 DEF Stored, Row

\* A drain in a new state was selected, committed or ended by this step; every
\* other one is as it was.
LEMMA SelectedStep == TypeInv /\ [Next]_vars => SelectedStayPending'
  <1> SUFFICES ASSUME TypeInv, [Next]_vars, NEW y \in Drainer, Selecting(y)',
                      NEW m \in drain'[y].batch
               PROVE  (m \in Pending(drain[y].dev))'
    BY DEF SelectedStayPending
  <1> USE DEF TypeInv
  <1>1. RowsGrow
    BY RowsGrowStep
  <1>2. CASE drain'[y] = drain[y]
    <2>1. Selecting(y) /\ m \in drain[y].batch /\ m \in Pending(drain[y].dev)
      BY <1>2 DEF Selecting, SelectedStayPending
    <2>2. m \in Locked /\ m \in Msg
      BY <2>1 DEF Locked, Pending
    <2>3. QED
      BY <1>1, <1>2, <2>1, <2>2 DEF RowsGrow, Pending
  <1>3. ASSUME NEW x \in Drainer, NEW d \in Device, NEW asked \in AskedLimit,
               DrainSelect(x, d, asked), drain'[y] # drain[y]
        PROVE  (m \in Pending(drain[y].dev))'
    <2>1. drain'[y].dev = d /\ drain'[y].batch = Oldest(Pending(d) \ Locked, Clamp(asked))
      BY <1>3 DEF DrainSelect, TypeOK
    <2>2. m \in Pending(d)
      BY <2>1 DEF Oldest
    <2>3. QED
      BY <1>3, <2>1, <2>2 DEF DrainSelect, Pending, Stored
  <1>4. ASSUME NEW x \in Drainer, DrainCommit(x), drain'[y] # drain[y]
        PROVE  FALSE
    <2>1. drain[y] \in DrainCall /\ x = y
      BY <1>4, Records DEF DrainCommit, Selecting, TypeOK
    <2>2. drain'[y].pc = "committed"
      BY <1>4, <2>1 DEF DrainCommit, DrainCall, TypeOK
    <2>3. QED
      BY <2>2 DEF Selecting
  <1>5. CASE drain'[y] # drain[y]
    BY <1>3, <1>4, <1>5
       DEF Next, SendStep, DrainStep, SendArrive, CheckBlocks, BeginInsert, CommitInsert,
           SendDropped, DrainAbort, DrainReply, Ack, Block, Unblock, Crash, vars, Selecting,
           TypeOK
  <1>6. QED
    BY <1>2, <1>5

LEMMA TypeInvStep == TypeInv /\ [Next]_vars => TypeInv'
  BY TypeStep, SelectedStep DEF TypeInv

\* The variables keep their types, in every interleaving of the handlers, for any
\* number of them.
THEOREM TypeCorrect == Spec => []TypeOK
<1>1. TypeInv => TypeOK
  BY DEF TypeInv
<1>2. QED
  BY TypeInit, TypeInvStep, <1>1, PTL DEF Spec

\* What a drain has selected stays unread until it commits: an acknowledgement
\* waits for the row locks.
THEOREM BatchStaysUnread == Spec => []SelectedStayPending
<1>1. TypeInv => SelectedStayPending
  BY DEF TypeInv
<1>2. QED
  BY TypeInit, TypeInvStep, <1>1, PTL DEF Spec

-----------------------------------------------------------------------------
(***************************************************************************)
(* Delivery.  Between the commit of a drain and its answer the batch lives *)
(* only in the handler; what is known of it there carries what is true of  *)
(* the messages when the device receives them.                             *)
(***************************************************************************)
CommittedDelivered ==
  \A x \in Drainer : drain[x] # None /\ drain[x].pc = "committed" =>
    \A m \in drain[x].batch : Stored(m) /\ To[m] = drain[x].dev /\ row[m].delivered

DeliveryInv == TypeInv /\ CommittedDelivered /\ HeldIsDelivered /\ ReadWasReceived

LEMMA DeliveryInit == Init => DeliveryInv
  <1>1. ASSUME Init
        PROVE  CommittedDelivered /\ HeldIsDelivered /\ ReadWasReceived
    BY <1>1 DEF Init, CommittedDelivered, HeldIsDelivered, ReadWasReceived, Stored
  <1>2. QED
    BY <1>1, TypeInit DEF DeliveryInv

LEMMA CommittedStep == DeliveryInv /\ [Next]_vars => CommittedDelivered'
  <1> SUFFICES ASSUME DeliveryInv, [Next]_vars,
                      NEW y \in Drainer, drain'[y] # None, drain'[y].pc = "committed",
                      NEW m \in drain'[y].batch
               PROVE  (Stored(m) /\ To[m] = drain[y].dev /\ row[m].delivered)'
    BY DEF CommittedDelivered
  <1> USE DEF DeliveryInv, TypeInv
  <1>1. RowsGrow
    BY RowsGrowStep
  <1>2. CASE drain'[y] = drain[y]
    <2>1. Stored(m) /\ To[m] = drain[y].dev /\ row[m].delivered
      BY <1>2 DEF CommittedDelivered
    <2>2. m \in Msg
      BY <1>2, Records DEF DrainCall
    <2>3. QED
      BY <1>1, <1>2, <2>1, <2>2 DEF RowsGrow
  <1>3. ASSUME NEW x \in Drainer, DrainCommit(x), drain'[y] # drain[y]
        PROVE  (Stored(m) /\ To[m] = drain[y].dev /\ row[m].delivered)'
    <2>1. x = y /\ drain[y] \in DrainCall
      BY <1>3, Records DEF DrainCommit, Selecting, TypeOK
    <2>2. drain'[y].batch = drain[y].batch /\ drain'[y].dev = drain[y].dev
      BY <1>3, <2>1 DEF DrainCommit, DrainCall, TypeOK
    <2>3. m \in Pending(drain[y].dev)
      BY <1>3, <2>1, <2>2 DEF DrainCommit, SelectedStayPending
    <2>4. row[m] \in Row /\ row'[m] = [row[m] EXCEPT !.delivered = TRUE]
      BY <1>3, <2>1, <2>2, <2>3, Records DEF DrainCommit, Pending
    <2>5. row'[m].delivered
      BY <2>4 DEF Row
    <2>6. Stored(m)' /\ To[m] = drain[y].dev
      BY <1>1, <2>3 DEF RowsGrow, Pending
    <2>7. QED
      BY <2>2, <2>5, <2>6
  <1>4. ASSUME NEW x \in Drainer, NEW d \in Device, NEW asked \in AskedLimit,
               DrainSelect(x, d, asked), drain'[y] # drain[y]
        PROVE  FALSE
    BY <1>4 DEF DrainSelect, TypeOK
  <1>5. CASE drain'[y] # drain[y]
    BY <1>3, <1>4, <1>5
       DEF Next, SendStep, DrainStep, SendArrive, CheckBlocks, BeginInsert, CommitInsert,
           SendDropped, DrainAbort, DrainReply, Ack, Block, Unblock, Crash, vars, TypeOK
  <1>6. QED
    BY <1>2, <1>5

\* What a device holds changes only by the answer of a drain for it.
LEMMA HoldingStep ==
  ASSUME DeliveryInv, [Next]_vars
  PROVE  \A d \in Device :
           \/ got'[d] = got[d]
           \/ \E x \in Drainer :
                /\ drain[x] # None /\ drain[x].pc = "committed" /\ drain[x].dev = d
                /\ \E arrives \in Prefixes(drain[x].batch) : got'[d] = got[d] \union arrives
  <1> USE DEF DeliveryInv, TypeInv
  <1>1. ASSUME NEW x \in Drainer, NEW arrives \in SUBSET Msg, DrainReply(x, arrives),
               NEW d \in Device, got'[d] # got[d]
        PROVE  /\ drain[x] # None /\ drain[x].pc = "committed" /\ drain[x].dev = d
               /\ arrives \in Prefixes(drain[x].batch) /\ got'[d] = got[d] \union arrives
    BY <1>1, Records DEF DrainReply, DrainCall, TypeOK
  <1>2. QED
    BY <1>1
       DEF Next, SendStep, DrainStep, SendArrive, CheckBlocks, BeginInsert, CommitInsert,
           SendDropped, DrainSelect, DrainCommit, DrainAbort, Ack, Block, Unblock, Crash, vars

LEMMA HeldStep == DeliveryInv /\ [Next]_vars => HeldIsDelivered'
  <1> SUFFICES ASSUME DeliveryInv, [Next]_vars, NEW d \in Device, NEW m \in got'[d]
               PROVE  (Stored(m) /\ row[m].delivered)' /\ To[m] = d
    BY DEF HeldIsDelivered
  <1>1. RowsGrow
    BY RowsGrowStep DEF DeliveryInv
  <1>2. Stored(m) /\ row[m].delivered /\ To[m] = d
    BY HoldingStep DEF DeliveryInv, HeldIsDelivered, CommittedDelivered, Prefixes
  <1>3. m \in Msg
    BY <1>2, TypeStep DEF DeliveryInv, TypeInv, TypeOK
  <1>4. QED
    BY <1>1, <1>2, <1>3 DEF RowsGrow

LEMMA ReadStep == DeliveryInv /\ [Next]_vars => ReadWasReceived'
  <1> SUFFICES ASSUME DeliveryInv, [Next]_vars, NEW m \in Msg, Stored(m)', row'[m].acked
               PROVE  row'[m].delivered /\ m \in got'[To[m]]
    BY DEF ReadWasReceived
  <1> USE DEF DeliveryInv, TypeInv
  <1>1. RowsGrow /\ To[m] \in Device
    BY RowsGrowStep, MailboxAssumption
  <1>2. got[To[m]] \subseteq got'[To[m]]
    BY HoldingStep, <1>1
  <1>3. CASE Stored(m) /\ row[m].acked
    BY <1>1, <1>2, <1>3 DEF RowsGrow, ReadWasReceived
  <1>4. ASSUME NEW d \in Device, NEW S \in SUBSET Msg, Ack(d, S), m \in S
        PROVE  row'[m].delivered /\ m \in got'[To[m]]
    <2>1. m \in got[d]
      BY <1>4 DEF Ack
    <2>2. Stored(m) /\ To[m] = d /\ row[m].delivered
      BY <2>1 DEF HeldIsDelivered
    <2>3. QED
      BY <1>1, <1>2, <2>1, <2>2 DEF RowsGrow
  <1>5. ASSUME NEW d \in Device, NEW S \in SUBSET Msg, Ack(d, S), m \notin S
        PROVE  row'[m] = row[m]
    BY <1>5 DEF Ack
  <1>6. ASSUME NEW x \in Drainer, DrainCommit(x), Stored(m)
        PROVE  row[m].acked
    <2>1. row[m] \in Row
      BY <1>6, Records
    <2>2. row'[m] = row[m] \/ row'[m] = [row[m] EXCEPT !.delivered = TRUE]
      BY <1>6 DEF DrainCommit
    <2>3. QED
      BY <2>1, <2>2 DEF Row
  <1>7. ASSUME NEW x \in Drainer, DrainCommit(x), ~Stored(m)
        PROVE  FALSE
    <2>1. m \notin drain[x].batch
      BY <1>7 DEF DrainCommit, SelectedStayPending, Pending
    <2>2. row'[m] = row[m]
      BY <1>7, <2>1 DEF DrainCommit
    <2>3. QED
      BY <1>7, <2>2 DEF Stored
  <1>8. ASSUME NEW r \in Request, CommitInsert(r)
        PROVE  Stored(m) /\ row'[m] = row[m]
    <2>1. CASE row' = row
      BY <1>8, <2>1 DEF Stored
    <2>2. CASE row' # row
      <3>1. row' = [row EXCEPT ![send[r].msg] =
                      [at |-> send[r].at, delivered |-> FALSE, acked |-> FALSE,
                       history |-> send[r].history]]
        BY <1>8, <2>2 DEF CommitInsert
      <3>2. m # send[r].msg
        BY <3>1 DEF TypeOK
      <3>3. QED
        BY <3>1, <3>2 DEF TypeOK, Stored
    <2>3. QED
      BY <2>1, <2>2
  <1>9. CASE ~(Stored(m) /\ row[m].acked)
    BY <1>4, <1>5, <1>6, <1>7, <1>8, <1>9
       DEF Next, SendStep, DrainStep, SendArrive, CheckBlocks, BeginInsert, SendDropped,
           DrainSelect, DrainAbort, DrainReply, Block, Unblock, Crash, vars, Stored
  <1>10. QED
    BY <1>3, <1>9

LEMMA DeliveryStep == DeliveryInv /\ [Next]_vars => DeliveryInv'
  BY TypeInvStep, CommittedStep, HeldStep, ReadStep DEF DeliveryInv

\* A message a device holds is shown as delivered and was addressed to it, for
\* every number of overlapping drains, lost answers, rollbacks and crashes.
THEOREM StatusIsTrue == Spec => []HeldIsDelivered
<1>1. DeliveryInv => HeldIsDelivered
  BY DEF DeliveryInv
<1>2. QED
  BY DeliveryInit, DeliveryStep, <1>1, PTL DEF Spec

\* A message shown as read was delivered and is held by its recipient.
THEOREM ReadIsTrue == Spec => []ReadWasReceived
<1>1. DeliveryInv => ReadWasReceived
  BY DEF DeliveryInv
<1>2. QED
  BY DeliveryInit, DeliveryStep, <1>1, PTL DEF Spec

-----------------------------------------------------------------------------
(***************************************************************************)
(* Refinement: each handler step is one step of the life of messages.      *)
(***************************************************************************)
\* Where no row and no holding changes, no message's life advances.
LEMMA LifecycleStutter ==
  ASSUME UNCHANGED <<row, got>>
  PROVE  UNCHANGED Lifecycle!lifecycleVars
  BY DEF Lifecycle!lifecycleVars, PhaseOf, Stored

LEMMA LifecycleStep ==
  DeliveryInv /\ [Next]_vars => [Lifecycle!LifecycleNext]_(Lifecycle!lifecycleVars)
  <1> SUFFICES ASSUME DeliveryInv, [Next]_vars
               PROVE  [Lifecycle!LifecycleNext]_(Lifecycle!lifecycleVars)
    OBVIOUS
  <1> USE DEF DeliveryInv, TypeInv
  <1>1. ASSUME NEW r \in Request, CommitInsert(r), row' # row
        PROVE  Lifecycle!LifecycleNext
    <2>1. send[r] \in SendCall
      BY <1>1, Records DEF CommitInsert
    <2>2. PICK m \in Msg : m = send[r].msg /\ ~Stored(m)
      BY <1>1, <2>1 DEF CommitInsert, SendCall
    <2> DEFINE new == [at |-> send[r].at, delivered |-> FALSE, acked |-> FALSE,
                       history |-> send[r].history]
    <2>3. row' = [row EXCEPT ![m] = new] /\ got' = got
      BY <1>1, <2>2 DEF CommitInsert
    <2>4. new \in Row
      BY <2>1 DEF SendCall, Row
    <2>5. row'[m] = new /\ row'[m] # None /\ \A k \in Msg \ {m} : row'[k] = row[k]
      BY <2>2, <2>3, <2>4, NotNone DEF TypeOK
    <2>6. PhaseOf(m) = "unsent" /\ PhaseOf(m)' = "stored"
      <3>1. ~row'[m].acked /\ ~row'[m].delivered
        BY <2>5
      <3> HIDE DEF new
      <3>2. QED
        BY <2>2, <2>5, <3>1 DEF PhaseOf, Stored
    <2>7. \A k \in Msg \ {m} : PhaseOf(k)' = PhaseOf(k)
      BY <2>5 DEF PhaseOf, Stored
    <2>8. got' = got
      BY <2>3
    <2> HIDE DEF new
    <2>9. Lifecycle!Store(m)
      BY <2>2, <2>6, <2>7, <2>8 DEF Lifecycle!Store
    <2>10. QED
      BY <2>2, <2>9 DEF Lifecycle!LifecycleNext
  <1>2. ASSUME NEW x \in Drainer, DrainCommit(x)
        PROVE  Lifecycle!LifecycleNext
    <2>1. drain[x] \in DrainCall
      BY <1>2, Records DEF DrainCommit, Selecting
    <2> DEFINE d == drain[x].dev
               S == drain[x].batch
    <2>2. d \in Device /\ S \in SUBSET Msg
      BY <2>1 DEF DrainCall
    <2>3. S \subseteq Pending(d)
      BY <1>2 DEF DrainCommit, SelectedStayPending
    <2>4. /\ \A m \in S : row'[m] = [row[m] EXCEPT !.delivered = TRUE]
          /\ \A m \in Msg \ S : row'[m] = row[m]
          /\ got' = got
      BY <1>2, <2>2 DEF DrainCommit
    <2> HIDE DEF d, S
    <2>5. ASSUME NEW m \in S
          PROVE  To[m] = d /\ PhaseOf(m) \in {"stored", "delivered"} /\ PhaseOf(m)' = "delivered"
      <3>1. m \in Msg /\ To[m] = d /\ Stored(m) /\ ~row[m].acked /\ row[m] \in Row
        BY <2>3, Records DEF Pending
      <3>2. row'[m] = [row[m] EXCEPT !.delivered = TRUE]
        BY <2>4
      <3>3. row'[m] \in Row /\ row'[m].delivered /\ ~row'[m].acked
        BY <3>1, <3>2, RowUpdates, Zenon
      <3>4. row'[m] # None
        BY <3>3, NotNone
      <3>5. QED
        BY <3>1, <3>3, <3>4 DEF PhaseOf, Stored
    <2>6. \A m \in Msg \ S : PhaseOf(m)' = PhaseOf(m)
      BY <2>4 DEF PhaseOf, Stored
    <2>7. Lifecycle!HandOut(d, S)
      BY <2>2, <2>4, <2>5, <2>6 DEF Lifecycle!HandOut
    <2>8. QED
      BY <2>2, <2>7 DEF Lifecycle!LifecycleNext
  <1>3. ASSUME NEW x \in Drainer, NEW arrives \in SUBSET Msg, DrainReply(x, arrives)
        PROVE  Lifecycle!LifecycleNext
    <2>1. drain[x] \in DrainCall
      BY <1>3, Records DEF DrainReply
    <2> DEFINE d == drain[x].dev
    <2>2. d \in Device /\ arrives \subseteq drain[x].batch
      BY <1>3, <2>1 DEF DrainCall, DrainReply, Prefixes
    <2>3. \A m \in arrives : To[m] = d /\ PhaseOf(m) \in {"delivered", "read"}
      BY <1>3, <2>2 DEF DrainReply, CommittedDelivered, PhaseOf
    <2>4. got' = [got EXCEPT ![d] = @ \union arrives] /\ row' = row
      BY <1>3 DEF DrainReply
    <2>5. \A m \in Msg : PhaseOf(m)' = PhaseOf(m)
      BY <2>4 DEF PhaseOf, Stored
    <2> HIDE DEF d
    <2>6. Lifecycle!Receive(d, arrives)
      BY <2>3, <2>4, <2>5 DEF Lifecycle!Receive
    <2>7. QED
      BY <2>2, <2>6 DEF Lifecycle!LifecycleNext
  <1>4. ASSUME NEW d \in Device, NEW S \in SUBSET Msg, Ack(d, S)
        PROVE  Lifecycle!LifecycleNext
    <2>1. \A m \in S : Stored(m) /\ To[m] = d /\ row[m] \in Row
      BY <1>4, Records DEF Ack, HeldIsDelivered
    <2>2. /\ got' = got /\ S \subseteq got[d]
          /\ \A m \in S : \/ row'[m] = [row[m] EXCEPT !.acked = TRUE]
                          \/ row'[m] = row[m] /\ row[m].acked
          /\ \A m \in Msg \ S : row'[m] = row[m]
      BY <1>4, <2>1 DEF Ack, Pending
    <2>3. ASSUME NEW m \in S
          PROVE  PhaseOf(m)' = "read"
      <3>1. row'[m] \in Row /\ row'[m].acked
        BY <2>1, <2>2, RowUpdates
      <3>2. row'[m] # None
        BY <3>1, NotNone
      <3>3. QED
        BY <3>1, <3>2 DEF PhaseOf, Stored
    <2>4. \A m \in Msg \ S : PhaseOf(m)' = PhaseOf(m)
      BY <2>2 DEF PhaseOf, Stored
    <2>5. Lifecycle!Read(d, S)
      BY <2>2, <2>3, <2>4 DEF Lifecycle!Read
    <2>6. QED
      BY <2>5 DEF Lifecycle!LifecycleNext
  <1>5. CASE UNCHANGED <<row, got>>
    BY <1>5, LifecycleStutter
  <1>6. QED
    BY <1>1, <1>2, <1>3, <1>4, <1>5
       DEF Next, SendStep, DrainStep, SendArrive, CheckBlocks, BeginInsert, CommitInsert,
           SendDropped, DrainSelect, DrainAbort, Block, Unblock, Crash, vars

\* The handlers, however they interleave, implement the life of a message: stored
\* once, handed out any number of times, read at most once and only by a holder.
THEOREM MailboxImplementsLifecycle == Spec => ImplementsLifecycle
<1>1. Init => Lifecycle!LifecycleInit
  BY DEF Init, Lifecycle!LifecycleInit, PhaseOf, Stored
<1>2. QED
  BY DeliveryInit, DeliveryStep, LifecycleStep, <1>1, PTL
     DEF Spec, ImplementsLifecycle, Lifecycle!LifecycleSpec

-----------------------------------------------------------------------------
(***************************************************************************)
(* What a step does to the rows and to the calls that make them, for the   *)
(* proofs below: a row comes from a stamped call and from nothing else,    *)
(* and a call gets on one stage at a time.                                 *)
(***************************************************************************)
LEMMA RowsFrom ==
  ASSUME TypeInv, [Next]_vars, NEW m \in Msg, Stored(m)'
  PROVE  \/ /\ Stored(m)
            /\ row'[m].at = row[m].at
            /\ row'[m].history = row[m].history
            /\ accepted'[m] = accepted[m]
         \/ /\ ~Stored(m)
            /\ accepted'[m] = accepted[m] + 1
            /\ \E r \in Request :
                 /\ send[r] \in SendCall /\ send[r].pc = "stamped" /\ send[r].msg = m
                 /\ row'[m].at = send[r].at
                 /\ row'[m].history = send[r].history
                 /\ clock' = clock
  <1> USE DEF TypeInv
  <1>1. ASSUME NEW r \in Request, CommitInsert(r), row'[m] # row[m]
        PROVE  /\ ~Stored(m)
               /\ accepted'[m] = accepted[m] + 1
               /\ send[r] \in SendCall /\ send[r].pc = "stamped" /\ send[r].msg = m
               /\ row'[m].at = send[r].at
               /\ row'[m].history = send[r].history
               /\ clock' = clock
    <2>1. send[r] \in SendCall
      BY <1>1, Records DEF CommitInsert
    <2>2. /\ ~Stored(send[r].msg)
          /\ row' = [row EXCEPT ![send[r].msg] =
                       [at |-> send[r].at, delivered |-> FALSE, acked |-> FALSE,
                        history |-> send[r].history]]
          /\ accepted' = [accepted EXCEPT ![send[r].msg] = @ + 1]
          /\ send[r].pc = "stamped" /\ clock' = clock
      BY <1>1 DEF CommitInsert
    <2>3. send[r].msg = m
      BY <1>1, <2>2 DEF TypeOK
    <2>4. QED
      BY <2>1, <2>2, <2>3 DEF TypeOK
  <1>2. ASSUME NEW r \in Request, CommitInsert(r), row'[m] = row[m]
        PROVE  accepted'[m] = accepted[m]
    <2>1. CASE Stored(send[r].msg)
      BY <1>2, <2>1 DEF CommitInsert
    <2>2. CASE ~Stored(send[r].msg)
      <3>1. m # send[r].msg
        BY <1>2, <2>2 DEF Stored
      <3>2. QED
        BY <1>2, <2>2, <3>1 DEF CommitInsert, TypeOK
    <2>3. QED
      BY <2>1, <2>2
  <1>3. ASSUME \A r \in Request : ~CommitInsert(r)
        PROVE  accepted'[m] = accepted[m] /\ Stored(m)
    <2>1. accepted' = accepted
      BY <1>3
         DEF Next, SendStep, DrainStep, SendArrive, CheckBlocks, BeginInsert, SendDropped,
             DrainSelect, DrainCommit, DrainAbort, DrainReply, Ack, Block, Unblock, Crash, vars
    <2>2. ASSUME NEW x \in Drainer, DrainCommit(x)
          PROVE  Stored(m)
      <3>1. m \in drain[x].batch => Stored(m)
        BY <2>2 DEF DrainCommit, SelectedStayPending, Pending
      <3>2. m \notin drain[x].batch => row'[m] = row[m]
        BY <2>2 DEF DrainCommit
      <3>3. QED
        BY <3>1, <3>2 DEF Stored
    <2>3. ASSUME NEW d \in Device, NEW S \in SUBSET Msg, Ack(d, S)
          PROVE  Stored(m)
      <3>1. m \in S \intersect Pending(d) => Stored(m)
        BY DEF Pending
      <3>2. m \notin S \intersect Pending(d) => row'[m] = row[m]
        BY <2>3 DEF Ack
      <3>3. QED
        BY <3>1, <3>2 DEF Stored
    <2>4. Stored(m)
      BY <1>3, <2>2, <2>3
         DEF Next, SendStep, DrainStep, SendArrive, CheckBlocks, BeginInsert, SendDropped,
             DrainSelect, DrainAbort, DrainReply, Block, Unblock, Crash, vars, Stored
    <2>5. QED
      BY <2>1, <2>4
  <1>4. RowsGrow
    BY RowsGrowStep
  <1>5. QED
    BY <1>1, <1>2, <1>3, <1>4 DEF RowsGrow, Stored

LEMMA CallsFrom ==
  ASSUME TypeInv, [Next]_vars, NEW r \in Request, send'[r] # None
  PROVE  \/ \E m \in Msg : SendArrive(r, m)
         \/ /\ CheckBlocks(r) /\ ~Blocked(blocks, send[r].msg)
            /\ send'[r] = [send[r] EXCEPT !.pc = "checked"]
         \/ /\ BeginInsert(r)
            /\ send'[r] = [send[r] EXCEPT !.pc = "stamped", !.at = clock']
         \/ send[r] # None /\ send'[r] = send[r] /\ blocks \subseteq blocks'
         \/ /\ send[r] # None /\ clock' = clock
            /\ send'[r] = IF Clear(blocks', send[r].msg)
                            THEN [send[r] EXCEPT !.history.clear = TRUE] ELSE send[r]
  <1> USE DEF TypeInv, TypeOK
  <1>1. ASSUME NEW q \in Request, NEW m \in Msg, SendArrive(q, m), q # r
        PROVE  send'[r] = send[r] /\ blocks' = blocks
    BY <1>1 DEF SendArrive
  <1>2. ASSUME NEW q \in Request, CheckBlocks(q), q # r
        PROVE  send'[r] = send[r] /\ blocks' = blocks
    BY <1>2 DEF CheckBlocks
  <1>3. ASSUME NEW q \in Request, BeginInsert(q), q # r
        PROVE  send'[r] = send[r] /\ blocks' = blocks
    BY <1>3 DEF BeginInsert
  <1>4. ASSUME CheckBlocks(r)
        PROVE  /\ ~Blocked(blocks, send[r].msg)
               /\ send'[r] = [send[r] EXCEPT !.pc = "checked"]
    BY <1>4 DEF CheckBlocks
  <1>5. ASSUME BeginInsert(r)
        PROVE  send'[r] = [send[r] EXCEPT !.pc = "stamped", !.at = clock']
    BY <1>5 DEF BeginInsert
  <1>6. ASSUME NEW q \in Request, CommitInsert(q) \/ SendDropped(q)
        PROVE  send'[r] = send[r] /\ blocks' = blocks
    BY <1>6 DEF CommitInsert, SendDropped
  <1>7. ASSUME NEW u \in User, NEW v \in User, Unblock(u, v)
        PROVE  /\ send[r] # None /\ clock' = clock
               /\ send'[r] = IF Clear(blocks', send[r].msg)
                               THEN [send[r] EXCEPT !.history.clear = TRUE] ELSE send[r]
    BY <1>7 DEF Unblock
  <1>8. ASSUME NEW u \in User, NEW v \in User, Block(u, v)
        PROVE  send'[r] = send[r] /\ blocks \subseteq blocks'
    BY <1>8 DEF Block
  <1>9. ASSUME Crash
        PROVE  FALSE
    BY <1>9 DEF Crash
  <1>10. ASSUME \/ \E x \in Drainer : DrainStep(x)
                \/ \E d \in Device, S \in SUBSET Msg : Ack(d, S)
                \/ UNCHANGED vars
         PROVE  send'[r] = send[r] /\ blocks' = blocks
    BY <1>10 DEF DrainStep, DrainSelect, DrainCommit, DrainAbort, DrainReply, Ack, vars
  <1>11. QED
    BY <1>1, <1>2, <1>3, <1>4, <1>5, <1>6, <1>7, <1>8, <1>9, <1>10 DEF Next, SendStep

-----------------------------------------------------------------------------
(***************************************************************************)
(* Drains that overlap.                                                    *)
(***************************************************************************)
\* A drain in a new selected state has skipped what the others hold.
LEMMA DisjointStep ==
  TypeInv /\ DisjointDrains /\ [Next]_vars => DisjointDrains'
  <1> SUFFICES ASSUME TypeInv, DisjointDrains, [Next]_vars,
                      NEW x \in Drainer, NEW y \in Drainer, x # y,
                      Selecting(x)', Selecting(y)'
               PROVE  drain'[x].batch \intersect drain'[y].batch = {}
    BY DEF DisjointDrains
  <1> USE DEF TypeInv, TypeOK
  <1>1. ASSUME NEW z \in Drainer, NEW d \in Device, NEW asked \in AskedLimit,
               DrainSelect(z, d, asked)
        PROVE  drain'[x].batch \intersect drain'[y].batch = {}
    <2>1. drain'[z].batch \intersect Locked = {}
      BY <1>1 DEF DrainSelect, Oldest
    <2>2. \A w \in Drainer \ {z} : drain'[w] = drain[w]
      BY <1>1 DEF DrainSelect
    <2>3. \A w \in Drainer \ {z} : Selecting(w)' => drain'[w].batch \subseteq Locked
      BY <2>2 DEF Selecting, Locked
    <2>4. CASE x # z /\ y # z
      BY <2>2, <2>4 DEF DisjointDrains, Selecting
    <2>5. CASE x = z \/ y = z
      BY <2>1, <2>3, <2>5
    <2>6. QED
      BY <2>4, <2>5
  <1>2. ASSUME NEW z \in Drainer, NEW w \in Drainer, DrainCommit(z), Selecting(w)'
        PROVE  drain'[w] = drain[w]
    <2>1. w = z => FALSE
      <3>1. drain[z] \in DrainCall
        BY <1>2, Records DEF DrainCommit, Selecting
      <3>2. drain'[z].pc = "committed"
        BY <1>2, <3>1 DEF DrainCommit, DrainCall
      <3>3. QED
        BY <1>2, <3>2 DEF Selecting
    <2>2. QED
      BY <1>2, <2>1 DEF DrainCommit
  <1>3. ASSUME NEW w \in Drainer, Selecting(w)',
               \/ \E z \in Drainer : DrainAbort(z) \/ \E arrives \in SUBSET Msg : DrainReply(z, arrives)
               \/ \E r \in Request : SendStep(r)
               \/ \E d \in Device, S \in SUBSET Msg : Ack(d, S)
               \/ \E u, v \in User : Block(u, v) \/ Unblock(u, v)
               \/ Crash
               \/ UNCHANGED vars
        PROVE  drain'[w] = drain[w]
    BY <1>3 DEF DrainAbort, DrainReply, Selecting, SendStep, SendArrive, CheckBlocks,
         BeginInsert, CommitInsert, SendDropped, Ack, Block, Unblock, Crash, vars
  <1>4. CASE drain'[x] = drain[x] /\ drain'[y] = drain[y]
    BY <1>4 DEF DisjointDrains, Selecting
  <1>5. QED
    BY <1>1, <1>2, <1>3, <1>4 DEF Next, DrainStep

\* FOR UPDATE SKIP LOCKED: no message is in two open transactions, for any number
\* of drains in flight for one device.
THEOREM DrainsStayDisjoint == Spec => []DisjointDrains
<1>1. Init => DisjointDrains
  BY DEF Init, DisjointDrains, Selecting
<1>2. QED
  BY TypeInit, TypeInvStep, DisjointStep, <1>1, PTL DEF Spec

-----------------------------------------------------------------------------
(***************************************************************************)
(* Idempotent sends, and the block list.                                   *)
(***************************************************************************)
LEMMA AcceptedStep == TypeInv /\ AcceptedOnce /\ [Next]_vars => AcceptedOnce'
  <1> SUFFICES ASSUME TypeInv, AcceptedOnce, [Next]_vars, NEW m \in Msg
               PROVE  accepted'[m] = IF Stored(m)' THEN 1 ELSE 0
    BY DEF AcceptedOnce
  <1>1. CASE Stored(m)'
    BY <1>1, RowsFrom DEF AcceptedOnce
  <1>2. CASE ~Stored(m)'
    <2>1. ~Stored(m)
      BY <1>2, RowsGrowStep DEF RowsGrow
    <2>2. ASSUME NEW r \in Request, CommitInsert(r)
          PROVE  accepted'[m] = accepted[m]
      <3>1. CASE Stored(send[r].msg)
        BY <2>2, <3>1 DEF CommitInsert
      <3>2. CASE ~Stored(send[r].msg)
        <4> DEFINE new == [at |-> send[r].at, delivered |-> FALSE, acked |-> FALSE,
                           history |-> send[r].history]
        <4>1. send[r] \in SendCall
          BY <2>2, Records DEF CommitInsert, TypeInv
        <4>2. new # None
          <5>1. new \in Row
            BY <4>1 DEF SendCall, Row
          <5>2. QED
            BY <5>1, NotNone
        <4>3. row' = [row EXCEPT ![send[r].msg] = new]
          BY <2>2, <3>2 DEF CommitInsert
        <4>4. send[r].msg # m
          <5> HIDE DEF new
          <5>1. QED
            BY <1>2, <4>2, <4>3 DEF TypeInv, TypeOK, Stored
        <4>5. QED
          BY <2>2, <3>2, <4>4 DEF CommitInsert, TypeInv, TypeOK
      <3>3. QED
        BY <3>1, <3>2
    <2>3. accepted'[m] = accepted[m]
      BY <2>2
         DEF Next, SendStep, DrainStep, SendArrive, CheckBlocks, BeginInsert, SendDropped,
             DrainSelect, DrainCommit, DrainAbort, DrainReply, Ack, Block, Unblock, Crash, vars
    <2>4. QED
      BY <1>2, <2>1, <2>3 DEF AcceptedOnce
  <1>3. QED
    BY <1>1, <1>2

\* ON CONFLICT DO NOTHING: however many calls carry one message id at once, and
\* whichever are lost, exactly one is told that it stored the message.
THEOREM AcceptedExactlyOnce == Spec => []AcceptedOnce
<1>1. Init => AcceptedOnce
  BY DEF Init, AcceptedOnce, Stored
<1>2. QED
  BY TypeInit, TypeInvStep, AcceptedStep, <1>1, PTL DEF Spec

\* The history of a call in flight: one that has not been clear of a block since
\* its arrival finds the block still there, and none that has passed the check of
\* user_blocks is such a call.
CallsClear ==
  \A r \in Request : send[r] # None =>
    \/ send[r].history.clear
    \/ send[r].pc = "arrived" /\ ~Clear(blocks, send[r].msg)

BlockInv == TypeInv /\ CallsClear /\ BlockRespected

\* A pair that is not blocked in either direction is clear.
LEMMA ClearUnlessBlocked ==
  ASSUME TypeOK, NEW m \in Msg, ~Blocked(blocks, m)
  PROVE  Clear(blocks, m)
  <1> SUFFICES ASSUME NEW u \in User, NEW v \in User, <<u, v>> \in blocks,
                      {u, v} = {Owner[From[m]], Owner[To[m]]}
               PROVE  FALSE
    BY DEF TypeOK, Clear
  <1>1. \/ u = Owner[From[m]] /\ v = Owner[To[m]]
        \/ v = Owner[From[m]] /\ u = Owner[To[m]]
    OBVIOUS
  <1>2. QED
    BY <1>1 DEF Blocked, BlockedIn

LEMMA CallsClearStep == BlockInv /\ [Next]_vars => CallsClear'
  <1> SUFFICES ASSUME BlockInv, [Next]_vars, NEW r \in Request, send'[r] # None
               PROVE  \/ send'[r].history.clear
                      \/ send'[r].pc = "arrived" /\ ~Clear(blocks', send'[r].msg)
    BY DEF CallsClear
  <1> USE DEF BlockInv, TypeInv
  <1>1. send[r] # None => send[r] \in SendCall
    BY Records
  <1>2. ASSUME NEW m \in Msg, SendArrive(r, m)
        PROVE  send'[r].pc = "arrived" /\ send'[r].history.clear = Clear(blocks', send'[r].msg)
    BY <1>2 DEF SendArrive, TypeOK, Clear
  <1>3. ASSUME CheckBlocks(r), ~Blocked(blocks, send[r].msg),
               send'[r] = [send[r] EXCEPT !.pc = "checked"]
        PROVE  send'[r].history.clear
    <2>1. send[r] \in SendCall
      BY <1>1, <1>3 DEF CheckBlocks
    <2>2. Clear(blocks, send[r].msg)
      BY <1>3, <2>1, ClearUnlessBlocked DEF SendCall
    <2>3. send[r].history.clear
      BY <1>3, <2>2 DEF CallsClear, CheckBlocks
    <2>4. QED
      BY <1>3, <2>1, <2>3 DEF SendCall
  <1>4. ASSUME BeginInsert(r), send'[r] = [send[r] EXCEPT !.pc = "stamped", !.at = clock']
        PROVE  send'[r].history.clear
    <2>1. send[r] \in SendCall /\ send[r].history.clear
      BY <1>1, <1>4 DEF BeginInsert, CallsClear
    <2>2. QED
      BY <1>4, <2>1 DEF SendCall
  <1>5. ASSUME send[r] # None, send'[r] = send[r], blocks \subseteq blocks'
        PROVE  \/ send'[r].history.clear
               \/ send'[r].pc = "arrived" /\ ~Clear(blocks', send'[r].msg)
    BY <1>5 DEF CallsClear, Clear
  <1>6. ASSUME send[r] # None,
               send'[r] = IF Clear(blocks', send[r].msg)
                            THEN [send[r] EXCEPT !.history.clear = TRUE] ELSE send[r]
        PROVE  \/ send'[r].history.clear
               \/ send'[r].pc = "arrived" /\ ~Clear(blocks', send'[r].msg)
    <2>1. CASE Clear(blocks', send[r].msg)
      BY <1>1, <1>6, <2>1 DEF SendCall, History
    <2>2. CASE ~Clear(blocks', send[r].msg)
      BY <1>6, <2>2 DEF CallsClear
    <2>3. QED
      BY <2>1, <2>2
  <1>7. QED
    BY CallsFrom, <1>2, <1>3, <1>4, <1>5, <1>6

LEMMA BlockStep == BlockInv /\ [Next]_vars => BlockInv'
  <1>1. ASSUME BlockInv, [Next]_vars, NEW m \in Msg, Stored(m)'
        PROVE  row'[m].history.clear
    <2>1. CASE Stored(m)
      BY <1>1, <2>1, RowsFrom DEF BlockInv, BlockRespected
    <2>2. CASE ~Stored(m)
      <3>1. PICK r \in Request : /\ send[r] \in SendCall /\ send[r].pc = "stamped"
                                 /\ row'[m].history = send[r].history
        BY <1>1, <2>2, RowsFrom DEF BlockInv
      <3>2. send[r] # None /\ send[r].pc # "arrived"
        BY <3>1, NotNone
      <3>3. send[r].history.clear
        BY <1>1, <3>2 DEF BlockInv, CallsClear
      <3>4. QED
        BY <3>1, <3>3
    <2>3. QED
      BY <2>1, <2>2
  <1>2. QED
    BY <1>1, TypeInvStep, CallsClearStep DEF BlockInv, BlockRespected

\* No message gets past a block that stood from the arrival of its call to the
\* insert, in either direction and whoever lifts or sets which other block.
THEOREM BlocksRespected == Spec => []BlockRespected
<1>1. Init => BlockInv
  BY TypeInit DEF Init, BlockInv, CallsClear, BlockRespected, Stored
<1>2. BlockInv => BlockRespected
  BY DEF BlockInv
<1>3. QED
  BY BlockStep, <1>1, <1>2, PTL DEF Spec

-----------------------------------------------------------------------------
(***************************************************************************)
(* The order of messages.  A call in flight remembers what was stored when *)
(* it arrived; those rows keep their stamps, and the clock that stamps the *)
(* call is past them.                                                      *)
(***************************************************************************)
RowsStamped ==
  \A m \in Msg : Stored(m) =>
    row[m].at <= clock /\ \A k \in row[m].history.after : To[k] = To[m]

CallsLater ==
  \A r \in Request : send[r] # None =>
    /\ send[r].pc = "stamped" => send[r].at <= clock
    /\ \A k \in send[r].history.after :
         /\ To[k] = To[send[r].msg]
         /\ Stored(k) /\ row[k].at <= clock
         /\ send[r].pc = "stamped" => row[k].at < send[r].at

StampInv == TypeInv /\ RowsStamped /\ CallsLater /\ StampOrder

LEMMA ClockGrows == TypeInv /\ [Next]_vars => clock' \in Nat /\ clock <= clock'
  <1> SUFFICES ASSUME TypeInv, [Next]_vars
               PROVE  clock' \in Nat /\ clock <= clock'
    OBVIOUS
  <1>1. clock' = clock \/ clock' = clock + 1
    BY DEF Next, SendStep, DrainStep, SendArrive, CheckBlocks, BeginInsert, CommitInsert,
         SendDropped, DrainSelect, DrainCommit, DrainAbort, DrainReply, Ack, Block, Unblock,
         Crash, vars
  <1>2. QED
    BY <1>1 DEF TypeInv, TypeOK

\* What a row says of the rows before it stays true, and a new row says it of the
\* rows its call remembers.
LEMMA RowStampStep == StampInv /\ [Next]_vars => RowsStamped' /\ StampOrder'
  <1> SUFFICES ASSUME StampInv, [Next]_vars, NEW m \in Msg, Stored(m)'
               PROVE  /\ row'[m].at <= clock'
                      /\ \A k \in row'[m].history.after :
                           To[k] = To[m] /\ Stored(k)' /\ row'[k].at < row'[m].at
    BY DEF RowsStamped, StampOrder
  <1> USE DEF StampInv, TypeInv
  <1>1. RowsGrow /\ clock \in Nat /\ clock' \in Nat /\ clock <= clock'
    BY RowsGrowStep, ClockGrows DEF TypeOK
  <1>2. CASE Stored(m)
    <2>1. row'[m].at = row[m].at /\ row'[m].history = row[m].history /\ row[m] \in Row
      BY <1>1, <1>2, Records DEF RowsGrow
    <2>2. row[m].at <= clock /\ row[m].at \in Nat /\ row[m].history.after \subseteq Msg
      BY <1>2, <2>1 DEF RowsStamped, Row, History
    <2>3. ASSUME NEW k \in row[m].history.after
          PROVE  To[k] = To[m] /\ Stored(k)' /\ row'[k].at < row[m].at
      BY <1>1, <1>2, <2>2 DEF RowsStamped, StampOrder, RowsGrow
    <2>4. QED
      BY <1>1, <2>1, <2>2, <2>3
  <1>3. CASE ~Stored(m)
    <2>1. PICK r \in Request : /\ send[r] \in SendCall /\ send[r].pc = "stamped"
                               /\ send[r].msg = m /\ row'[m].at = send[r].at
                               /\ row'[m].history = send[r].history /\ clock' = clock
      BY <1>3, RowsFrom
    <2>2. send[r] # None /\ send[r].history.after \subseteq Msg
      BY <2>1, NotNone DEF SendCall, History
    <2>3. ASSUME NEW k \in send[r].history.after
          PROVE  To[k] = To[m] /\ Stored(k)' /\ row'[k].at < send[r].at
      BY <1>1, <2>1, <2>2 DEF CallsLater, RowsGrow
    <2>4. send[r].at <= clock'
      BY <2>1, <2>2 DEF CallsLater
    <2>5. QED
      BY <2>1, <2>3, <2>4
  <1>4. QED
    BY <1>2, <1>3

LEMMA CallsLaterStep == StampInv /\ [Next]_vars => CallsLater'
  <1> SUFFICES ASSUME StampInv, [Next]_vars, NEW r \in Request, send'[r] # None
               PROVE  /\ send'[r].pc = "stamped" => send'[r].at <= clock'
                      /\ \A k \in send'[r].history.after :
                           /\ To[k] = To[send'[r].msg]
                           /\ Stored(k)' /\ row'[k].at <= clock'
                           /\ send'[r].pc = "stamped" => row'[k].at < send'[r].at
    BY DEF CallsLater
  <1> DEFINE Later ==
        /\ send'[r].pc = "stamped" => send'[r].at <= clock'
        /\ \A k \in send'[r].history.after :
             /\ To[k] = To[send'[r].msg]
             /\ Stored(k)' /\ row'[k].at <= clock'
             /\ send'[r].pc = "stamped" => row'[k].at < send'[r].at
  <1> USE DEF StampInv, TypeInv
  <1>1. RowsGrow /\ clock \in Nat /\ clock' \in Nat /\ clock <= clock'
    BY RowsGrowStep, ClockGrows DEF TypeOK
  <1>2. send[r] # None => send[r] \in SendCall
    BY Records
  <1>3. ASSUME NEW k \in Msg, Stored(k), row[k].at <= clock
        PROVE  Stored(k)' /\ row'[k].at = row[k].at /\ row[k].at \in Nat /\ row'[k].at <= clock'
    <2>1. row[k] \in Row
      BY <1>3, Records
    <2>2. QED
      BY <1>1, <1>3, <2>1 DEF RowsGrow, Row
  <1>4. ASSUME NEW m \in Msg, SendArrive(r, m)
        PROVE  /\ send'[r].pc = "arrived" /\ send'[r].msg = m
               /\ send'[r].history.after = {k \in Msg : Stored(k) /\ To[k] = To[m]}
    BY <1>4 DEF SendArrive, TypeOK
  <1>5. ASSUME NEW m \in Msg, SendArrive(r, m), NEW k \in send'[r].history.after
        PROVE  To[k] = To[send'[r].msg] /\ Stored(k)' /\ row'[k].at <= clock'
    BY <1>3, <1>4, <1>5 DEF RowsStamped
  <1>6. ASSUME CheckBlocks(r), send'[r] = [send[r] EXCEPT !.pc = "checked"]
        PROVE  /\ send'[r].pc # "stamped"
               /\ \A k \in send'[r].history.after :
                    To[k] = To[send'[r].msg] /\ Stored(k)' /\ row'[k].at <= clock'
    <2>1. send[r] \in SendCall /\ send[r] # None
      BY <1>2, <1>6 DEF CheckBlocks
    <2>2. /\ send'[r].pc = "checked" /\ send'[r].msg = send[r].msg
          /\ send'[r].history.after = send[r].history.after /\ send[r].history.after \subseteq Msg
      BY <1>6, <2>1 DEF SendCall, History
    <2>3. QED
      BY <1>3, <2>1, <2>2 DEF CallsLater
  <1>7. ASSUME BeginInsert(r), send'[r] = [send[r] EXCEPT !.pc = "stamped", !.at = clock']
        PROVE  /\ send'[r].at = clock'
               /\ \A k \in send'[r].history.after :
                    /\ To[k] = To[send'[r].msg] /\ Stored(k)'
                    /\ row'[k].at <= clock' /\ row'[k].at < send'[r].at
    <2>1. send[r] \in SendCall /\ send[r] # None /\ clock' = clock + 1
      BY <1>2, <1>7 DEF BeginInsert
    <2>2. /\ send'[r].at = clock' /\ send'[r].msg = send[r].msg
          /\ send'[r].history.after = send[r].history.after /\ send[r].history.after \subseteq Msg
      BY <1>7, <2>1 DEF SendCall, History
    <2>3. ASSUME NEW k \in send[r].history.after
          PROVE  To[k] = To[send[r].msg] /\ Stored(k)' /\ row'[k].at <= clock /\ row'[k].at \in Nat
      <3>1. k \in Msg /\ To[k] = To[send[r].msg] /\ Stored(k) /\ row[k].at <= clock
        BY <2>1, <2>2 DEF CallsLater
      <3>2. QED
        BY <1>3, <3>1
    <2>4. QED
      BY <1>1, <2>1, <2>2, <2>3
  <1>8. ASSUME send[r] # None,
               \/ send'[r] = send[r]
               \/ send'[r] = [send[r] EXCEPT !.history.clear = TRUE]
        PROVE  Later
    <2>1. /\ send'[r].pc = send[r].pc /\ send'[r].at = send[r].at /\ send'[r].msg = send[r].msg
          /\ send'[r].history.after = send[r].history.after
          /\ send[r].at \in Nat /\ send[r].history.after \subseteq Msg
      BY <1>2, <1>8 DEF SendCall, History
    <2>2. send[r].pc = "stamped" => send[r].at <= clock'
      BY <1>1, <1>8, <2>1 DEF CallsLater
    <2>3. ASSUME NEW k \in send[r].history.after
          PROVE  /\ To[k] = To[send[r].msg]
                 /\ Stored(k)' /\ row'[k].at <= clock'
                 /\ send[r].pc = "stamped" => row'[k].at < send[r].at
      BY <1>3, <1>8, <2>1 DEF CallsLater
    <2>4. QED
      BY <2>1, <2>2, <2>3
  <1>9. ASSUME NEW m \in Msg, SendArrive(r, m)
        PROVE  Later
    <2>1. send'[r].pc # "stamped"
      BY <1>4, <1>9
    <2>2. QED
      BY <1>5, <1>9, <2>1
  <1>10. ASSUME CheckBlocks(r), send'[r] = [send[r] EXCEPT !.pc = "checked"]
         PROVE  Later
    BY <1>6, <1>10
  <1>11. ASSUME BeginInsert(r), send'[r] = [send[r] EXCEPT !.pc = "stamped", !.at = clock']
         PROVE  Later
    <2>1. send'[r].at <= clock'
      BY <1>1, <1>7, <1>11
    <2>2. QED
      BY <1>7, <1>11, <2>1
  <1>12. Later
    <2> HIDE DEF Later
    <2>1. QED
      BY CallsFrom, <1>8, <1>9, <1>10, <1>11
  <1>13. QED
    BY <1>12

LEMMA StampInit == Init => StampInv
  <1>1. ASSUME Init
        PROVE  RowsStamped /\ CallsLater /\ StampOrder
    BY <1>1 DEF Init, RowsStamped, CallsLater, StampOrder, Stored
  <1>2. QED
    BY <1>1, TypeInit DEF StampInv

LEMMA StampStep == StampInv /\ [Next]_vars => StampInv'
  BY TypeInvStep, RowStampStep, CallsLaterStep DEF StampInv

\* A message sent after another one for the same device was stored has the later
\* created_at, however long either insert took and whatever became of other calls.
THEOREM StampsFollowOrder == Spec => []StampOrder
<1>1. StampInv => StampOrder
  BY DEF StampInv
<1>2. QED
  BY StampInit, StampStep, <1>1, PTL DEF Spec

-----------------------------------------------------------------------------
(***************************************************************************)
(* The order of delivery, for a device whose drains never overlap.  With   *)
(* one drain in flight nothing is skipped, so a batch that has a message   *)
(* has the pending ones stored before it was sent.                         *)
(***************************************************************************)
OneDrainAtATime == \A x, y \in Drainer : x = y

BatchInOrder ==
  \A x \in Drainer : drain[x] # None =>
    \A m \in drain[x].batch : \A k \in row[m].history.after :
      k \in drain[x].batch \/ k \in got[To[m]]

OrderInv == StampInv /\ DeliveryInv /\ BatchInOrder /\ InOrder

\* ORDER BY created_at LIMIT n: what is older than a selected row is selected.
LEMMA OldestClosed ==
  ASSUME NEW S \in SUBSET Msg, \A j \in S : row[j].at \in Nat, NEW n \in Nat,
         NEW m \in Oldest(S, n), NEW k \in S, row[k].at < row[m].at
  PROVE  k \in Oldest(S, n)
  <1> DEFINE A == {j \in S : row[j].at < row[k].at}
             B == {j \in S : row[j].at < row[m].at}
  <1>1. m \in S /\ Cardinality(B) < n
    BY DEF Oldest
  <1>2. A \subseteq B
    BY <1>1
  <1>3. IsFiniteSet(B)
    BY FS_Subset, MailboxAssumption
  <1>4. /\ IsFiniteSet(A) /\ Cardinality(A) <= Cardinality(B)
        /\ Cardinality(A) \in Nat /\ Cardinality(B) \in Nat
    BY <1>2, <1>3, FS_Subset, FS_CardinalityType
  <1>5. Cardinality(A) < n
    BY <1>1, <1>4
  <1>6. QED
    BY <1>5 DEF Oldest

LEMMA ClampType == \A n \in AskedLimit : Clamp(n) \in Nat
  BY MailboxAssumption DEF Clamp, Positive

\* What is in a batch is a stored row addressed to the drain's device.
LEMMA BatchStored ==
  ASSUME DeliveryInv, NEW x \in Drainer, drain[x] # None, NEW m \in drain[x].batch
  PROVE  m \in Msg /\ Stored(m) /\ To[m] = drain[x].dev
  <1>1. drain[x] \in DrainCall
    BY Records DEF DeliveryInv, TypeInv
  <1>2. CASE drain[x].pc = "selected"
    BY <1>2 DEF DeliveryInv, TypeInv, SelectedStayPending, Selecting, Pending
  <1>3. CASE drain[x].pc = "committed"
    BY <1>1, <1>3 DEF DeliveryInv, CommittedDelivered, DrainCall
  <1>4. QED
    BY <1>1, <1>2, <1>3 DEF DrainCall

LEMMA HoldingGrows ==
  ASSUME DeliveryInv, [Next]_vars, NEW d \in Device
  PROVE  got[d] \subseteq got'[d]
  BY HoldingStep

LEMMA BatchInOrderStep ==
  OneDrainAtATime /\ OrderInv /\ [Next]_vars => BatchInOrder'
  <1> SUFFICES ASSUME OneDrainAtATime, OrderInv, [Next]_vars,
                      NEW y \in Drainer, drain'[y] # None,
                      NEW m \in drain'[y].batch, NEW k \in row'[m].history.after
               PROVE  k \in drain'[y].batch \/ k \in got'[To[m]]
    BY DEF BatchInOrder
  <1> USE DEF OrderInv
  <1>1. RowsGrow /\ TypeOK
    BY RowsGrowStep DEF DeliveryInv, TypeInv
  <1>2. ASSUME drain[y] # None, drain'[y].batch = drain[y].batch
        PROVE  k \in drain'[y].batch \/ k \in got'[To[m]]
    <2>1. m \in Msg /\ Stored(m) /\ To[m] \in Device
      BY <1>2, BatchStored, MailboxAssumption
    <2>2. k \in row[m].history.after
      BY <1>1, <2>1 DEF RowsGrow
    <2>3. k \in drain[y].batch \/ k \in got[To[m]]
      BY <1>2, <2>2 DEF BatchInOrder
    <2>4. QED
      BY <1>2, <2>1, <2>3, HoldingGrows
  <1>3. ASSUME NEW d \in Device, NEW asked \in AskedLimit, DrainSelect(y, d, asked)
        PROVE  k \in drain'[y].batch \/ k \in got'[To[m]]
    <2> DEFINE S == Pending(d) \ Locked
    <2>1. /\ drain'[y].batch = Oldest(S, Clamp(asked)) /\ row' = row /\ got' = got
      BY <1>1, <1>3 DEF DrainSelect, TypeOK
    <2>2. S = Pending(d)
      BY <1>3 DEF OneDrainAtATime, DrainSelect, Locked, Selecting
    <2>3. m \in Msg /\ Stored(m) /\ To[m] = d
      BY <2>1 DEF Oldest, Pending
    <2>4. k \in Msg /\ Stored(k) /\ To[k] = d /\ row[k].at < row[m].at
      BY <1>1, <2>1, <2>3, Records DEF StampInv, RowsStamped, StampOrder, Row, History
    <2>5. CASE row[k].acked
      BY <2>1, <2>3, <2>4, <2>5 DEF DeliveryInv, ReadWasReceived
    <2>6. CASE ~row[k].acked
      <3>1. k \in S
        BY <2>2, <2>4, <2>6 DEF Pending
      <3>2. S \in SUBSET Msg /\ \A j \in S : row[j].at \in Nat
        BY <1>1, Records DEF Pending, Row
      <3>3. Clamp(asked) \in Nat /\ m \in Oldest(S, Clamp(asked))
        BY <2>1, ClampType
      <3> HIDE DEF S
      <3>4. k \in Oldest(S, Clamp(asked))
        BY <2>4, <3>1, <3>2, <3>3, OldestClosed
      <3>5. QED
        BY <2>1, <3>4
    <2>7. QED
      BY <2>5, <2>6
  <1>4. \/ drain[y] # None /\ drain'[y].batch = drain[y].batch
        \/ \E d \in Device, asked \in AskedLimit : DrainSelect(y, d, asked)
    <2>1. ASSUME DrainCommit(y)
          PROVE  drain[y] # None /\ drain'[y].batch = drain[y].batch
      <3>1. drain[y] \in DrainCall /\ drain[y] # None
        BY <1>1, <2>1, Records DEF DrainCommit, Selecting
      <3>2. QED
        BY <1>1, <2>1, <3>1 DEF DrainCommit, DrainCall, TypeOK
    <2>2. ASSUME DrainAbort(y) \/ \E arrives \in SUBSET Msg : DrainReply(y, arrives)
          PROVE  FALSE
      BY <1>1, <2>2 DEF DrainAbort, DrainReply, TypeOK
    <2>3. ASSUME NEW x \in Drainer, DrainStep(x)
          PROVE  x = y
      BY DEF OneDrainAtATime
    <2>4. CASE drain' = drain
      BY <2>4
    <2>5. CASE drain' # drain
      BY <2>1, <2>2, <2>3, <2>5
         DEF Next, SendStep, DrainStep, SendArrive, CheckBlocks, BeginInsert, CommitInsert,
             SendDropped, Ack, Block, Unblock, Crash, vars
    <2>6. QED
      BY <2>4, <2>5
  <1>5. QED
    BY <1>2, <1>3, <1>4

LEMMA InOrderStep == OrderInv /\ [Next]_vars => InOrder'
  <1> SUFFICES ASSUME OrderInv, [Next]_vars, NEW m \in Msg, m \in got'[To[m]],
                      NEW k \in row'[m].history.after
               PROVE  k \in got'[To[m]]
    BY DEF InOrder
  <1> USE DEF OrderInv
  <1>1. RowsGrow /\ TypeOK /\ To[m] \in Device
    BY RowsGrowStep, MailboxAssumption DEF DeliveryInv, TypeInv
  <1>2. CASE m \in got[To[m]]
    <2>1. Stored(m)
      BY <1>1, <1>2 DEF DeliveryInv, HeldIsDelivered
    <2>2. k \in row[m].history.after
      BY <1>1, <2>1 DEF RowsGrow
    <2>3. QED
      BY <1>1, <1>2, <2>2, HoldingGrows DEF InOrder
  <1>3. CASE m \notin got[To[m]]
    <2>1. PICK x \in Drainer :
            /\ drain[x] # None /\ drain[x].dev = To[m]
            /\ \E arrives \in Prefixes(drain[x].batch) :
                 got'[To[m]] = got[To[m]] \union arrives
      BY <1>1, <1>3, HoldingStep
    <2>2. PICK arrives \in Prefixes(drain[x].batch) :
            got'[To[m]] = got[To[m]] \union arrives
      BY <2>1
    <2>3. m \in arrives /\ m \in drain[x].batch
      BY <1>3, <2>2 DEF Prefixes
    <2>4. Stored(m)
      BY <2>1, <2>3, BatchStored
    <2>5. k \in row[m].history.after
      BY <1>1, <2>4 DEF RowsGrow
    <2>6. k \in drain[x].batch \/ k \in got[To[m]]
      BY <2>1, <2>3, <2>5 DEF BatchInOrder
    <2>7. row[k].at < row[m].at
      BY <2>4, <2>5 DEF StampInv, StampOrder
    <2>8. k \in drain[x].batch => k \in arrives
      BY <2>2, <2>3, <2>7 DEF Prefixes
    <2>9. QED
      BY <2>2, <2>6, <2>8
  <1>4. QED
    BY <1>2, <1>3

\* A device that has one drain at a time receives a message only together with or
\* after those that were stored for it before the message was sent, whatever was
\* rolled back, lost, cut short or acknowledged in between, for every limit.
THEOREM DeliveredInOrder ==
  ASSUME OneDrainAtATime
  PROVE  Spec => []InOrder
<1>1. Init => OrderInv
  BY StampInit, DeliveryInit, MailboxAssumption DEF Init, OrderInv, BatchInOrder, InOrder
<1>2. OrderInv /\ [Next]_vars => OrderInv'
  BY StampStep, DeliveryStep, BatchInOrderStep, InOrderStep, OneDrainAtATime DEF OrderInv
<1>3. OrderInv => InOrder
  BY DEF OrderInv
<1>4. QED
  BY <1>1, <1>2, <1>3, PTL DEF Spec
=============================================================================
