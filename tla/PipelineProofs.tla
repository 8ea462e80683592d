--------------------------- MODULE PipelineProofs ---------------------------
(***************************************************************************)
(* Proofs about Pipeline, for every number of crashes, capacity, batch     *)
(* size and set of commit-ordered feeds: its invariants, and that it       *)
(* implements Replication, where the commit of a batch is a Deliver, a     *)
(* status update a Confirm, the death of the process a Restart, and every  *)
(* other step leaves what Replication sees as it is.                       *)
(***************************************************************************)
EXTENDS PipelineRefinement, StreamProofs

-----------------------------------------------------------------------------
(* Type correctness.                                                       *)

\* The initial state is well typed.
LEMMA TypeInit == Init => TypeOK
BY MaxCrashesAssumption, MessageCapAssumption, ChunkSizeAssumption
   DEF Init, StreamInit, ProduceInit, TypeOK, StreamTypeOK, ProduceTypeOK

\* Every step of Pipeline keeps the types; that a batch never exceeds
\* ChunkSize needs BatchOK (Produce flushes a full batch before it takes more).
LEMMA TypeNext ==
  ASSUME TypeOK, BatchOK, [Next]_vars
  PROVE  TypeOK'
<1>a. StreamTypeOK /\ ProduceTypeOK /\ up \in BOOLEAN /\ crashes \in 0 .. MaxCrashes
  BY DEF TypeOK
<1>1. CASE SinkStep
  <2>1. ProduceTypeOK' /\ up' \in BOOLEAN /\ crashes' \in 0 .. MaxCrashes
    BY <1>a, <1>1 DEF SinkStep, produceVars, ProduceTypeOK
  <2>2. StreamTypeOK'
    BY <1>a, <1>1, SinkType DEF SinkStep
  <2> QED BY <2>1, <2>2 DEF TypeOK
<1>2. CASE ProcessStep
  <2>1. messageCH \in Seq(Message) /\ messageCH # << >>
    BY <1>a, <1>2 DEF ProcessStep, Listen, StreamTypeOK
  <2>2. /\ Head(messageCH) \in Message /\ Tail(messageCH) \in Seq(Message)
        /\ Len(Tail(messageCH)) = Len(messageCH) - 1 /\ Len(messageCH) \in Nat
    BY <2>1, IdxTail
  <2>3. StreamTypeOK'
    BY <1>a, <1>2, <2>2, MessageCapAssumption DEF ProcessStep, Listen, StreamTypeOK
  <2>4. messages' \in Seq(Message) /\ Len(messages') <= ChunkSize
    BY <1>a, <1>2, <2>2, AppendType, ChunkSizeAssumption
       DEF ProcessStep, Listen, ProduceTypeOK
  <2> QED BY <1>a, <1>2, <2>3, <2>4 DEF ProcessStep, Listen, TypeOK, ProduceTypeOK
<1>3. CASE BatchStep
  <2>1. StreamTypeOK' /\ up' \in BOOLEAN /\ crashes' \in 0 .. MaxCrashes
    BY <1>a, <1>3 DEF BatchStep, streamVars, StreamTypeOK
  <2>2. ProduceTypeOK'
    <3>1. CASE Collect
      <4>1. messages \in Seq(Message) /\ messages # << >> /\ queue \in Seq(Message)
        BY <1>a, <3>1 DEF Collect, ProduceTypeOK
      <4>2. /\ Head(messages) \in Message /\ Tail(messages) \in Seq(Message)
            /\ Len(Tail(messages)) = Len(messages) - 1 /\ Len(messages) \in Nat
        BY <4>1, IdxTail
      <4>3. Len(queue) < ChunkSize /\ Len(queue) \in Nat
        BY <3>1, <4>1 DEF BatchOK, Collect
      <4>4. queue' \in Seq(Message) /\ Len(queue') <= ChunkSize
        BY <3>1, <4>1, <4>2, <4>3, ChunkSizeAssumption DEF Collect
      <4>5. messages' \in Seq(Message) /\ Len(messages') <= ChunkSize
        BY <1>a, <3>1, <4>2, ChunkSizeAssumption DEF Collect, ProduceTypeOK
      <4> QED BY <1>a, <3>1, <4>4, <4>5 DEF Collect, BeginFlush, ProduceTypeOK
    <3>2. CASE TimerFlush
      BY <1>a, <3>2 DEF TimerFlush, BeginFlush, ProduceTypeOK
    <3>3. CASE Exec
      <4>1. execPos \in 1 .. Len(queue) /\ queue \in Seq(Message)
        BY <1>a, <3>3 DEF Exec, ProduceTypeOK
      <4>2. queue[execPos].idx \in Nat
        BY <4>1, MessageType
      <4>3. staged' \in [Keys -> Nat]
        BY <1>a, <3>3, <4>2 DEF Exec, ProduceTypeOK
      <4> QED BY <1>a, <3>3, <4>3 DEF Exec, ProduceTypeOK
    <3>4. CASE CloseBatch
      BY <1>a, <3>4 DEF CloseBatch, ProduceTypeOK
    <3> QED BY <1>3, <3>1, <3>2, <3>3, <3>4 DEF BatchStep
  <2> QED BY <2>1, <2>2 DEF TypeOK
<1>4. CASE AckStep
  <2>1. ASSUME producePC = "ack" PROVE queue[Len(queue)].lsn \in Nat
    <3>1. queue \in Seq(Message) /\ queue # << >>
      BY <1>a, <2>1 DEF BatchOK, ProduceTypeOK
    <3>2. queue[Len(queue)] \in Message
      BY <3>1
    <3> QED BY <3>2, MessageType
  <2>2. lastXLogPos' \in Nat /\ confirmed' \in Nat
    BY <1>a, <1>4, <2>1
       DEF AckStep, AckUpdate, AckSend, UpdateXLogPos, Confirm, StreamTypeOK
  <2>3. StreamTypeOK' /\ up' \in BOOLEAN /\ crashes' \in 0 .. MaxCrashes
    BY <1>a, <1>4, <2>2 DEF AckStep, StreamTypeOK
  <2>4. ProduceTypeOK'
    <3>1. queue' = queue \/ queue' = << >>
      BY <1>4 DEF AckStep, AckUpdate, AckSend
    <3>2. queue' \in Seq(Message) /\ Len(queue') <= ChunkSize
      <4>1. CASE queue' = queue
        BY <1>a, <4>1 DEF ProduceTypeOK
      <4>2. CASE queue' = << >>
        BY <4>2, EmptySeq, ChunkSizeAssumption
      <4> QED BY <3>1, <4>1, <4>2
    <3> QED BY <1>a, <1>4, <3>2 DEF AckStep, AckUpdate, AckSend, ProduceTypeOK
  <2> QED BY <2>3, <2>4 DEF TypeOK
<1>5. CASE Crash
  <2>1. StreamTypeOK'
    BY <1>a, <1>5, ProcessType DEF Crash
  <2>2. ProduceTypeOK'
    BY <1>a, <1>5, ChunkSizeAssumption, EmptySeq DEF Crash, ProduceDown, ProduceTypeOK
  <2>3. up' \in BOOLEAN /\ crashes' \in 0 .. MaxCrashes
    <3>1. crashes' = crashes + 1 /\ crashes < MaxCrashes
      BY <1>5 DEF Crash
    <3>2. up' = FALSE
      BY <1>5, Zenon DEF Crash
    <3>3. crashes' \in 0 .. MaxCrashes
      BY <1>a, <3>1, MaxCrashesAssumption
    <3> QED BY <3>2, <3>3
  <2> QED BY <2>1, <2>2, <2>3 DEF TypeOK
<1>6. CASE Restart
  <2>1. StreamTypeOK'
    BY <1>a, <1>6, ProcessType DEF Restart
  <2> QED BY <1>a, <1>6, <2>1 DEF Restart, produceVars, TypeOK, ProduceTypeOK
<1>7. CASE UNCHANGED vars
  BY <1>a, <1>7 DEF vars, streamVars, produceVars, TypeOK, StreamTypeOK, ProduceTypeOK
<1> QED BY <1>1, <1>2, <1>3, <1>4, <1>5, <1>6, <1>7 DEF Next

-----------------------------------------------------------------------------
(* Facts that hold in every state of the inductive invariant.              *)

\* What is pending was received in this session.
LEMMA PendingReceived ==
  ASSUME TypeOK, StreamOK, MessagesOK, NEW p \in Idx(queue) \cup Idx(messages) \cup InStream
  PROVE  p \in DOMAIN feed /\ p \in Nat /\ p <= cursor /\ ~ Skipped(feed[p])
<1>1. CASE p \in InStream
  BY <1>1, InStreamReceived DEF TypeOK
<1>2. CASE p \in Idx(queue) \cup Idx(messages)
  <2>1. PICK m : p = m.idx /\ Received(m)
    BY <1>2 DEF Idx, MessagesOK, MessageOK
  <2> QED BY <2>1, FeedType DEF Received, TypeOK
<1> QED BY <1>1, <1>2

\* A position stays covered while the target stands still and the messages that
\* join the pending ones come from beyond the cursor.
LEMMA CoveredKept ==
  ASSUME TypeOK, feed' = feed, startLsn' = startLsn, target' = target,
         cursor' \in Nat, cursor <= cursor',
         \A p \in Pending' :
           \/ p \in Pending
           \/ p \in DOMAIN feed /\ p > cursor /\ ~ Skipped(feed[p]),
         NEW l, Covered(l)
  PROVE  Covered(l)'
<1> SUFFICES ASSUME NEW i \in DOMAIN feed, Change(i), feed[i].end <= l
             PROVE  /\ Reflected(i)
                    /\ \A p \in Pending' : i < p
                    /\ i <= cursor' \/ Skipped(feed[i])
  BY DEF Covered, Change, Reflected, Skipped
<1>1. /\ Reflected(i)
      /\ \A p \in Pending : i < p
      /\ i <= cursor \/ Skipped(feed[i])
  BY DEF Covered
<1>2. i \in Nat /\ cursor \in Nat
  BY FeedElement DEF TypeOK, StreamTypeOK
<1>3. ASSUME NEW p \in Pending' PROVE i < p
  <2>1. CASE p \in Pending
    BY <1>1, <2>1
  <2>2. CASE p \in DOMAIN feed /\ p > cursor /\ ~ Skipped(feed[p])
    BY <1>1, <1>2, <2>2, Ordered, FeedElement DEF TypeOK
  <2> QED BY <2>1, <2>2
<1> QED BY <1>1, <1>2, <1>3

\* Complete survives a step that moves no message and writes no row.
LEMMA CompleteKept ==
  ASSUME TypeOK, Complete, up, feed' = feed, startLsn' = startLsn, target' = target,
         cursor' = cursor, Pending' = Pending
  PROVE  Complete'
BY DEF Complete, Change, Reflected, Skipped

\* Position 0, that of a stream that has acknowledged nothing, covers nothing.
LEMMA NoPositionCovered == ASSUME StreamTypeOK PROVE Covered(0)
<1>1. \A i \in DOMAIN feed : feed[i].end \in Nat /\ feed[i].end > 0
  BY FeedType, FeedElement DEF CommitOrdered
<1> QED BY <1>1 DEF Covered

\* The positions stay covered when each of them stays or moves to a covered one.
LEMMA PositionsKept ==
  ASSUME PositionsCovered, startLsn' = startLsn,
         \A l : Covered(l) => Covered(l)',
         Covered(confirmed'), Covered(lastXLogPos'), Covered(statusPos')
  PROVE  PositionsCovered'
<1>1. /\ Covered(startLsn)' /\ Covered(confirmed)'
      /\ Covered(lastXLogPos)' /\ Covered(statusPos)'
  BY DEF PositionsCovered, Covered
<1> QED BY <1>1 DEF PositionsCovered

\* A step that moves no message keeps what the invariant says of messages.
LEMMA MessagesKept ==
  ASSUME StreamOK, MessagesOK, OnlyChangesQueued, OrderOK,
         UNCHANGED <<feed, cursor, startLsn, prevMessage, messageCH, messages, queue>>
  PROVE  /\ StreamOK' /\ MessagesOK' /\ OnlyChangesQueued' /\ OrderOK'
         /\ Idx(queue)' = Idx(queue) /\ Idx(messages)' = Idx(messages) /\ InStream' = InStream
<1>1. StreamOK' /\ InStream' = InStream
  BY StreamKept
<1>2. Idx(queue)' = Idx(queue) /\ Idx(messages)' = Idx(messages)
  BY DEF Idx
<1>3. MessagesOK' /\ OnlyChangesQueued'
  BY DEF MessagesOK, OnlyChangesQueued, MessageOK, Received, LsnSafe, Skipped
<1>4. OrderOK'
  BY <1>1, <1>2 DEF OrderOK, Sorted, Before
<1> QED BY <1>1, <1>2, <1>3, <1>4

-----------------------------------------------------------------------------
(* The sink preserves the invariant.                                       *)

\* The sink receives a message.
LEMMA SinkReceiveInv ==
  ASSUME IInv, TypeOK', up, SinkReceive, UNCHANGED <<produceVars, up, crashes>>
  PROVE  IInv'
<1>a. TypeOK /\ StreamOK /\ MessagesOK /\ OnlyChangesQueued /\ OrderOK /\ Complete
      /\ PositionsCovered /\ BatchOK
  BY DEF IInv
<1>b. UNCHANGED <<messages, queue, producePC, execPos, staged, target, up>>
  BY DEF produceVars
<1>c. /\ StreamOK'
      /\ feed' = feed /\ startLsn' = startLsn /\ lastXLogPos' = lastXLogPos
      /\ confirmed' = confirmed /\ statusPos' = statusPos
      /\ cursor \in Nat /\ cursor' \in Nat /\ cursor < cursor' /\ cursor' \in DOMAIN feed
      /\ InStream \subseteq InStream'
      /\ \A p \in InStream' :
           p \in InStream \/ (p \in DOMAIN feed /\ p > cursor /\ ~ Skipped(feed[p]))
      /\ \A j \in DOMAIN feed : feed[j].tag = "dml" /\ j > cursor /\ j <= cursor' =>
           j \in InStream' \/ Skipped(feed[j])
  BY <1>a, ReceiveInv DEF TypeOK
<1>d. \A p \in DOMAIN feed : p \in Nat
  BY <1>a, FeedElement DEF TypeOK
<1>1. Idx(queue)' = Idx(queue) /\ Idx(messages)' = Idx(messages) /\ BatchIdx' = BatchIdx
  BY <1>b DEF Idx, BatchIdx
<1>2. MessagesOK' /\ OnlyChangesQueued' /\ BatchOK'
  <2>1. \A m : MessageOK(m) => MessageOK(m)'
    BY <1>a, <1>c, MessageKept DEF TypeOK
  <2>2. MessagesOK'
    BY <1>a, <1>b, <1>c, <2>1 DEF MessagesOK, MessageOK, Received, LsnSafe, Skipped
  <2> QED BY <1>a, <1>b, <1>c, <2>2 DEF OnlyChangesQueued, BatchOK
<1>3. \A q \in Idx(queue) \cup Idx(messages) : q \in Nat /\ q <= cursor
  BY <1>a, PendingReceived
<1>4. OrderOK'
  <2>1. Before(Idx(queue) \cup Idx(messages), InStream')
    <3> SUFFICES ASSUME NEW q \in Idx(queue) \cup Idx(messages), NEW p \in InStream'
                 PROVE  q < p
      BY DEF Before
    <3>1. CASE p \in InStream
      BY <1>a, <3>1 DEF OrderOK, Before
    <3>2. CASE p \in DOMAIN feed /\ p > cursor
      BY <1>c, <1>d, <1>3, <3>2
    <3> QED BY <1>c, <3>1, <3>2
  <2>2. Sorted(queue)' /\ Sorted(messages)'
    BY <1>a, <1>b DEF OrderOK, Sorted
  <2> QED BY <1>a, <1>1, <2>1, <2>2 DEF OrderOK, Before
<1>5. Complete'
  <2> SUFFICES ASSUME NEW j \in 1 .. cursor', Change(j), ~ Skipped(feed[j])
               PROVE  \/ j \in Pending'
                      \/ Reflected(j) /\ \A p \in Pending' : j < p
    BY <1>b, <1>c DEF Complete, Change, Reflected, Skipped
  <2>1. j \in DOMAIN feed /\ j \in Nat
    BY <1>a, <1>c, FeedType, FeedElement DEF TypeOK
  <2>2. CASE j > cursor
    BY <1>c, <2>1, <2>2 DEF Change, Pending
  <2>3. CASE j <= cursor
    <3>1. j \in Pending \/ (Reflected(j) /\ \A p \in Pending : j < p)
      BY <1>a, <1>c, <2>1, <2>3 DEF Complete
    <3>2. CASE j \in Pending
      BY <1>c, <1>1, <3>2 DEF Pending
    <3>3. CASE Reflected(j) /\ \A p \in Pending : j < p
      <4>1. \A p \in Pending' : p \in Pending \/ (p \in DOMAIN feed /\ p > cursor)
        BY <1>c, <1>1 DEF Pending
      <4> QED BY <1>c, <1>d, <2>1, <2>3, <3>3, <4>1
    <3> QED BY <3>1, <3>2, <3>3
  <2> QED BY <1>c, <2>1, <2>2, <2>3
<1>6. PositionsCovered'
  <2>1. \A p \in Pending' :
          p \in Pending \/ (p \in DOMAIN feed /\ p > cursor /\ ~ Skipped(feed[p]))
    BY <1>c, <1>1 DEF Pending
  <2>2. \A l : Covered(l) => Covered(l)'
    BY <1>a, <1>b, <1>c, <2>1, CoveredKept
  <2> QED BY <1>a, <1>c, <2>2, PositionsKept DEF PositionsCovered
<1>7. DownOK'
  BY Zenon DEF DownOK
<1> QED BY <1>c, <1>2, <1>4, <1>5, <1>6, <1>7 DEF IInv

-----------------------------------------------------------------------------
(* Status updates and acknowledgements.                                    *)

\* A step that leaves the messages and the target, and moves positions only to
\* positions that are covered.
LEMMA PositionStep ==
  ASSUME IInv, TypeOK', up,
         UNCHANGED <<feed, cursor, startLsn, prevMessage, messageCH, messages, queue, target, up>>,
         BatchIdx' = BatchIdx, BatchOK',
         Covered(confirmed'), Covered(lastXLogPos'), Covered(statusPos')
  PROVE  IInv'
<1>a. TypeOK /\ StreamOK /\ MessagesOK /\ OnlyChangesQueued /\ OrderOK /\ Complete
      /\ PositionsCovered /\ cursor \in Nat
  BY FeedType DEF IInv, TypeOK
<1>1. /\ StreamOK' /\ MessagesOK' /\ OnlyChangesQueued' /\ OrderOK'
      /\ Idx(queue)' = Idx(queue) /\ Idx(messages)' = Idx(messages) /\ InStream' = InStream
  BY <1>a, MessagesKept
<1>2. Pending' = Pending
  BY <1>1 DEF Pending
<1>3. Complete'
  BY <1>a, <1>2, CompleteKept
<1>4. PositionsCovered'
  BY <1>a, <1>2, CoveredKept, PositionsKept
<1>5. DownOK'
  BY Zenon DEF DownOK
<1> QED BY <1>1, <1>3, <1>4, <1>5 DEF IInv

\* The status updates of the sink report positions that are covered, also when
\* they were loaded before an Ack.
LEMMA SinkStatusInv ==
  ASSUME IInv, TypeOK', up, SinkTimeout \/ SinkKeepalive \/ SinkSend,
         UNCHANGED <<produceVars, up, crashes>>
  PROVE  IInv'
<1>1. UNCHANGED <<feed, cursor, startLsn, prevMessage, messageCH, messages, queue,
                  producePC, execPos, staged, target, up>>
  BY DEF SinkTimeout, SinkKeepalive, SinkSend, produceVars
<1>2. BatchIdx' = BatchIdx /\ BatchOK'
  BY <1>1 DEF IInv, BatchIdx, BatchOK, Idx
<1>3. Covered(confirmed) /\ Covered(lastXLogPos) /\ Covered(statusPos) /\ Covered(0)
  BY NoPositionCovered DEF IInv, PositionsCovered, TypeOK
<1>4. Covered(confirmed') /\ Covered(lastXLogPos') /\ Covered(statusPos')
  BY <1>3 DEF SinkTimeout, SinkKeepalive, SinkSend, Confirm
<1> QED BY <1>1, <1>2, <1>4, PositionStep

\* The last message of a committed batch covers nothing that is not in the
\* target: this is why one Ack per batch is enough.
LEMMA BatchCovered ==
  ASSUME IInv, up, producePC \in {"ack", "send"}
  PROVE  Covered(queue[Len(queue)].lsn)
<1> DEFINE m == queue[Len(queue)]
<1>a. TypeOK /\ MessagesOK /\ OrderOK /\ Complete /\ PositionsCovered /\ BatchOK
  BY DEF IInv
<1>1. queue \in Seq(Message) /\ queue # << >>
  BY <1>a DEF TypeOK, ProduceTypeOK, BatchOK
<1>2. Len(queue) \in DOMAIN queue /\ m \in Message
  BY <1>1
<1>3. Received(m) /\ LsnSafe(m) /\ m.idx \in Idx(queue)
  BY <1>a, <1>2 DEF MessagesOK, MessageOK, Idx
<1> HIDE DEF m
<1>4. m.idx \in Nat /\ m.idx <= cursor /\ cursor \in Nat
  BY <1>a, <1>2, <1>3, MessageType, FeedType DEF Received, TypeOK, StreamTypeOK
<1>5. \A p \in Pending : m.idx < p
  <2>1. Pending = Idx(messages) \cup InStream
    BY DEF Pending, BatchIdx
  <2> QED BY <1>a, <1>3, <2>1 DEF OrderOK, Before
<1>6. ASSUME NEW i \in DOMAIN feed, Change(i), feed[i].end <= m.lsn
      PROVE  /\ Reflected(i)
             /\ \A p \in Pending : i < p
             /\ i <= cursor \/ Skipped(feed[i])
  <2>1. i <= m.idx /\ i \in Nat /\ i > 0 /\ feed[i].end \in Nat
    BY <1>a, <1>3, <1>6, FeedElement DEF LsnSafe, Change, TypeOK
  <2>2. i <= cursor
    BY <1>4, <2>1
  <2>3. CASE Skipped(feed[i])
    BY <1>a, <1>6, <2>2, <2>3 DEF PositionsCovered, Covered, Skipped
  <2>4. CASE ~ Skipped(feed[i])
    <3>1. i \notin Pending
      BY <1>4, <1>5, <2>1
    <3>2. i \in 1 .. cursor
      BY <1>4, <2>1, <2>2
    <3> QED BY <1>a, <1>6, <2>2, <2>4, <3>1, <3>2 DEF Complete
  <2> QED BY <2>3, <2>4
<1>7. Covered(m.lsn)
  BY <1>6 DEF Covered
<1> QED BY <1>7 DEF m

\* The Ack of a batch moves lastXLogPos, and then the slot, to a covered position.
LEMMA AckStepInv ==
  ASSUME IInv, TypeOK', AckStep
  PROVE  IInv'
<1>a. /\ up
      /\ Covered(confirmed) /\ Covered(lastXLogPos) /\ Covered(statusPos)
      /\ confirmed' = confirmed \/ confirmed' = Confirm(lastXLogPos)
  BY DEF IInv, PositionsCovered, AckStep, AckSend
<1>b. UNCHANGED <<feed, cursor, startLsn, sinkPC, statusPos, prevMessage, messageCH, up>>
  BY DEF AckStep
<1>c. Covered(confirmed') /\ Covered(statusPos')
  BY <1>a, <1>b DEF Confirm
<1>1. CASE AckUpdate
  <2>1. Covered(lastXLogPos')
    <3>1. Covered(queue[Len(queue)].lsn)
      BY <1>a, <1>1, BatchCovered DEF AckUpdate
    <3> QED BY <1>a, <1>1, <3>1 DEF AckUpdate, UpdateXLogPos
  <2>2. BatchIdx' = BatchIdx /\ BatchOK'
    BY <1>1 DEF AckUpdate, BatchIdx, BatchOK, IInv
  <2>3. UNCHANGED <<messages, queue, execPos, staged, target>>
    BY <1>1 DEF AckUpdate
  <2> QED BY <1>a, <1>b, <1>c, <2>1, <2>2, <2>3, PositionStep
<1>2. CASE AckSend /\ UNCHANGED lastXLogPos
  <2>a. TypeOK /\ StreamOK /\ MessagesOK /\ OnlyChangesQueued /\ OrderOK /\ Complete
        /\ PositionsCovered /\ BatchOK /\ cursor \in Nat
    BY FeedType DEF IInv, TypeOK
  <2>b. /\ UNCHANGED <<messages, execPos, staged, target>>
        /\ queue' = << >> /\ producePC' = "collect" /\ producePC = "send"
        /\ lastXLogPos' = lastXLogPos
    BY <1>2 DEF AckSend
  <2>1. /\ Idx(queue)' = {} /\ Sorted(queue)' /\ Len(queue') = 0
        /\ DOMAIN queue' = {}
    <3>1. DOMAIN << >> = {}
      OBVIOUS
    <3> QED BY <2>b, <3>1, EmptySeq DEF Idx, Sorted
  <2>2. StreamOK' /\ InStream' = InStream /\ Idx(messages)' = Idx(messages)
    BY <1>b, <2>a, <2>b, StreamKept DEF Idx
  <2>3. Pending' = Pending
    BY <2>b, <2>1, <2>2 DEF Pending, BatchIdx
  <2>4. MessagesOK' /\ OnlyChangesQueued'
    BY <1>b, <2>a, <2>b, <2>1
       DEF MessagesOK, OnlyChangesQueued, MessageOK, Received, LsnSafe, Skipped
  <2>5. OrderOK'
    BY <2>a, <2>b, <2>1, <2>2 DEF OrderOK, Sorted, Before
  <2>6. Complete'
    BY <1>a, <1>b, <2>a, <2>b, <2>3, CompleteKept
  <2>7. PositionsCovered'
    <3>1. \A l : Covered(l) => Covered(l)'
      BY <1>b, <2>a, <2>b, <2>3, CoveredKept
    <3> QED BY <1>a, <1>b, <1>c, <2>a, <2>b, <3>1, PositionsKept
  <2>8. BatchOK'
    BY <2>b, <2>1, ChunkSizeAssumption DEF BatchOK
  <2>9. DownOK'
    BY <1>a, <1>b, Zenon DEF DownOK
  <2> QED BY <2>2, <2>4, <2>5, <2>6, <2>7, <2>8, <2>9 DEF IInv
<1> QED BY <1>1, <1>2 DEF AckStep

-----------------------------------------------------------------------------
(* The listener and the batch.                                             *)

\* process hands a message to the listener; a Relation is dropped there.
LEMMA ProcessStepInv ==
  ASSUME IInv, TypeOK', ProcessStep
  PROVE  IInv'
<1> DEFINE m == Head(messageCH)
<1>a. TypeOK /\ StreamOK /\ MessagesOK /\ OnlyChangesQueued /\ OrderOK /\ Complete
      /\ PositionsCovered /\ BatchOK /\ cursor \in Nat /\ messages \in Seq(Message)
  BY FeedType DEF IInv, TypeOK, ProduceTypeOK
<1>b. /\ UNCHANGED <<feed, cursor, startLsn, sinkPC, statusPos, prevMessage,
                      lastXLogPos, confirmed, up>>
      /\ UNCHANGED <<queue, producePC, execPos, staged, target>>
      /\ messageCH # << >> /\ messageCH' = Tail(messageCH)
      /\ \/ /\ feed[m.idx].tag = "dml" /\ messages' = Append(messages, m)
         \/ /\ feed[m.idx].tag # "dml" /\ messages' = messages
  BY DEF ProcessStep, Listen
<1>c. /\ StreamOK'
      /\ m \in Message /\ MessageOK(m)
      /\ InStream = InStream' \cup {m.idx}
      /\ Before({m.idx}, InStream')
  BY <1>a, <1>b, TakeInv DEF TypeOK
<1> HIDE DEF m
<1>1. /\ feed[m.idx].tag = "dml" => Idx(messages)' = Idx(messages) \cup {m.idx}
      /\ feed[m.idx].tag # "dml" => Idx(messages)' = Idx(messages)
      /\ Idx(queue)' = Idx(queue) /\ BatchIdx' = BatchIdx
  <2>1. Idx(Append(messages, m)) = Idx(messages) \cup {m.idx}
    BY <1>a, <1>c, IdxAppend
  <2> QED BY <1>b, <2>1 DEF Idx, BatchIdx
<1>2. /\ Pending' \subseteq Pending
      /\ \A p \in Pending : Change(p) => p \in Pending'
  BY <1>c, <1>1 DEF Pending, Change
<1>3. MessagesOK' /\ OnlyChangesQueued'
  <2>1. \A n \in DOMAIN messages' :
          \/ n \in DOMAIN messages /\ messages'[n] = messages[n]
          \/ messages'[n] = m /\ feed[m.idx].tag = "dml"
    <3>1. CASE feed[m.idx].tag = "dml"
      <4>1. \A n \in DOMAIN Append(messages, m) :
              \/ Append(messages, m)[n] = m
              \/ n \in DOMAIN messages /\ Append(messages, m)[n] = messages[n]
        BY <1>a, <1>c, AppendElement
      <4> QED BY <1>b, <3>1, <4>1
    <3>2. CASE feed[m.idx].tag # "dml"
      BY <1>b, <3>2
    <3> QED BY <3>1, <3>2
  <2>2. \A n \in DOMAIN messages' :
          MessageOK(messages'[n]) /\ feed[messages'[n].idx].tag = "dml"
    BY <1>a, <1>c, <2>1 DEF MessagesOK, OnlyChangesQueued
  <2> QED BY <1>a, <1>b, <2>2
          DEF MessagesOK, OnlyChangesQueued, MessageOK, Received, LsnSafe, Skipped
<1>4. OrderOK'
  <2>1. Sorted(messages)'
    <3>1. CASE messages' = messages
      BY <1>a, <3>1 DEF OrderOK, Sorted
    <3>2. CASE messages' = Append(messages, m)
      <4>1. \A p \in Idx(messages) : p < m.idx
        BY <1>a, <1>c DEF OrderOK, Before
      <4>2. Sorted(Append(messages, m))
        BY <1>a, <1>c, <4>1, SortedAppend DEF OrderOK
      <4> QED BY <3>2, <4>2 DEF Sorted
    <3> QED BY <1>b, <3>1, <3>2
  <2>2. Sorted(queue)'
    BY <1>a, <1>b DEF OrderOK, Sorted
  <2>3. Idx(messages)' \subseteq Idx(messages) \cup {m.idx}
    BY <1>b, <1>1
  <2>4. /\ Before(Idx(queue)', Idx(messages)' \cup InStream')
        /\ Before(Idx(messages)', InStream')
    BY <1>a, <1>c, <1>1, <2>3 DEF OrderOK, Before
  <2> QED BY <2>1, <2>2, <2>4 DEF OrderOK, Before
<1>5. Complete'
  BY <1>a, <1>b, <1>2 DEF Complete, Change, Reflected, Skipped, ProcessStep
<1>6. PositionsCovered'
  <2>1. \A l : Covered(l) => Covered(l)'
    BY <1>a, <1>b, <1>2, CoveredKept
  <2> QED BY <1>a, <1>b, <2>1, PositionsKept DEF PositionsCovered
<1>7. BatchOK'
  BY <1>a, <1>b DEF BatchOK
<1>8. DownOK'
  BY Zenon DEF DownOK, ProcessStep
<1> QED BY <1>c, <1>3, <1>4, <1>5, <1>6, <1>7, <1>8 DEF IInv

\* Produce takes a change into its batch.
LEMMA CollectInv ==
  ASSUME IInv, TypeOK', up, Collect, UNCHANGED <<streamVars, up, crashes>>
  PROVE  IInv'
<1> DEFINE m == Head(messages)
<1>a. TypeOK /\ StreamOK /\ MessagesOK /\ OnlyChangesQueued /\ OrderOK /\ Complete
      /\ PositionsCovered /\ BatchOK /\ cursor \in Nat
      /\ messages \in Seq(Message) /\ queue \in Seq(Message)
  BY FeedType DEF IInv, TypeOK, ProduceTypeOK
<1>b. /\ UNCHANGED <<feed, cursor, startLsn, sinkPC, statusPos, prevMessage, messageCH,
                      lastXLogPos, confirmed, up, target>>
      /\ messages # << >> /\ messages' = Tail(messages)
      /\ queue' = Append(queue, m) /\ producePC = "collect"
      /\ \/ /\ producePC' = "exec" /\ execPos' = 1 /\ staged' = target
         \/ /\ producePC' = "collect" /\ ~ (Len(queue') >= ChunkSize)
  BY DEF Collect, BeginFlush, streamVars
<1>c. /\ m \in Message /\ 1 \in DOMAIN messages /\ m = messages[1]
      /\ \A n \in DOMAIN Tail(messages) :
           n + 1 \in DOMAIN messages /\ Tail(messages)[n] = messages[n + 1]
      /\ Idx(messages) = Idx(Tail(messages)) \cup {m.idx}
      /\ Sorted(Tail(messages)) /\ \A p \in Idx(Tail(messages)) : m.idx < p
  BY <1>a, <1>b, TailElement, IdxTail, SortedTail DEF OrderOK
<1> HIDE DEF m
<1>d. MessageOK(m) /\ feed[m.idx].tag = "dml"
  BY <1>a, <1>c DEF MessagesOK, OnlyChangesQueued
<1>1. /\ Idx(queue)' = Idx(queue) \cup {m.idx}
      /\ Idx(messages)' = Idx(Tail(messages))
      /\ InStream' = InStream /\ StreamOK'
  <2>1. Idx(Append(queue, m)) = Idx(queue) \cup {m.idx}
    BY <1>a, <1>c, IdxAppend
  <2>2. InStream' = InStream /\ StreamOK'
    BY <1>a, <1>b, StreamKept
  <2> QED BY <1>b, <2>1, <2>2 DEF Idx
<1>2. Pending' = Pending
  <2>1. BatchIdx = Idx(queue) /\ BatchIdx' = Idx(queue)'
    BY <1>b DEF BatchIdx
  <2> QED BY <1>c, <1>1, <2>1 DEF Pending
<1>3. MessagesOK' /\ OnlyChangesQueued'
  <2>1. \A n \in DOMAIN Append(queue, m) :
          \/ Append(queue, m)[n] = m
          \/ n \in DOMAIN queue /\ Append(queue, m)[n] = queue[n]
    BY <1>a, <1>c, AppendElement
  <2>2. \A n \in DOMAIN queue' : MessageOK(queue'[n]) /\ feed[queue'[n].idx].tag = "dml"
    BY <1>a, <1>b, <1>d, <2>1 DEF MessagesOK, OnlyChangesQueued
  <2>3. \A n \in DOMAIN messages' : MessageOK(messages'[n]) /\ feed[messages'[n].idx].tag = "dml"
    BY <1>a, <1>b, <1>c DEF MessagesOK, OnlyChangesQueued
  <2> QED BY <1>a, <1>b, <2>2, <2>3
          DEF MessagesOK, OnlyChangesQueued, MessageOK, Received, LsnSafe, Skipped
<1>4. OrderOK'
  <2>1. Sorted(queue)'
    <3>1. \A p \in Idx(queue) : p < m.idx
      BY <1>a, <1>c DEF OrderOK, Before
    <3>2. Sorted(Append(queue, m))
      BY <1>a, <1>c, <3>1, SortedAppend DEF OrderOK
    <3> QED BY <1>b, <3>2 DEF Sorted
  <2>2. Sorted(messages)'
    BY <1>b, <1>c DEF Sorted
  <2>3. /\ Before(Idx(queue)', Idx(messages)' \cup InStream')
        /\ Before(Idx(messages)', InStream')
    BY <1>a, <1>c, <1>1 DEF OrderOK, Before
  <2> QED BY <2>1, <2>2, <2>3 DEF OrderOK, Before
<1>5. Complete'
  BY <1>a, <1>b, <1>2, CompleteKept
<1>6. PositionsCovered'
  <2>1. \A l : Covered(l) => Covered(l)'
    BY <1>a, <1>b, <1>2, CoveredKept
  <2> QED BY <1>a, <1>b, <2>1, PositionsKept DEF PositionsCovered
<1>7. BatchOK'
  <2>1. queue' # << >> /\ queue' \in Seq(Message) /\ Len(queue') \in Nat
    BY <1>a, <1>b, <1>c
  <2>2. CASE producePC' = "exec" /\ execPos' = 1 /\ staged' = target
    <3>1. 1 .. (execPos' - 1) = {} /\ execPos' <= Len(queue') + 1
      BY <2>1, <2>2
    <3> QED BY <1>b, <2>1, <2>2, <3>1 DEF BatchOK
  <2>3. CASE producePC' = "collect" /\ ~ (Len(queue') >= ChunkSize)
    BY <2>1, <2>3, ChunkSizeAssumption DEF BatchOK
  <2> QED BY <1>b, <2>2, <2>3
<1>8. DownOK'
  <2>1. up'
    BY <1>b
  <2> QED BY <2>1, Zenon DEF DownOK
<1> QED BY <1>1, <1>3, <1>4, <1>5, <1>6, <1>7, <1>8 DEF IInv

\* A step of Produce that leaves the messages, the positions and the target.
LEMMA BatchFrame ==
  ASSUME IInv, TypeOK', up, UNCHANGED <<streamVars, up, crashes>>,
         UNCHANGED <<messages, queue, target>>, BatchIdx' = BatchIdx, BatchOK'
  PROVE  IInv'
<1>1. UNCHANGED <<feed, cursor, startLsn, statusPos, prevMessage, messageCH,
                  lastXLogPos, confirmed>>
  BY DEF streamVars
<1>2. Covered(confirmed') /\ Covered(lastXLogPos') /\ Covered(statusPos')
  BY <1>1 DEF IInv, PositionsCovered
<1> QED BY <1>1, <1>2, PositionStep

\* A timer flushes a batch that is not full.
LEMMA TimerFlushInv ==
  ASSUME IInv, TypeOK', up, TimerFlush, UNCHANGED <<streamVars, up, crashes>>
  PROVE  IInv'
<1>1. /\ UNCHANGED <<messages, queue, target>> /\ queue # << >> /\ queue \in Seq(Message)
      /\ producePC = "collect" /\ producePC' = "exec" /\ execPos' = 1 /\ staged' = target
  BY DEF TimerFlush, BeginFlush, IInv, TypeOK, ProduceTypeOK
<1>2. BatchIdx' = BatchIdx
  BY <1>1 DEF BatchIdx, Idx
<1>3. BatchOK'
  <2>1. 1 .. (execPos' - 1) = {} /\ execPos' <= Len(queue') + 1
    BY <1>1
  <2> QED BY <1>1, <2>1 DEF BatchOK
<1> QED BY <1>1, <1>2, <1>3, BatchFrame

\* One query of a batch, in the open transaction.
LEMMA ExecInv ==
  ASSUME IInv, TypeOK', up, Exec, UNCHANGED <<streamVars, up, crashes>>
  PROVE  IInv'
<1> DEFINE q == queue[execPos].idx
           k == feed[q].key
<1>a. TypeOK /\ MessagesOK /\ OnlyChangesQueued /\ OrderOK /\ BatchOK
  BY DEF IInv
<1>1. /\ UNCHANGED <<messages, queue, target>> /\ producePC = "exec" /\ producePC' = "exec"
      /\ execPos' = execPos + 1 /\ execPos <= Len(queue)
      /\ staged' = IF k \in SkipKeys THEN staged ELSE [staged EXCEPT ![k] = q]
      /\ feed' = feed
  BY DEF Exec, streamVars
<1>2. /\ queue \in Seq(Message) /\ execPos \in Nat /\ execPos > 0
      /\ staged \in [Keys -> Nat] /\ target \in [Keys -> Nat] /\ Len(queue) \in Nat
      /\ DOMAIN queue = 1 .. Len(queue)
  BY <1>a DEF TypeOK, ProduceTypeOK
<1>3. /\ execPos \in DOMAIN queue /\ q \in Nat /\ q \in DOMAIN feed /\ k \in Keys
      /\ feed[q].tag = "dml"
  <2>1. execPos \in DOMAIN queue /\ q \in Nat
    BY <1>1, <1>2, MessageType
  <2>2. Received(queue[execPos]) /\ feed[q].tag = "dml"
    BY <1>a, <2>1 DEF MessagesOK, MessageOK, OnlyChangesQueued
  <2>3. q \in DOMAIN feed
    BY <1>a, <2>2, FeedType DEF Received, TypeOK, StreamTypeOK
  <2> QED BY <1>a, <2>1, <2>2, <2>3, FeedType DEF TypeOK
<1>4. BatchIdx' = BatchIdx
  BY <1>1 DEF BatchIdx, Idx
<1>5. 1 .. (execPos' - 1) = 1 .. execPos /\ execPos' <= Len(queue') + 1
  BY <1>1, <1>2
<1>6. ASSUME NEW x \in Keys
      PROVE  \/ staged'[x] = target[x]
             \/ \E n \in 1 .. execPos : feed[queue[n].idx].key = x /\ staged'[x] = queue[n].idx
  <2>1. CASE x = k /\ k \notin SkipKeys
    <3>1. staged'[x] = q
      BY <1>1, <1>2, <2>1
    <3>2. execPos \in 1 .. execPos /\ feed[queue[execPos].idx].key = x
      BY <1>2, <2>1
    <3> QED BY <3>1, <3>2
  <2>2. CASE ~ (x = k /\ k \notin SkipKeys)
    <3>1. staged'[x] = staged[x]
      BY <1>1, <1>2, <2>2
    <3>2. \/ staged[x] = target[x]
          \/ \E n \in 1 .. (execPos - 1) : feed[queue[n].idx].key = x /\ staged[x] = queue[n].idx
      BY <1>a, <1>1 DEF BatchOK
    <3>3. 1 .. (execPos - 1) \subseteq 1 .. execPos
      BY <1>2
    <3> QED BY <3>1, <3>2, <3>3
  <2> QED BY <2>1, <2>2
<1>7. ASSUME NEW n \in 1 .. execPos, feed[queue[n].idx].key \notin SkipKeys
      PROVE  staged'[feed[queue[n].idx].key] >= queue[n].idx
  <2> DEFINE x == feed[queue[n].idx].key
  <2>1. n \in DOMAIN queue /\ queue[n].idx \in Nat /\ queue[n].idx <= q /\ x \in Keys
    <3>1. n \in DOMAIN queue /\ n <= execPos /\ n \in Nat
      BY <1>1, <1>2
    <3>2. queue[n].idx \in Nat
      BY <1>2, <3>1, MessageType
    <3>3. n < execPos => queue[n].idx < q
      BY <1>a, <1>3, <3>1 DEF OrderOK, Sorted
    <3>4. x \in Keys
      <4>1. Received(queue[n]) /\ feed[queue[n].idx].tag = "dml"
        BY <1>a, <3>1 DEF MessagesOK, MessageOK, OnlyChangesQueued
      <4>2. queue[n].idx \in DOMAIN feed
        BY <1>a, <4>1, FeedType DEF Received, TypeOK, StreamTypeOK
      <4> QED BY <1>a, <4>1, <4>2, FeedType DEF TypeOK
    <3> QED BY <1>2, <1>3, <3>1, <3>2, <3>3, <3>4
  <2>2. CASE x = k
    <3>1. staged'[x] = q
      BY <1>1, <1>2, <1>7, <2>1, <2>2
    <3> QED BY <1>3, <2>1, <3>1
  <2>3. CASE x # k
    <3>1. staged'[x] = staged[x]
      BY <1>1, <1>2, <2>1, <2>3
    <3>2. n \in 1 .. (execPos - 1)
      BY <1>2, <2>3
    <3> QED BY <1>a, <1>1, <1>7, <3>1, <3>2 DEF BatchOK
  <2> QED BY <2>2, <2>3
<1>8. BatchOK'
  <2>0. queue' = queue /\ feed' = feed /\ target' = target
    BY <1>1
  <2>1. queue # << >>
    BY <1>a, <1>1 DEF BatchOK
  <2>2. \A x \in Keys :
          \/ staged'[x] = target'[x]
          \/ \E n \in 1 .. (execPos' - 1) :
               feed'[queue'[n].idx].key = x /\ staged'[x] = queue'[n].idx
    BY <1>5, <1>6, <2>0
  <2>3. \A n \in 1 .. (execPos' - 1) :
          feed'[queue'[n].idx].key \notin SkipKeys =>
            staged'[feed'[queue'[n].idx].key] >= queue'[n].idx
    BY <1>5, <1>7, <2>0
  <2> QED BY <1>1, <1>5, <2>1, <2>2, <2>3 DEF BatchOK
<1> QED BY <1>1, <1>4, <1>8, BatchFrame

\* What the commit of a batch shows: its own changes, and every change that was
\* in the target and is older than all that is pending.
LEMMA StagedReflects ==
  ASSUME IInv, producePC = "exec", execPos > Len(queue),
         NEW i \in DOMAIN feed, Change(i),
         i \in Idx(queue) \/ (Reflected(i) /\ \A p \in Pending : i < p)
  PROVE  staged[feed[i].key] >= i
<1>a. TypeOK /\ MessagesOK /\ OnlyChangesQueued /\ BatchOK
  BY DEF IInv
<1>1. /\ queue \in Seq(Message) /\ execPos \in Nat /\ Len(queue) \in Nat
      /\ staged \in [Keys -> Nat] /\ target \in [Keys -> Nat]
      /\ DOMAIN queue = 1 .. Len(queue)
  BY <1>a DEF TypeOK, ProduceTypeOK
<1>2. i \in Nat /\ feed[i].key \in Keys /\ feed[i].key \notin SkipKeys
  BY <1>a, FeedElement, FeedType DEF Change, TypeOK
<1>3. 1 .. (execPos - 1) = DOMAIN queue
  BY <1>a, <1>1 DEF BatchOK
<1>4. CASE i \in Idx(queue)
  <2>1. PICK n \in DOMAIN queue : queue[n].idx = i
    BY <1>4 DEF Idx
  <2> QED BY <1>a, <1>2, <1>3, <2>1 DEF BatchOK
<1>5. CASE Reflected(i) /\ \A p \in Pending : i < p
  <2>1. \/ staged[feed[i].key] = target[feed[i].key]
        \/ \E n \in DOMAIN queue : staged[feed[i].key] = queue[n].idx
    BY <1>a, <1>2, <1>3 DEF BatchOK
  <2>2. \A n \in DOMAIN queue : i < queue[n].idx /\ queue[n].idx \in Nat
    <3>1. Idx(queue) \subseteq Pending
      BY DEF Pending, BatchIdx
    <3> QED BY <1>1, <1>5, <3>1, MessageType DEF Idx
  <2> QED BY <1>1, <1>2, <1>5, <2>1, <2>2 DEF Reflected
<1> QED BY <1>4, <1>5

\* The batch is committed: its changes leave the pending ones and show in the
\* target.
LEMMA CloseBatchInv ==
  ASSUME IInv, TypeOK', up, CloseBatch, UNCHANGED <<streamVars, up, crashes>>
  PROVE  IInv'
<1>a. TypeOK /\ StreamOK /\ MessagesOK /\ OnlyChangesQueued /\ OrderOK /\ Complete
      /\ PositionsCovered /\ BatchOK /\ cursor \in Nat
  BY FeedType DEF IInv, TypeOK
<1>b. /\ UNCHANGED <<feed, cursor, startLsn, sinkPC, statusPos, prevMessage, messageCH,
                      lastXLogPos, confirmed>>
      /\ up'
      /\ UNCHANGED <<messages, queue, execPos, staged>>
      /\ producePC = "exec" /\ execPos > Len(queue)
      /\ target' = staged /\ producePC' = "ack"
  BY DEF CloseBatch, streamVars
<1>1. /\ StreamOK' /\ MessagesOK' /\ OnlyChangesQueued' /\ OrderOK'
      /\ Idx(queue)' = Idx(queue) /\ Idx(messages)' = Idx(messages) /\ InStream' = InStream
  BY <1>a, <1>b, MessagesKept
<1>2. /\ Pending = Idx(queue) \cup Pending'
      /\ Before(Idx(queue), Pending')
  <2>1. BatchIdx = Idx(queue) /\ BatchIdx' = {}
    BY <1>b DEF BatchIdx
  <2> QED BY <1>a, <1>1, <2>1 DEF Pending, OrderOK, Before
<1>3. Complete'
  <2> SUFFICES ASSUME NEW i \in 1 .. cursor, Change(i), ~ Skipped(feed[i])
               PROVE  \/ i \in Pending'
                      \/ staged[feed[i].key] >= i /\ \A p \in Pending' : i < p
    BY <1>b DEF Complete, Change, Reflected, Skipped
  <2>1. i \in DOMAIN feed
    BY <1>a, FeedType DEF TypeOK, StreamTypeOK
  <2>2. i \in Pending \/ (Reflected(i) /\ \A p \in Pending : i < p)
    BY <1>a DEF Complete
  <2>3. CASE i \in Idx(queue)
    BY <1>b, <1>2, <2>1, <2>3, StagedReflects DEF Before
  <2>4. CASE i \in Pending'
    BY <2>4
  <2>5. CASE Reflected(i) /\ \A p \in Pending : i < p
    BY <1>b, <1>2, <2>1, <2>5, StagedReflects
  <2> QED BY <1>2, <2>2, <2>3, <2>4, <2>5
<1>4. PositionsCovered'
  <2>1. ASSUME NEW l, Covered(l) PROVE Covered(l)'
    <3> SUFFICES ASSUME NEW i \in DOMAIN feed, Change(i), feed[i].end <= l
                 PROVE  /\ staged[feed[i].key] >= i
                        /\ \A p \in Pending' : i < p
                        /\ i <= cursor \/ Skipped(feed[i])
      BY <1>b DEF Covered, Change, Reflected, Skipped
    <3>1. /\ Reflected(i) /\ \A p \in Pending : i < p
          /\ i <= cursor \/ Skipped(feed[i])
      BY <2>1 DEF Covered
    <3> QED BY <1>b, <1>2, <3>1, StagedReflects
  <2> QED BY <1>a, <1>b, <2>1, PositionsKept DEF PositionsCovered
<1>5. BatchOK'
  BY <1>a, <1>b DEF BatchOK
<1>6. DownOK'
  BY <1>b, Zenon DEF DownOK
<1> QED BY <1>1, <1>3, <1>4, <1>5, <1>6 DEF IInv

-----------------------------------------------------------------------------
(* Crash and restart.                                                      *)

\* With no message in memory, what is left of the invariant are the positions.
NothingInMemory ==
  /\ prevMessage = NoMessage /\ messageCH = << >> /\ messages = << >> /\ queue = << >>
  /\ producePC = "collect"

\* A process without memory satisfies what the invariant says of messages.
LEMMA EmptyMemory ==
  ASSUME NothingInMemory
  PROVE  /\ Pending = {} /\ StreamOK /\ MessagesOK /\ OnlyChangesQueued /\ OrderOK /\ BatchOK
<1> USE DEF NothingInMemory
<1>1. DOMAIN << >> = {} /\ Idx(<< >>) = {} /\ Sorted(<< >>) /\ Len(<< >>) = 0
  BY EmptySeq
<1>2. Idx(queue) = {} /\ Idx(messages) = {} /\ InStream = {} /\ StreamOK
  BY <1>1, EmptyStream
<1>3. Pending = {}
  BY <1>2 DEF Pending, BatchIdx
<1>4. MessagesOK /\ OnlyChangesQueued
  BY <1>1 DEF MessagesOK, OnlyChangesQueued
<1>5. OrderOK
  BY <1>1, <1>2 DEF OrderOK, Before
<1>6. BatchOK
  BY <1>1, ChunkSizeAssumption DEF BatchOK
<1> QED BY <1>2, <1>3, <1>4, <1>5, <1>6

\* The process dies: the uncommitted batch is gone, the covered positions stay.
LEMMA CrashInv ==
  ASSUME IInv, TypeOK', Crash
  PROVE  IInv'
<1>a. TypeOK /\ PositionsCovered /\ cursor \in Nat
  BY FeedType DEF IInv, TypeOK, StreamTypeOK
<1>b. /\ prevMessage' = NoMessage /\ messageCH' = << >> /\ messages' = << >> /\ queue' = << >>
      /\ producePC' = "collect" /\ lastXLogPos' = 0 /\ statusPos' = 0
      /\ UNCHANGED <<feed, cursor, startLsn, confirmed, target>>
  BY DEF Crash, StreamDown, ProduceDown
<1>c. ~ up'
  BY Zenon DEF Crash
<1>1. (/\ Pending = {} /\ StreamOK /\ MessagesOK /\ OnlyChangesQueued /\ OrderOK /\ BatchOK)'
  <2>1. NothingInMemory'
    BY <1>b DEF NothingInMemory
  <2> QED BY <2>1, EmptyMemory, PTL
<1>2. Complete'
  BY <1>c DEF Complete
<1>3. DownOK'
  BY <1>b DEF DownOK
<1>4. PositionsCovered'
  <2>1. \A l : Covered(l) => Covered(l)'
    BY <1>a, <1>b, <1>1, CoveredKept
  <2>2. Covered(0)
    BY <1>a, NoPositionCovered DEF TypeOK
  <2> QED BY <1>a, <1>b, <2>1, <2>2, PositionsKept DEF PositionsCovered
<1> QED BY <1>1, <1>2, <1>3, <1>4 DEF IInv

\* A new process starts from the confirmed position, below which nothing is lost.
LEMMA RestartInv ==
  ASSUME IInv, TypeOK', Restart
  PROVE  IInv'
<1>a. TypeOK /\ Covered(confirmed) /\ DownOK /\ ~ up
  BY DEF IInv, PositionsCovered, Restart
<1>b. /\ cursor' = 0 /\ startLsn' = confirmed /\ confirmed' = confirmed
      /\ UNCHANGED <<feed, sinkPC, statusPos, prevMessage, messageCH, lastXLogPos>>
      /\ UNCHANGED <<messages, queue, producePC, execPos, staged, target>>
  BY DEF Restart, Open, produceVars
<1>c. /\ prevMessage' = NoMessage /\ messageCH' = << >> /\ messages' = << >> /\ queue' = << >>
      /\ producePC' = "collect" /\ lastXLogPos' = 0 /\ statusPos' = 0
  BY <1>a, <1>b DEF DownOK
<1>d. up'
  BY Zenon DEF Restart
<1>1. (/\ Pending = {} /\ StreamOK /\ MessagesOK /\ OnlyChangesQueued /\ OrderOK /\ BatchOK)'
  <2>1. NothingInMemory'
    BY <1>c DEF NothingInMemory
  <2> QED BY <2>1, EmptyMemory, PTL
<1>2. Complete'
  <2>1. 1 .. cursor' = {}
    BY <1>b
  <2> QED BY <2>1 DEF Complete
<1>3. DownOK'
  BY <1>d, Zenon DEF DownOK
<1>4. Covered(0)'
  <2>1. StreamTypeOK'
    BY DEF TypeOK
  <2> QED BY <2>1, NoPositionCovered, PTL
<1>5. ASSUME NEW i \in DOMAIN feed, Change(i), feed[i].end <= confirmed
      PROVE  Reflected(i) /\ feed[i].end > 0
  BY <1>a, <1>5 DEF Covered, Change
<1>6. Covered(startLsn)' /\ Covered(confirmed)'
  BY <1>b, <1>1, <1>5 DEF Covered, Change, Reflected, Skipped
<1>7. PositionsCovered'
  BY <1>c, <1>4, <1>6 DEF PositionsCovered, Covered
<1> QED BY <1>1, <1>2, <1>3, <1>7 DEF IInv

\* The inductive invariant holds initially.
LEMMA InitInv == ASSUME Init PROVE IInv
<1>1. TypeOK
  BY TypeInit
<1>2. /\ prevMessage = NoMessage /\ messageCH = << >> /\ messages = << >> /\ queue = << >>
      /\ producePC = "collect" /\ lastXLogPos = 0 /\ statusPos = 0
      /\ startLsn = 0 /\ confirmed = 0 /\ cursor = 0
  BY DEF Init, StreamInit, ProduceInit
<1>3. StreamOK /\ MessagesOK /\ OnlyChangesQueued /\ OrderOK /\ BatchOK
  BY <1>2, EmptyMemory DEF NothingInMemory
<1>4. Covered(0)
  BY <1>1, NoPositionCovered DEF TypeOK
<1>5. PositionsCovered
  BY <1>2, <1>4 DEF PositionsCovered
<1>6. Complete
  <2>1. 1 .. cursor = {}
    BY <1>2
  <2> QED BY <2>1 DEF Complete
<1>7. DownOK
  BY <1>2 DEF DownOK
<1> QED BY <1>1, <1>3, <1>5, <1>6, <1>7 DEF IInv

-----------------------------------------------------------------------------
(* The theorems.                                                           *)

\* Every step of Pipeline preserves the inductive invariant.
LEMMA NextInv == ASSUME IInv, [Next]_vars PROVE IInv'
<1>a. TypeOK'
  BY TypeNext DEF IInv
<1>1. CASE SinkStep
  <2>a. up /\ UNCHANGED <<produceVars, up, crashes>>
    BY <1>1 DEF SinkStep
  <2>1. CASE SinkReceive
    BY <1>a, <2>a, <2>1, SinkReceiveInv
  <2>2. CASE SinkTimeout \/ SinkKeepalive \/ SinkSend
    BY <1>a, <2>a, <2>2, SinkStatusInv
  <2> QED BY <1>1, <2>1, <2>2 DEF SinkStep
<1>2. CASE ProcessStep
  BY <1>a, <1>2, ProcessStepInv
<1>3. CASE BatchStep
  <2>a. up /\ UNCHANGED <<streamVars, up, crashes>>
    BY <1>3 DEF BatchStep
  <2>1. CASE Collect
    BY <1>a, <2>a, <2>1, CollectInv
  <2>2. CASE TimerFlush
    BY <1>a, <2>a, <2>2, TimerFlushInv
  <2>3. CASE Exec
    BY <1>a, <2>a, <2>3, ExecInv
  <2>4. CASE CloseBatch
    BY <1>a, <2>a, <2>4, CloseBatchInv
  <2> QED BY <1>3, <2>1, <2>2, <2>3, <2>4 DEF BatchStep
<1>4. CASE AckStep
  BY <1>a, <1>4, AckStepInv
<1>5. CASE Crash
  BY <1>a, <1>5, CrashInv
<1>6. CASE Restart
  BY <1>a, <1>6, RestartInv
<1>7. CASE UNCHANGED vars
  <2>1. /\ UNCHANGED <<feed, cursor, startLsn, prevMessage, messageCH, lastXLogPos, statusPos>>
        /\ UNCHANGED <<messages, queue, producePC, execPos, staged, target, up, confirmed>>
    BY <1>7 DEF vars, streamVars, produceVars
  <2>2. /\ StreamOK' /\ MessagesOK' /\ OnlyChangesQueued' /\ OrderOK'
        /\ Idx(queue)' = Idx(queue) /\ Idx(messages)' = Idx(messages) /\ InStream' = InStream
    BY <2>1, MessagesKept DEF IInv
  <2>3. Pending' = Pending
    BY <2>1, <2>2 DEF Pending, BatchIdx
  <2>4. Complete' /\ PositionsCovered' /\ BatchOK' /\ DownOK'
    BY <2>1, <2>3
       DEF IInv, Complete, PositionsCovered, Covered, BatchOK, DownOK, Change, Skipped,
           Reflected, NoMessage
  <2> QED BY <1>a, <2>2, <2>4 DEF IInv
<1> QED BY <1>1, <1>2, <1>3, <1>4, <1>5, <1>6, <1>7 DEF Next

\* The inductive invariant holds in every reachable state.
THEOREM Invariance == Spec => []IInv
<1>1. Init => IInv
  BY InitInv
<1>2. IInv /\ [Next]_vars => IInv'
  BY NextInv
<1> QED BY <1>1, <1>2, PTL DEF Spec

\* Every variable keeps its type; channels and batches stay within their capacity.
THEOREM TypeCorrect == Spec => []TypeOK
<1>1. IInv => TypeOK
  BY DEF IInv
<1> QED BY <1>1, Invariance, PTL

\* The slot's confirmed position never passes a change that the target lacks,
\* whatever the interleaving of sink, process and Produce and wherever crashes
\* fall (stream.go sink and Ack, main.go flushBatchGeneric).
THEOREM NoChangeLost == Spec => []ConfirmedReflected
<1>1. IInv => ConfirmedReflected
  BY DEF IInv, PositionsCovered, Covered, ConfirmedReflected
<1> QED BY <1>1, Invariance, PTL

\* Changes reach the target in commit order.
THEOREM CommitOrderKept == Spec => InOrderApply
<1> DEFINE InOrder == \A k \in Keys :
                        target'[k] # target[k] =>
                          \A i \in DOMAIN feed :
                            Change(i) /\ i < target'[k] => target'[feed[i].key] >= i
<1>1. IInv /\ [Next]_vars => [InOrder]_vars
  <2> SUFFICES ASSUME IInv, Next, NEW k \in Keys, target'[k] # target[k],
                      NEW i \in DOMAIN feed, Change(i), i < target'[k]
               PROVE  target'[feed[i].key] >= i
    OBVIOUS
  <2>a. TypeOK /\ MessagesOK /\ OrderOK /\ Complete /\ PositionsCovered /\ BatchOK
    BY DEF IInv
  <2>1. BatchStep /\ CloseBatch
    BY DEF Next, SinkStep, ProcessStep, BatchStep, AckStep, Crash, Restart, Collect,
           TimerFlush, Exec, AckUpdate, AckSend, ProduceDown, produceVars, Listen
  <2>2. /\ producePC = "exec" /\ execPos > Len(queue) /\ target' = staged /\ up
        /\ queue \in Seq(Message) /\ execPos \in Nat
    BY <2>a, <2>1 DEF BatchStep, CloseBatch, TypeOK, ProduceTypeOK
  <2>3. PICK n \in DOMAIN queue : staged[k] = queue[n].idx
    BY <2>a, <2>2 DEF BatchOK
  <2>4. /\ queue[n].idx \in Idx(queue) /\ Received(queue[n]) /\ i < queue[n].idx
        /\ queue[n].idx \in Nat /\ cursor \in Nat
    <3>1. Received(queue[n]) /\ queue[n].idx \in Idx(queue)
      BY <2>a DEF Idx, MessagesOK, MessageOK
    <3>2. queue[n].idx \in Nat
      BY <2>2, MessageType
    <3>3. i < queue[n].idx
      BY <2>2, <2>3
    <3>4. cursor \in Nat
      BY <2>a, FeedType DEF TypeOK, StreamTypeOK
    <3> QED BY <3>1, <3>2, <3>3, <3>4
  <2>5. i \in 1 .. cursor /\ i \in Nat /\ feed[i].end \in Nat
    <3>1. i \in Nat /\ i > 0 /\ feed[i].end \in Nat
      BY <2>a, FeedElement DEF TypeOK
    <3>2. queue[n].idx <= cursor
      BY <2>4 DEF Received
    <3> QED BY <2>4, <3>1, <3>2
  <2>6. i \in Idx(queue) \/ (Reflected(i) /\ \A p \in Pending : i < p)
    <3>1. CASE Skipped(feed[i])
      BY <2>a, <3>1 DEF PositionsCovered, Covered, Skipped
    <3>2. CASE ~ Skipped(feed[i])
      <4>1. i \in Pending \/ (Reflected(i) /\ \A p \in Pending : i < p)
        BY <2>a, <2>2, <2>5, <3>2 DEF Complete
      <4>2. i \in Pending => i \in Idx(queue)
        <5>1. Pending = Idx(queue) \cup Idx(messages) \cup InStream
          BY <2>2 DEF Pending, BatchIdx
        <5>2. \A p \in Idx(messages) \cup InStream : queue[n].idx < p
          BY <2>a, <2>4 DEF OrderOK, Before
        <5> QED BY <2>4, <2>5, <5>1, <5>2
      <4> QED BY <4>1, <4>2
    <3> QED BY <3>1, <3>2
  <2>7. staged[feed[i].key] >= i
    BY <2>2, <2>6, StagedReflects
  <2> QED BY <2>2, <2>7
<1>2. Spec => [][Next]_vars
  BY PTL DEF Spec
<1>3. [][InOrder]_vars => InOrderApply
  BY DEF InOrderApply
<1> QED BY <1>1, <1>2, <1>3, Invariance, PTL

-----------------------------------------------------------------------------
(* What is done.                                                           *)

\* The changes of the abstract log are those of the feed.
LEMMA ChangesMap == R!Changes = {i \in DOMAIN feed : Change(i)}
BY DEF R!Changes, RelevantChange, Change

\* While the process runs, a change is done when the session left it out or when
\* it was received and is no longer pending.
LEMMA DoneUp ==
  ASSUME IInv, up, NEW i \in DOMAIN feed, Change(i)
  PROVE  i \in Done <=> Skipped(feed[i]) \/ (i <= cursor /\ i \notin Pending)
<1>1. TypeOK /\ Complete
  BY DEF IInv
<1>2. i \in Nat /\ i > 0 /\ cursor \in Nat
  BY <1>1, FeedElement, FeedType DEF TypeOK, StreamTypeOK
<1>3. ASSUME i \in Pending, \A p \in Pending : i < p
      PROVE  FALSE
  BY <1>2, <1>3
<1>4. ASSUME i <= cursor, i \notin Pending, ~ Skipped(feed[i])
      PROVE  \A p \in Pending : i < p
  BY <1>1, <1>2, <1>4 DEF Complete
<1> QED BY <1>3, <1>4 DEF Done

\* The same of the state after a step.
LEMMA DoneUpNext ==
  ASSUME IInv, IInv', up', feed' = feed, cursor' \in Nat,
         NEW i \in DOMAIN feed, Change(i)
  PROVE  i \in Done' <=> Skipped(feed[i])' \/ (i <= cursor' /\ i \notin Pending')
<1>1. i \in Nat /\ i > 0 /\ i \in DOMAIN feed' /\ Change(i)'
  BY FeedElement DEF IInv, TypeOK, Change
<1>2. ASSUME i <= cursor', i \notin Pending', ~ Skipped(feed[i])'
      PROVE  \A p \in Pending' : i < p
  <2>1. Complete' /\ i \in 1 .. cursor'
    BY <1>1, <1>2 DEF IInv
  <2> QED BY <1>1, <1>2, <2>1 DEF Complete
<1>3. ASSUME i \in Pending', \A p \in Pending' : i < p
      PROVE  FALSE
  BY <1>1, <1>3
<1> QED BY <1>1, <1>2, <1>3 DEF Done

\* A step of the running process leaves what is done alone when the received
\* changes that are pending stay so, no other becomes pending, and what is
\* received in the step is pending after it.
LEMMA DoneKept ==
  ASSUME IInv, IInv', up, up', feed' = feed, startLsn' = startLsn,
         cursor' \in Nat, cursor <= cursor',
         \A i \in DOMAIN feed : Change(i) /\ i <= cursor => (i \in Pending' <=> i \in Pending),
         \A i \in DOMAIN feed : Change(i) /\ i > cursor /\ i <= cursor' =>
                                  i \in Pending' \/ Skipped(feed[i])
  PROVE  Done' = Done
<1>1. cursor \in Nat /\ \A i \in DOMAIN feed : i \in Nat
  BY FeedType, FeedElement DEF IInv, TypeOK, StreamTypeOK
<1>2. ASSUME NEW i \in DOMAIN feed, Change(i)
      PROVE  i \in Done' <=> i \in Done
  <2>1. i \in Done <=> Skipped(feed[i]) \/ (i <= cursor /\ i \notin Pending)
    BY <1>2, DoneUp
  <2>3. i \in Done' <=> Skipped(feed[i])' \/ (i <= cursor' /\ i \notin Pending')
    BY <1>2, DoneUpNext
  <2>4. Skipped(feed[i])' <=> Skipped(feed[i])
    BY DEF Skipped
  <2> QED BY <1>1, <1>2, <2>1, <2>3, <2>4
<1>3. \A i \in Done : i \in DOMAIN feed /\ Change(i)
  BY DEF Done
<1>4. \A i \in Done' : i \in DOMAIN feed /\ Change(i)
  BY DEF Done, Change
<1> QED BY <1>2, <1>3, <1>4

-----------------------------------------------------------------------------
(* The open transaction.                                                   *)

\* In every reachable state the open transaction shows, per row, the last query
\* executed about it (flushBatchGeneric).
LEMMA StagedNext ==
  ASSUME IInv, StagedLast, [Next]_vars
  PROVE  StagedLast'
<1>a. TypeOK /\ MessagesOK /\ OnlyChangesQueued
  BY DEF IInv
<1>1. CASE BatchStep
  <2>a. feed' = feed
    BY <1>1 DEF BatchStep, streamVars
  <2>1. CASE Collect \/ TimerFlush
    <3>1. producePC' = "exec" => execPos' = 1 /\ staged' = target'
      BY <2>1 DEF Collect, TimerFlush, BeginFlush
    <3>2. execPos' = 1 => 1 .. (execPos' - 1) = {}
      OBVIOUS
    <3> QED BY <3>1, <3>2 DEF StagedLast
  <2>2. CASE Exec
    <3> DEFINE q == queue[execPos].idx
               k == feed[q].key
    <3>1. /\ UNCHANGED <<queue, target>> /\ producePC = "exec" /\ producePC' = "exec"
          /\ execPos' = execPos + 1 /\ execPos <= Len(queue)
          /\ staged' = IF k \in SkipKeys THEN staged ELSE [staged EXCEPT ![k] = q]
      BY <2>2 DEF Exec
    <3>2. /\ execPos \in Nat /\ execPos > 0 /\ staged \in [Keys -> Nat]
          /\ 1 .. (execPos' - 1) = (1 .. (execPos - 1)) \cup {execPos}
          /\ execPos \notin 1 .. (execPos - 1)
          /\ \A n \in 1 .. (execPos - 1) : n <= execPos
      BY <1>a, <3>1 DEF TypeOK, ProduceTypeOK
    <3> SUFFICES ASSUME NEW x \in Keys
                 PROVE  \/ /\ staged'[x] = target[x]
                           /\ \A n \in 1 .. (execPos' - 1) :
                                feed[queue[n].idx].key = x => x \in SkipKeys
                        \/ \E m \in 1 .. (execPos' - 1) :
                             /\ feed[queue[m].idx].key = x /\ x \notin SkipKeys
                             /\ staged'[x] = queue[m].idx
                             /\ \A n \in 1 .. (execPos' - 1) :
                                  feed[queue[n].idx].key = x => n <= m
      BY <2>a, <3>1 DEF StagedLast
    <3>3. CASE x = k /\ k \notin SkipKeys
      <4>1. staged'[x] = q
        BY <3>1, <3>2, <3>3
      <4>2. execPos \in 1 .. (execPos' - 1) /\ feed[queue[execPos].idx].key = x
        BY <3>2, <3>3
      <4>3. \A n \in 1 .. (execPos' - 1) : n <= execPos
        BY <3>2
      <4> QED BY <3>3, <4>1, <4>2, <4>3
    <3>4. CASE ~ (x = k /\ k \notin SkipKeys)
      <4>1. staged'[x] = staged[x]
        BY <3>1, <3>2, <3>4
      <4>2. feed[queue[execPos].idx].key = x => x \in SkipKeys
        BY <3>4
      <4>3. CASE /\ staged[x] = target[x]
                 /\ \A n \in 1 .. (execPos - 1) : feed[queue[n].idx].key = x => x \in SkipKeys
        BY <3>2, <4>1, <4>2, <4>3
      <4>4. CASE \E m \in 1 .. (execPos - 1) :
                   /\ feed[queue[m].idx].key = x /\ x \notin SkipKeys
                   /\ staged[x] = queue[m].idx
                   /\ \A n \in 1 .. (execPos - 1) : feed[queue[n].idx].key = x => n <= m
        BY <3>2, <4>1, <4>2, <4>4
      <4> QED BY <3>1, <4>3, <4>4 DEF StagedLast
    <3> QED BY <3>3, <3>4
  <2>3. CASE CloseBatch
    BY <2>3 DEF CloseBatch, StagedLast
  <2> QED BY <1>1, <2>1, <2>2, <2>3 DEF BatchStep
<1>2. CASE AckStep \/ Crash
  BY <1>2 DEF AckStep, AckUpdate, AckSend, Crash, ProduceDown, StagedLast
<1>3. CASE SinkStep \/ ProcessStep \/ Restart \/ UNCHANGED vars
  <2>1. UNCHANGED <<feed, queue, producePC, execPos, staged, target>>
    BY <1>3 DEF SinkStep, SinkReceive, SinkBegin, SinkCommit, SinkChange, SinkIgnore, Receive,
       SinkTimeout, SinkKeepalive, SinkSend, ProcessStep, Listen, Restart, Open, vars,
       streamVars, produceVars
  <2> QED BY <2>1 DEF StagedLast
<1> QED BY <1>1, <1>2, <1>3 DEF Next

-----------------------------------------------------------------------------
(* Steps that Replication does not see.                                    *)

\* What a step leaves alone of the abstract state.
Quiet == UNCHANGED <<feed, Done, target, confirmed>>

\* A message received by the sink is pending, or no change.
LEMMA ReceiveQuiet ==
  ASSUME IInv, IInv', up, SinkReceive, UNCHANGED <<produceVars, up, crashes>>
  PROVE  Quiet
<1>a. UNCHANGED <<messages, queue, producePC, target>> /\ up'
  BY DEF produceVars
<1>b. /\ feed' = feed /\ startLsn' = startLsn /\ confirmed' = confirmed
      /\ cursor \in Nat /\ cursor' \in Nat /\ cursor < cursor'
      /\ InStream \subseteq InStream'
      /\ \A p \in InStream' : p \in InStream \/ (p \in DOMAIN feed /\ p > cursor)
      /\ \A j \in DOMAIN feed : feed[j].tag = "dml" /\ j > cursor /\ j <= cursor' =>
           j \in InStream' \/ Skipped(feed[j])
  BY ReceiveInv DEF IInv, TypeOK
<1>1. BatchIdx' = BatchIdx /\ Idx(messages)' = Idx(messages)
  BY <1>a DEF BatchIdx, Idx
<1>2. \A j \in DOMAIN feed : j \in Nat
  BY FeedElement DEF IInv, TypeOK
<1>3. /\ \A j \in DOMAIN feed : j <= cursor => (j \in Pending' <=> j \in Pending)
      /\ \A j \in DOMAIN feed : Change(j) /\ j > cursor /\ j <= cursor' =>
           j \in Pending' \/ Skipped(feed[j])
  BY <1>b, <1>1, <1>2 DEF Pending, Change
<1>4. Done' = Done
  BY <1>a, <1>b, <1>3, DoneKept
<1> QED BY <1>a, <1>b, <1>4 DEF Quiet

\* A step that moves no message.
LEMMA StillPending ==
  ASSUME IInv, IInv', up, up', UNCHANGED <<feed, startLsn, cursor>>,
         \A i \in DOMAIN feed : Change(i) => (i \in Pending' <=> i \in Pending)
  PROVE  Done' = Done
<1>1. cursor \in Nat /\ \A i \in DOMAIN feed : i \in Nat
  BY FeedType, FeedElement DEF IInv, TypeOK, StreamTypeOK
<1>2. cursor' \in Nat /\ cursor <= cursor'
  BY <1>1
<1>3. \A i \in DOMAIN feed : ~ (i > cursor /\ i <= cursor')
  BY <1>1
<1> QED BY <1>2, <1>3, DoneKept

\* The listener passes a change on and drops a Relation.
LEMMA ListenQuiet ==
  ASSUME IInv, IInv', ProcessStep
  PROVE  Quiet
<1> DEFINE m == Head(messageCH)
<1>1. /\ UNCHANGED <<feed, cursor, startLsn, prevMessage, confirmed, up>>
      /\ UNCHANGED <<queue, producePC, target>> /\ up
      /\ messageCH # << >> /\ messageCH' = Tail(messageCH)
      /\ \/ feed[m.idx].tag = "dml" /\ messages' = Append(messages, m)
         \/ feed[m.idx].tag # "dml" /\ messages' = messages
  BY DEF ProcessStep, Listen
<1>2. messages \in Seq(Message)
  BY DEF IInv, TypeOK, ProduceTypeOK
<1>3. InStream = InStream' \cup {m.idx} /\ m \in Message
  BY <1>1, TakeInv DEF IInv, TypeOK
<1>4. BatchIdx' = BatchIdx
  BY <1>1 DEF BatchIdx, Idx
<1>5. ASSUME NEW i \in DOMAIN feed, Change(i)
      PROVE  i \in Pending' <=> i \in Pending
  <2>1. CASE messages' = Append(messages, m)
    <3>1. Idx(messages)' = Idx(messages) \cup {m.idx}
      BY <1>2, <1>3, <2>1, IdxAppend DEF Idx
    <3> QED BY <1>3, <1>4, <3>1 DEF Pending
  <2>2. CASE feed[m.idx].tag # "dml" /\ messages' = messages
    <3>1. i # m.idx
      BY <1>5, <2>2 DEF Change
    <3>2. Idx(messages)' = Idx(messages)
      BY <2>2 DEF Idx
    <3> QED BY <1>3, <1>4, <3>1, <3>2 DEF Pending
  <2> QED BY <1>1, <2>1, <2>2
<1>6. up'
  BY <1>1
<1> QED BY <1>1, <1>5, <1>6, StillPending DEF Quiet

\* Produce collects events and executes queries.
LEMMA BatchQuiet ==
  ASSUME IInv, IInv', up, Collect \/ TimerFlush \/ Exec,
         UNCHANGED <<streamVars, up, crashes>>
  PROVE  Quiet
<1>1. UNCHANGED <<feed, cursor, startLsn, prevMessage, messageCH, confirmed, up, target>>
  BY DEF streamVars, Collect, TimerFlush, Exec
<1>2. producePC \notin {"ack", "send"} /\ producePC' \notin {"ack", "send"}
  BY DEF Collect, TimerFlush, Exec, BeginFlush
<1>3. Idx(queue)' \cup Idx(messages)' = Idx(queue) \cup Idx(messages)
  <2>1. CASE Collect
    <3>1. /\ messages # << >> /\ messages' = Tail(messages)
          /\ queue' = Append(queue, Head(messages))
          /\ messages \in Seq(Message) /\ queue \in Seq(Message)
      BY <2>1 DEF Collect, IInv, TypeOK, ProduceTypeOK
    <3>2. Idx(messages) = Idx(messages)' \cup {Head(messages).idx} /\ Head(messages) \in Message
      BY <3>1, IdxTail DEF Idx
    <3>3. Idx(Append(queue, Head(messages))) = Idx(queue) \cup {Head(messages).idx}
      BY <3>1, <3>2, IdxAppend
    <3>4. Idx(queue)' = Idx(Append(queue, Head(messages)))
      BY <3>1 DEF Idx
    <3> QED BY <3>2, <3>3, <3>4
  <2>2. CASE TimerFlush \/ Exec
    BY <2>2 DEF TimerFlush, Exec, Idx
  <2> QED BY <2>1, <2>2
<1>4. Pending' = Pending
  BY <1>1, <1>2, <1>3 DEF Pending, BatchIdx, InStream, PrevIdx, Idx
<1> QED BY <1>1, <1>4, StillPending DEF Quiet

-----------------------------------------------------------------------------
(* Steps that Replication sees.                                            *)

\* What the slot is told is done.
LEMMA CoveredDone ==
  ASSUME IInv, up, NEW l \in Nat, Covered(l)
  PROVE  R!UpTo(l) \subseteq Done
BY ChangesMap DEF R!UpTo, Covered, Done

\* Status updates, of the sink or of an Ack.
LEMMA StatusConfirms ==
  ASSUME IInv, IInv', up,
         \/ /\ SinkTimeout \/ SinkKeepalive \/ SinkSend
            /\ UNCHANGED <<produceVars, up, crashes>>
         \/ AckStep
  PROVE  Quiet \/ R!Confirm
<1>1. UNCHANGED <<feed, cursor, startLsn, prevMessage, messageCH, messages, target, up>>
  BY DEF SinkTimeout, SinkKeepalive, SinkSend, AckStep, AckUpdate, AckSend, produceVars
<1>2. BatchIdx' = BatchIdx
  BY EmptySeq DEF SinkTimeout, SinkKeepalive, SinkSend, AckStep, AckUpdate, AckSend,
     produceVars, BatchIdx, Idx
<1>3. Pending' = Pending
  BY <1>1, <1>2 DEF Pending, InStream, PrevIdx, Idx
<1>4. Done' = Done
  BY <1>1, <1>3, StillPending
<1>5. /\ confirmed' = confirmed \/ confirmed' = Confirm(statusPos)
                                \/ confirmed' = Confirm(lastXLogPos)
      /\ confirmed \in Nat /\ statusPos \in Nat /\ lastXLogPos \in Nat
  BY DEF SinkTimeout, SinkKeepalive, SinkSend, AckStep, AckUpdate, AckSend, IInv, TypeOK,
     StreamTypeOK
<1>6. confirmed' \in Nat /\ Covered(confirmed')
  BY <1>5 DEF Confirm, IInv, PositionsCovered
<1>7. R!UpTo(confirmed') \subseteq Done
  BY <1>6, CoveredDone
<1> QED BY <1>1, <1>4, <1>6, <1>7 DEF R!Confirm

\* Crash and restart: delivery begins again at the confirmed position.
LEMMA CrashRestarts ==
  ASSUME IInv, IInv', Crash \/ Restart
  PROVE  Quiet \/ R!Restart
<1>1. CASE Crash
  <2>1. UNCHANGED <<feed, target, confirmed>> /\ ~ up'
    BY <1>1 DEF Crash, StreamDown, ProduceDown
  <2>2. Done' = R!UpTo(confirmed)
    BY <2>1, ChangesMap DEF R!UpTo, Done, Change
  <2> QED BY <2>1, <2>2 DEF R!Restart
<1>2. CASE Restart
  <2>1. /\ UNCHANGED <<feed, target, confirmed, prevMessage, messageCH, messages, queue,
                       producePC>>
        /\ ~ up /\ up' /\ cursor' = 0 /\ startLsn' = confirmed
    BY <1>2 DEF Restart, Open, produceVars
  <2>2. \A i \in DOMAIN feed : i \in Nat /\ i > 0 /\ feed[i].end \in Nat /\ feed[i].end > 0
    BY FeedElement, FeedType DEF IInv, TypeOK, CommitOrdered
  <2>3. Done' = Done
    BY <2>1, <2>2 DEF Done, Change, Skipped
  <2> QED BY <2>1, <2>3 DEF Quiet
<1> QED BY <1>1, <1>2

\* The commit of a batch delivers everything up to its last change.
LEMMA CloseDelivers ==
  ASSUME IInv, IInv', StagedLast, up, CloseBatch, UNCHANGED <<streamVars, up, crashes>>
  PROVE  \E j \in DOMAIN feed : R!Deliver(j)
<1> DEFINE n == Len(queue)
           j == queue[n].idx
           batch == {i \in R!Changes \ Done : i <= j}
<1>a. TypeOK /\ MessagesOK /\ OnlyChangesQueued /\ OrderOK /\ Complete /\ BatchOK
  BY DEF IInv
<1>b. /\ producePC = "exec" /\ execPos > Len(queue) /\ target' = staged
      /\ producePC' = "ack" /\ queue' = queue /\ messages' = messages
      /\ UNCHANGED <<feed, cursor, startLsn, prevMessage, messageCH, confirmed, up>>
  BY DEF CloseBatch, streamVars
<1>c. /\ queue \in Seq(Message) /\ queue # << >> /\ n \in DOMAIN queue /\ n \in Nat
      /\ DOMAIN queue = 1 .. n /\ execPos \in Nat /\ staged \in [Keys -> Nat]
      /\ target \in [Keys -> Nat] /\ cursor \in Nat
  BY <1>a, <1>b, FeedType DEF TypeOK, StreamTypeOK, ProduceTypeOK, BatchOK
<1>d. 1 .. (execPos - 1) = DOMAIN queue
  BY <1>a, <1>b, <1>c DEF BatchOK
<1>1. \A m \in DOMAIN queue :
        /\ queue[m].idx \in DOMAIN feed /\ queue[m].idx \in Nat /\ queue[m].idx <= cursor
        /\ feed[queue[m].idx].tag = "dml" /\ ~ Skipped(feed[queue[m].idx])
  <2> TAKE m \in DOMAIN queue
  <2>1. Received(queue[m]) /\ feed[queue[m].idx].tag = "dml" /\ queue[m] \in Message
    BY <1>a, <1>c DEF MessagesOK, MessageOK, OnlyChangesQueued
  <2> QED BY <1>a, <1>c, <2>1, MessageType, FeedType DEF Received, TypeOK, StreamTypeOK
<1>2. \A m \in DOMAIN queue : queue[m].idx <= j
  <2> TAKE m \in DOMAIN queue
  <2>1. m = n \/ m < n
    BY <1>c
  <2>2. m < n => queue[m].idx < queue[n].idx
    BY <1>a, <1>c DEF OrderOK, Sorted
  <2> QED BY <1>1, <1>c, <2>1, <2>2
<1>3. j \in DOMAIN feed /\ j \in Nat /\ j <= cursor /\ j \in Idx(queue)
  BY <1>1, <1>c DEF Idx
<1>4. /\ Pending = Idx(queue) \cup Idx(messages) \cup InStream
      /\ Pending' = Idx(messages) \cup InStream
  BY <1>b DEF Pending, BatchIdx, InStream, PrevIdx, Idx
<1>5. \A p \in Pending' : j < p
  BY <1>a, <1>3, <1>4 DEF OrderOK, Before
<1>6. \A i \in DOMAIN feed : i \in Nat /\ i > 0
  BY <1>a, FeedElement DEF TypeOK
<1> HIDE DEF n, j
<1>7. ASSUME NEW i \in DOMAIN feed, Change(i)
      PROVE  /\ i \in Done <=> Skipped(feed[i]) \/ (i <= cursor /\ i \notin Pending)
             /\ i \in Done' <=> Skipped(feed[i]) \/ (i <= cursor /\ i \notin Pending')
  <2>1. cursor' \in Nat /\ feed' = feed /\ up'
    BY <1>b, <1>c
  <2>2. i \in Done' <=> Skipped(feed[i])' \/ (i <= cursor' /\ i \notin Pending')
    BY <1>7, <2>1, DoneUpNext
  <2> QED BY <1>7, <1>b, <2>2, DoneUp DEF Skipped
<1>8. \A i \in DOMAIN feed : Change(i) => (i \in batch <=> i \in Idx(queue))
  <2> SUFFICES ASSUME NEW i \in DOMAIN feed, Change(i)
               PROVE  i \in batch <=> i \in Idx(queue)
    OBVIOUS
  <2>1. i \in batch <=> i \notin Done /\ i <= j
    BY ChangesMap
  <2>2. i \in Idx(queue) => i \notin Done /\ i <= j
    BY <1>1, <1>2, <1>4, <1>7 DEF Idx
  <2>3. i \notin Done /\ i <= j => i \in Idx(queue)
    <3> SUFFICES ASSUME i \notin Done, i <= j PROVE i \in Idx(queue)
      OBVIOUS
    <3>1. i <= cursor
      BY <1>3, <1>6, <1>c
    <3>2. i \in Pending
      BY <1>7, <3>1
    <3>3. i \notin Pending'
      BY <1>3, <1>5, <1>6
    <3> QED BY <1>4, <3>2, <3>3
  <2> QED BY <2>1, <2>2, <2>3
<1>9. \A i \in batch : i \in DOMAIN feed /\ Change(i)
  BY ChangesMap
<1>10. Done' = Done \cup batch
  <2>1. ASSUME NEW i \in DOMAIN feed, Change(i)
        PROVE  i \in Done' <=> i \in Done \/ i \in Idx(queue)
    <3>1. i \in Idx(queue) => i <= cursor /\ i \notin Pending'
      BY <1>1, <1>2, <1>3, <1>5, <1>6 DEF Idx
    <3> QED BY <1>4, <1>7, <2>1, <3>1
  <2>2. \A i \in Done : i \in DOMAIN feed /\ Change(i)
    BY DEF Done
  <2>3. \A i \in Done' : i \in DOMAIN feed /\ Change(i)
    BY <1>b DEF Done, Change
  <2> QED BY <1>8, <1>9, <2>1, <2>2, <2>3
<1> HIDE DEF batch
<1>11. R!Write(batch)
  <2>1. target' = [k \in Keys |-> target'[k]]
    BY <1>b, <1>c
  <2>2. ASSUME NEW k \in Keys
        PROVE  \/ /\ \A i \in batch : feed[i].key # k
                  /\ target'[k] = target[k]
               \/ /\ target'[k] \in batch
                  /\ feed[target'[k]].key = k
                  /\ \A i \in batch : feed[i].key = k => i <= target'[k]
    <3>0. \A i \in batch : feed[i].key \notin SkipKeys /\ \E m \in DOMAIN queue : i = queue[m].idx
      BY <1>8, <1>9 DEF Change, Idx
    <3>1. CASE /\ staged[k] = target[k]
               /\ \A m \in DOMAIN queue : feed[queue[m].idx].key = k => k \in SkipKeys
      BY <1>b, <3>0, <3>1
    <3>2. CASE \E m \in DOMAIN queue :
                 /\ feed[queue[m].idx].key = k /\ k \notin SkipKeys
                 /\ staged[k] = queue[m].idx
                 /\ \A l \in DOMAIN queue : feed[queue[l].idx].key = k => l <= m
      <4>1. PICK m \in DOMAIN queue :
                 /\ feed[queue[m].idx].key = k /\ k \notin SkipKeys
                 /\ staged[k] = queue[m].idx
                 /\ \A l \in DOMAIN queue : feed[queue[l].idx].key = k => l <= m
        BY <3>2
      <4> DEFINE x == queue[m].idx
      <4>2. x \in DOMAIN feed /\ Change(x) /\ x \in Idx(queue)
        <5>1. feed[x].end > 0
          BY <1>1, <1>a, FeedType DEF CommitOrdered, TypeOK
        <5> QED BY <1>1, <4>1, <5>1 DEF Change, Idx
      <4>3. x \in batch
        BY <1>8, <4>2
      <4>4. ASSUME NEW i \in batch, feed[i].key = k
            PROVE  i <= x
        <5>1. PICK l \in DOMAIN queue : i = queue[l].idx
          BY <3>0
        <5>2. l <= m
          BY <4>1, <4>4, <5>1
        <5>3. l < m => queue[l].idx < queue[m].idx
          BY <1>a DEF OrderOK, Sorted
        <5> QED BY <1>1, <1>c, <5>1, <5>2, <5>3
      <4> QED BY <1>b, <4>1, <4>3, <4>4
    <3> QED BY <1>b, <1>d, <3>1, <3>2 DEF StagedLast
  <2> QED BY <2>1, <2>2 DEF R!Write
<1>12. R!Deliver(j)
  BY <1>b, <1>10, <1>11 DEF R!Deliver, batch
<1> QED BY <1>3, <1>12

-----------------------------------------------------------------------------
(* The refinement.                                                         *)

\* Every step of Pipeline is a step of Replication or leaves its state alone.
LEMMA StepImplements ==
  ASSUME IInv, IInv', StagedLast, [Next]_vars
  PROVE  [R!Next]_(R!vars)
<1>q. Quiet => UNCHANGED R!vars
  BY DEF Quiet, R!vars
<1>1. CASE SinkStep
  <2>1. CASE SinkReceive
    BY <1>1, <1>q, <2>1, ReceiveQuiet DEF SinkStep
  <2>2. CASE SinkTimeout \/ SinkKeepalive \/ SinkSend
    BY <1>1, <1>q, <2>2, StatusConfirms DEF SinkStep, R!Next
  <2> QED BY <1>1, <2>1, <2>2 DEF SinkStep
<1>2. CASE ProcessStep
  BY <1>2, <1>q, ListenQuiet
<1>3. CASE BatchStep
  <2>1. CASE Collect \/ TimerFlush \/ Exec
    BY <1>3, <1>q, <2>1, BatchQuiet DEF BatchStep
  <2>2. CASE CloseBatch
    BY <1>3, <2>2, CloseDelivers DEF BatchStep, R!Next
  <2> QED BY <1>3, <2>1, <2>2 DEF BatchStep
<1>4. CASE AckStep
  BY <1>4, <1>q, StatusConfirms DEF AckStep, R!Next
<1>5. CASE Crash \/ Restart
  BY <1>5, <1>q, CrashRestarts DEF R!Next
<1>6. CASE UNCHANGED vars
  <2>1. Quiet
    BY <1>6 DEF vars, streamVars, produceVars, Quiet, Done, Change, Skipped, Pending, BatchIdx,
       InStream, PrevIdx, Idx
  <2> QED BY <1>q, <2>1
<1> QED BY <1>1, <1>2, <1>3, <1>4, <1>5, <1>6 DEF Next

\* Nothing is done at the start.
LEMMA InitImplements == ASSUME Init PROVE R!Init /\ StagedLast
<1>1. IInv
  BY InitInv
<1>2. \A i \in DOMAIN feed : i \in Nat /\ i > 0 /\ feed[i].end \in Nat /\ feed[i].end > 0
  BY <1>1, FeedElement, FeedType DEF IInv, TypeOK, CommitOrdered
<1>3. Done = {}
  BY <1>2 DEF Init, StreamInit, Done, Skipped
<1> QED BY <1>3 DEF Init, StreamInit, ProduceInit, R!Init, StagedLast

\* The stream and its PostgreSQL sink implement ordered at-least-once delivery,
\* for every feed in commit order, whatever the interleaving and wherever the
\* process dies (stream.go, main.go Produce).
THEOREM PipelineImplementsReplication == Spec => OrderedAtLeastOnce
<1>1. Init => R!Init /\ StagedLast
  BY InitImplements
<1>2. IInv /\ StagedLast /\ [Next]_vars => StagedLast'
  BY StagedNext
<1>3. IInv /\ IInv' /\ StagedLast /\ [Next]_vars => [R!Next]_(R!vars)
  BY StepImplements
<1> QED BY <1>1, <1>2, <1>3, Invariance, PTL DEF Spec, OrderedAtLeastOnce, R!Spec

-----------------------------------------------------------------------------
(* What Replication promises.                                              *)

\* Positions follow the order of every feed.
LEMMA FeedsOrdered == \A l \in Feeds : R!LogOrdered(l)
<1> SUFFICES ASSUME NEW l \in Feeds PROVE R!LogOrdered(l)
  OBVIOUS
<1>1. l \in Seq(WalMessage) /\ DOMAIN l \subseteq Nat
  BY FeedsAssumption
<1>2. \A i \in DOMAIN l : l[i] \in WalMessage
  BY <1>1
<1>3. \A i \in DOMAIN l : l[i].end \in Nat
  BY <1>2 DEF WalMessage
<1>4. CommitOrdered(l)
  BY CommitOrderedAssumption
<1>5. \A i \in DOMAIN l : RelevantChange(l[i]) => l[i].key \in Keys
  BY FeedKeyAssumption DEF RelevantChange
<1> QED BY <1>1, <1>3, <1>4, <1>5 DEF R!LogOrdered, RelevantChange, CommitOrdered

\* What is delivered has no gap, is in the target, and includes all that is
\* confirmed.
RInv ==
  /\ feed \in Feeds
  /\ DOMAIN target = Keys
  /\ confirmed \in Nat
  /\ Done \subseteq R!Changes
  /\ \A i \in Done, j \in R!Changes : j < i => j \in Done
  /\ \A i \in Done : target[feed[i].key] >= i
  /\ R!UpTo(confirmed) \subseteq Done

\* A step of delivery keeps the delivered changes in the target.
LEMMA DeliverKeeps ==
  ASSUME RInv, NEW j \in DOMAIN feed, R!Deliver(j)
  PROVE  RInv'
<1> DEFINE batch == {i \in R!Changes \ Done : i <= j}
<1>1. /\ R!Write(batch) /\ Done' = Done \cup batch
      /\ UNCHANGED <<feed, confirmed>>
  BY DEF R!Deliver
<1>2. R!LogOrdered(feed) /\ DOMAIN feed \subseteq Nat /\ j \in Nat
  BY FeedsOrdered DEF RInv, R!LogOrdered
<1>3. \A i \in R!Changes : i \in Nat /\ feed[i].key \in Keys
  BY <1>2 DEF R!LogOrdered, R!Changes
<1>4. R!Changes' = R!Changes /\ R!UpTo(confirmed)' = R!UpTo(confirmed)
  BY <1>1 DEF R!Changes, R!UpTo
<1>5. \A i \in Done', m \in R!Changes : m < i => m \in Done'
  <2> SUFFICES ASSUME NEW i \in Done', NEW m \in R!Changes, m < i
               PROVE  m \in Done'
    OBVIOUS
  <2>1. CASE i \in Done
    BY <1>1, <2>1 DEF RInv
  <2>2. CASE i \in batch
    <3>1. m <= j
      BY <1>2, <1>3, <2>2
    <3> QED BY <1>1, <3>1
  <2> QED BY <1>1, <2>1, <2>2
<1>6. ASSUME NEW i \in Done'
      PROVE  target'[feed[i].key] >= i
  <2> DEFINE k == feed[i].key
  <2>1. k \in Keys /\ i \in R!Changes /\ i \in Nat
    BY <1>1, <1>3, <1>6 DEF RInv
  <2>2. CASE target'[k] = target[k] /\ \A m \in batch : feed[m].key # k
    <3>1. i \in Done
      BY <1>1, <1>6, <2>2
    <3> QED BY <2>2, <3>1 DEF RInv
  <2>3. CASE target'[k] \in batch /\ \A m \in batch : feed[m].key = k => m <= target'[k]
    <3>1. CASE i \in batch
      BY <1>3, <2>1, <2>3, <3>1
    <3>2. CASE i \in Done
      <4>1. ~ (target'[k] < i)
        BY <2>3, <3>2 DEF RInv
      <4>2. target'[k] \in Nat
        BY <1>3, <2>3
      <4> QED BY <2>1, <4>1, <4>2
    <3> QED BY <1>1, <1>6, <3>1, <3>2
  <2> QED BY <1>1, <2>1, <2>2, <2>3 DEF R!Write
<1>7. DOMAIN target' = Keys
  BY <1>1 DEF R!Write
<1> HIDE DEF batch
<1>8. Done' \subseteq R!Changes'
  BY <1>1, <1>4 DEF RInv, batch
<1> QED BY <1>1, <1>4, <1>5, <1>6, <1>7, <1>8 DEF RInv

\* What the abstract specification is worth, whatever implements it: confirmed
\* changes are never missing from the target, although rows may go back to older
\* changes when delivery begins again (the promise of an Ack after the commit of the
\* batch, main.go flushBatchGeneric).
THEOREM ReplicationConfirms == R!Spec => []R!ConfirmedWritten
<1>1. R!Init => RInv
  <2> SUFFICES ASSUME R!Init PROVE RInv
    OBVIOUS
  <2>1. R!LogOrdered(feed) /\ confirmed = 0 /\ Done = {}
    BY FeedsOrdered DEF R!Init
  <2>2. R!UpTo(confirmed) = {}
    BY <2>1 DEF R!UpTo, R!Changes, R!LogOrdered
  <2> QED BY <2>1, <2>2 DEF R!Init, RInv
<1>2. RInv /\ [R!Next]_(R!vars) => RInv'
  <2> SUFFICES ASSUME RInv, [R!Next]_(R!vars) PROVE RInv'
    OBVIOUS
  <2>1. CASE \E j \in DOMAIN feed : R!Deliver(j)
    BY <2>1, DeliverKeeps
  <2>2. CASE R!Confirm
    BY <2>2 DEF R!Confirm, RInv, R!Changes, R!UpTo
  <2>3. CASE R!Restart
    <3>1. UNCHANGED <<feed, target, confirmed>> /\ Done' = R!UpTo(confirmed)
      BY <2>3 DEF R!Restart
    <3>2. R!LogOrdered(feed) /\ confirmed \in Nat
      BY FeedsOrdered DEF RInv
    <3>3. \A i \in Done', j \in R!Changes : j < i => j \in Done'
      <4> SUFFICES ASSUME NEW i \in Done', NEW j \in R!Changes, j < i
                   PROVE  j \in Done'
        OBVIOUS
      <4>1. feed[j].end <= feed[i].end /\ feed[i].end <= confirmed
        BY <3>1, <3>2 DEF R!UpTo, R!Changes, R!LogOrdered
      <4>2. feed[j].end \in Nat /\ feed[i].end \in Nat
        BY <3>1, <3>2 DEF R!UpTo, R!Changes, R!LogOrdered
      <4> QED BY <3>1, <3>2, <4>1, <4>2 DEF R!UpTo
    <3>4. R!Changes' = R!Changes /\ R!UpTo(confirmed)' = R!UpTo(confirmed)
      BY <3>1 DEF R!Changes, R!UpTo
    <3> QED BY <3>1, <3>3, <3>4 DEF RInv, R!UpTo
  <2>4. CASE UNCHANGED R!vars
    BY <2>4 DEF R!vars, RInv, R!Changes, R!UpTo
  <2> QED BY <2>1, <2>2, <2>3, <2>4 DEF R!Next
<1>3. RInv => R!ConfirmedWritten
  BY DEF RInv, R!ConfirmedWritten
<1> QED BY <1>1, <1>2, <1>3, PTL DEF R!Spec
=============================================================================
