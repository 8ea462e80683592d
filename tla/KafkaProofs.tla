---------------------------- MODULE KafkaProofs -----------------------------
(***************************************************************************)
(* Proofs about Kafka, for every number of partitions, of failed writes    *)
(* and of crashes, every capacity and batch size, and every set of         *)
(* commit-ordered feeds.                                                   *)
(***************************************************************************)
EXTENDS KafkaInv, StreamProofs

-----------------------------------------------------------------------------
(* Batches and the topic.                                                  *)

\* The records of a batch are changes that the sink received.
LEMMA BatchElement ==
  ASSUME TypeOK, QueueOK, NEW n \in DOMAIN batch
  PROVE  /\ batch[n].idx \in DOMAIN feed /\ batch[n].idx \in 1 .. cursor
         /\ batch[n].idx \in Nat
         /\ HasRecord(batch[n].idx) /\ Change(batch[n].idx)
         /\ feed[batch[n].idx].key \in Keys
         /\ batch[n].idx \in Idx(batch)
<1>1. /\ batch[n].idx \in DOMAIN feed /\ batch[n].idx \in 1 .. cursor /\ batch[n].idx \in Nat
      /\ HasRecord(batch[n].idx)
  BY FeedType DEF QueueOK, Received, TypeOK
<1>2. feed[batch[n].idx].end > 0 /\ feed[batch[n].idx].key \in Keys
  BY <1>1, FeedType DEF CommitOrdered, HasRecord, TypeOK
<1> QED BY <1>1, <1>2 DEF Change, Idx

\* A placement gives every record of the batch a partition.
LEMMA PlacementType ==
  ASSUME NEW b \in Seq(PendingMessage), NEW f \in Placement(b)
  PROVE  /\ f \in Seq(Partitions) /\ DOMAIN f = DOMAIN b
         /\ \A n \in DOMAIN b : f[n] \in Partitions
<1>1. DOMAIN b = 1 .. Len(b) /\ Len(b) \in Nat
  OBVIOUS
<1>2. f \in [DOMAIN b -> Partitions]
  BY DEF Placement
<1>3. f \in [1 .. Len(b) -> Partitions]
  BY <1>1, <1>2
<1>4. f \in Seq(Partitions)
  BY <1>1, <1>3
<1> QED BY <1>2, <1>4

\* The step of AppendRecord: the record appended is a change, it goes to its partition,
\* and no other row's last record changes.
LEMMA AppendOne ==
  ASSUME TypeOK, QueueOK, FlushOK, AppendRecord
  PROVE  \E n \in DOMAIN batch \ appended :
           /\ \A m \in 1 .. (n - 1) : placement[m] = placement[n] => m \in appended
           /\ appended' = appended \cup {n}
           /\ placement[n] \in Partitions /\ feed[batch[n].idx].key \in Keys
           /\ batch[n].idx \in Nat /\ batch[n].idx \in Idx(batch)
           /\ topic' \in [Partitions -> [Keys -> Nat]]
           /\ topic'[placement[n]][feed[batch[n].idx].key] = batch[n].idx
           /\ \A p \in Partitions, k \in Keys :
                p # placement[n] \/ k # feed[batch[n].idx].key => topic'[p][k] = topic[p][k]
<1>1. PICK n \in DOMAIN batch \ appended :
        /\ \A m \in 1 .. (n - 1) : placement[m] = placement[n] => m \in appended
        /\ topic' = [topic EXCEPT ![placement[n]][feed[batch[n].idx].key] = batch[n].idx]
        /\ appended' = appended \cup {n}
  BY DEF AppendRecord
<1>2. placement \in Placement(batch) /\ batch \in Seq(PendingMessage)
      /\ topic \in [Partitions -> [Keys -> Nat]]
  BY DEF FlushOK, AppendRecord, TypeOK
<1>3. placement[n] \in Partitions
  BY <1>1, <1>2, PlacementType
<1>4. feed[batch[n].idx].key \in Keys /\ batch[n].idx \in Nat /\ batch[n].idx \in Idx(batch)
  BY <1>1, BatchElement
<1> DEFINE q == placement[n]
           r == feed[batch[n].idx].key
           v == batch[n].idx
<1>5. /\ topic' \in [Partitions -> [Keys -> Nat]]
      /\ topic'[q][r] = v
      /\ \A p \in Partitions, k \in Keys : p # q \/ k # r => topic'[p][k] = topic[p][k]
  <2>1. topic' = [topic EXCEPT ![q][r] = v] /\ q \in Partitions /\ r \in Keys /\ v \in Nat
    BY <1>1, <1>3, <1>4
  <2> HIDE DEF q, r, v
  <2> QED BY <1>2, <2>1
<1> QED BY <1>1, <1>3, <1>4, <1>5

-----------------------------------------------------------------------------
(* Type correctness.                                                       *)

\* The initial state is well typed.
LEMMA TypeInit == Init => TypeOK
BY KafkaSizes, KafkaBounds, KafkaKeys, MessageCapAssumption, EmptySeq
   DEF Init, StreamInit, SinkMemoryInit, TypeOK, StreamTypeOK

\* The types of a process without memory.
LEMMA DownType ==
  ASSUME TypeOK, Down, UNCHANGED <<topic, unkeyed, writeFailures, lookupFailures>>,
         crashes' \in 0 .. MaxCrashes
  PROVE  TypeOK'
<1>1. StreamTypeOK'
  BY ProcessType DEF TypeOK, Down
<1>2. up' \in BOOLEAN
  BY Zenon DEF Down
<1>3. /\ pendingCH' \in Seq(PendingMessage) /\ Len(pendingCH') <= PendingQueueSize
      /\ batch' \in Seq(PendingMessage) /\ Len(batch') <= FlushBatchSize
  BY EmptySeq, KafkaSizes DEF Down
<1>4. /\ primaryKeyCache' \in {"unknown", "columns", "empty"}
      /\ lastAck' \in Message \cup {NoMessage}
      /\ flushPC' \in {"collect", "write", "ack", "send"}
      /\ attempt' \in 1 .. KafkaRetryCount + 1
  BY KafkaSizes DEF Down
<1>6. placement' \in Seq(Partitions) /\ appended' \subseteq DOMAIN batch'
  BY EmptySeq DEF Down
<1>5. /\ topic' \in [Partitions -> [Keys -> Nat]] /\ unkeyed' \subseteq Keys
      /\ writeFailures' \in 0 .. MaxWriteFailures
      /\ lookupFailures' \in 0 .. MaxLookupFailures
  BY DEF TypeOK
<1> QED BY <1>1, <1>2, <1>3, <1>4, <1>5, <1>6 DEF TypeOK

\* A step outside the stream keeps the stream's types when the channel, the
\* positions and the cursor keep theirs.
LEMMA StreamTypeKept ==
  ASSUME StreamTypeOK, UNCHANGED <<feed, cursor, startLsn, sinkPC, statusPos, prevMessage>>,
         messageCH' \in Seq(Message), Len(messageCH') <= MessageCap,
         lastXLogPos' \in Nat, confirmed' \in Nat
  PROVE  StreamTypeOK'
BY DEF StreamTypeOK

\* Every step of Kafka keeps the types; that a batch never exceeds FlushBatchSize
\* needs FlushOK (flushWorker writes a full batch before it takes more).
LEMMA TypeNext ==
  ASSUME TypeOK, StreamOK, QueueOK, FlushOK, [Next]_vars
  PROVE  TypeOK'
<1>a. /\ StreamTypeOK
      /\ primaryKeyCache \in {"unknown", "columns", "empty"}
      /\ pendingCH \in Seq(PendingMessage) /\ Len(pendingCH) <= PendingQueueSize
      /\ batch \in Seq(PendingMessage) /\ Len(batch) <= FlushBatchSize
      /\ lastAck \in Message \cup {NoMessage}
      /\ attempt \in 1 .. KafkaRetryCount + 1
      /\ crashes \in 0 .. MaxCrashes
      /\ writeFailures \in 0 .. MaxWriteFailures
      /\ lookupFailures \in 0 .. MaxLookupFailures
      /\ messageCH \in Seq(Message) /\ Len(messageCH) <= MessageCap
      /\ lastXLogPos \in Nat /\ confirmed \in Nat
  BY DEF TypeOK, StreamTypeOK
<1>b. /\ KafkaRetryCount \in Nat /\ MaxCrashes \in Nat /\ MaxWriteFailures \in Nat
      /\ MaxLookupFailures \in Nat /\ PendingQueueSize \in Nat /\ FlushBatchSize \in Nat
      /\ MessageCap \in Nat
  BY KafkaSizes, KafkaBounds, MessageCapAssumption
<1>1. CASE SinkStep
  <2>1. StreamTypeOK'
    BY <1>a, <1>1, SinkType DEF SinkStep
  <2> QED BY <1>1, <2>1 DEF SinkStep, sinkVars, countVars, TypeOK
<1>2. CASE Handler
  <2> DEFINE m == Head(messageCH)
  <2>1. PICK keyed \in BOOLEAN :
          /\ BuildKafkaKey(m.idx, keyed)
          /\ pendingCH' = Append(pendingCH, [idx |-> m.idx, lsn |-> m.lsn, keyed |-> keyed])
    BY <1>2 DEF Handler
  <2>2. /\ messageCH # << >> /\ Len(pendingCH) < PendingQueueSize /\ messageCH' = Tail(messageCH)
        /\ UNCHANGED <<batch, lastAck, flushPC, attempt, placement, appended, topic>>
        /\ UNCHANGED <<feed, cursor, startLsn, sinkPC, statusPos, prevMessage, lastXLogPos,
                       confirmed, up, crashes, writeFailures>>
    BY <1>2 DEF Handler
  <2>3. /\ m \in Message /\ Tail(messageCH) \in Seq(Message)
        /\ Len(Tail(messageCH)) = Len(messageCH) - 1 /\ Len(messageCH) \in Nat
    BY <1>a, <2>2, IdxTail
  <2>4. [idx |-> m.idx, lsn |-> m.lsn, keyed |-> keyed] \in PendingMessage
    BY <2>3 DEF Message, PendingMessage
  <2>5. pendingCH' \in Seq(PendingMessage) /\ Len(pendingCH') <= PendingQueueSize
    BY <1>a, <1>b, <2>1, <2>2, <2>4, AppendType
  <2>6. StreamTypeOK'
    BY <1>a, <1>b, <2>2, <2>3, StreamTypeKept
  <2>7. /\ primaryKeyCache' \in {"unknown", "columns", "empty"}
        /\ lookupFailures' \in 0 .. MaxLookupFailures
    BY <1>a, <1>b, <2>1 DEF BuildKafkaKey
  <2>8. unkeyed' \subseteq Keys
    <3>1. MessageOK(m)
      BY <1>a, <2>2, TailElement DEF StreamOK
    <3>2. HasRecord(m.idx) => feed[m.idx].key \in Keys
      BY <1>a, <3>1, FeedType DEF HasRecord, MessageOK, Received
    <3> HIDE DEF m
    <3> QED BY <2>1, <3>2 DEF BuildKafkaKey, TypeOK
  <2> QED BY <2>2, <2>5, <2>6, <2>7, <2>8 DEF TypeOK
<1>3. CASE FlushStep
  <2>0. UNCHANGED <<streamVars, topic, unkeyed, up, countVars>>
    BY <1>3 DEF FlushStep
  <2>1. StreamTypeOK'
    BY <1>a, <2>0 DEF streamVars, StreamTypeOK
  <2>2. CASE Take
    <3> DEFINE m == Head(pendingCH)
    <3>1. /\ m \in PendingMessage /\ Tail(pendingCH) \in Seq(PendingMessage)
          /\ Len(Tail(pendingCH)) = Len(pendingCH) - 1 /\ Len(pendingCH) \in Nat
      BY <1>a, <2>2, IdxTail DEF Take
    <3>2. pendingCH' \in Seq(PendingMessage) /\ Len(pendingCH') <= PendingQueueSize
      BY <1>a, <1>b, <2>2, <3>1 DEF Take
    <3>3. Len(batch) < FlushBatchSize
      BY <2>2 DEF Take, FlushOK
    <3>4. batch' \in Seq(PendingMessage) /\ Len(batch') <= FlushBatchSize
      BY <1>a, <1>b, <2>2, <3>1, <3>3, AppendType DEF Take
    <3>5. lastAck' \in Message
      <4>1. lastAck' = [idx |-> m.idx, lsn |-> m.lsn]
        BY <2>2 DEF Take
      <4> QED BY <3>1, <4>1 DEF PendingMessage, Message
    <3>6. /\ flushPC' \in {"collect", "write", "ack", "send"}
          /\ attempt' \in 1 .. KafkaRetryCount + 1
      BY <1>a, <1>b, <2>2 DEF Take, BeginFlush
    <3>7. UNCHANGED primaryKeyCache /\ appended' = {}
      BY <2>2 DEF Take, FlushOK
    <3>8. placement' \in Seq(Partitions)
      BY <2>2, <3>4, PlacementType DEF Take, BeginFlush, TypeOK
    <3> QED BY <2>0, <2>1, <3>2, <3>4, <3>5, <3>6, <3>7, <3>8 DEF TypeOK, countVars
  <2>3. CASE Tick
    <3>1. /\ flushPC' \in {"collect", "write", "ack", "send"}
          /\ attempt' \in 1 .. KafkaRetryCount + 1
      BY <1>a, <1>b, <2>3 DEF Tick, BeginFlush
    <3>2. UNCHANGED <<primaryKeyCache, pendingCH, batch, lastAck, appended>>
      BY <2>3 DEF Tick
    <3>3. placement' \in Seq(Partitions)
      BY <1>a, <2>3, PlacementType DEF Tick, BeginFlush
    <3> QED BY <2>0, <2>1, <3>1, <3>2, <3>3 DEF TypeOK, countVars
  <2> QED BY <1>3, <2>2, <2>3 DEF FlushStep
<1>4. CASE AppendRecord
  <2>1. topic' \in [Partitions -> [Keys -> Nat]] /\ appended' \subseteq DOMAIN batch
    BY <1>4, AppendOne DEF TypeOK
  <2>2. StreamTypeOK'
    BY <1>a, <1>4 DEF AppendRecord, streamVars, StreamTypeOK
  <2> QED BY <1>4, <2>1, <2>2 DEF AppendRecord, countVars, TypeOK
<1>5. CASE WriteBatch
  <2>1. StreamTypeOK' /\ placement' \in Seq(Partitions)
    BY <1>a, <1>5, EmptySeq DEF WriteBatch, streamVars, StreamTypeOK
  <2>2. attempt' \in 1 .. KafkaRetryCount + 1 /\ flushPC' \in {"collect", "write", "ack", "send"}
    BY <1>b, <1>5 DEF WriteBatch
  <2> QED BY <1>5, <2>1, <2>2 DEF WriteBatch, countVars, TypeOK
<1>11. CASE WriteFails
  <2>2. placement' \in Seq(Partitions) /\ appended' = {}
    BY <1>a, <1>11, PlacementType DEF WriteFails
  <2>3. attempt' \in 1 .. KafkaRetryCount + 1 /\ writeFailures' \in 0 .. MaxWriteFailures
    BY <1>a, <1>b, <1>11 DEF WriteFails
  <2>4. StreamTypeOK'
    BY <1>a, <1>11 DEF WriteFails, streamVars, StreamTypeOK
  <2> QED BY <1>11, <2>2, <2>3, <2>4 DEF WriteFails, TypeOK
<1>6. CASE GiveUp
  BY <1>a, <1>6, DownType DEF GiveUp, countVars
<1>7. CASE AckStep
  <2>1. lastAck.lsn \in Nat
    BY <1>a, MessageType DEF NoMessage
  <2>2. lastXLogPos' \in Nat /\ confirmed' \in Nat
    BY <1>a, <1>7, <2>1 DEF AckStep, AckUpdate, AckSend, UpdateXLogPos, Confirm
  <2>3. StreamTypeOK'
    BY <1>a, <1>7, <2>2, StreamTypeKept DEF AckStep
  <2>4. CASE AckUpdate
    BY <1>7, <2>3, <2>4 DEF AckStep, AckUpdate, countVars, TypeOK
  <2>5. CASE AckSend
    <3>1. batch' \in Seq(PendingMessage) /\ Len(batch') <= FlushBatchSize
      BY <1>b, <2>5, EmptySeq DEF AckSend
    <3> QED BY <1>7, <2>3, <2>5, <3>1 DEF AckStep, AckSend, countVars, TypeOK
  <2> QED BY <1>7, <2>4, <2>5 DEF AckStep
<1>8. CASE Crash
  <2>1. crashes' \in 0 .. MaxCrashes
    BY <1>a, <1>b, <1>8 DEF Crash
  <2> QED BY <1>8, <2>1, DownType DEF Crash
<1>9. CASE Restart
  <2>1. StreamTypeOK'
    BY <1>a, <1>9, ProcessType DEF Restart
  <2>2. up' \in BOOLEAN
    BY <1>9, Zenon DEF Restart
  <2> QED BY <1>9, <2>1, <2>2 DEF Restart, sinkVars, countVars, TypeOK
<1>10. CASE UNCHANGED vars
  BY <1>10 DEF vars, streamVars, sinkVars, countVars, TypeOK, StreamTypeOK
<1> QED BY <1>1, <1>2, <1>3, <1>4, <1>5, <1>6, <1>7, <1>8, <1>9, <1>10, <1>11 DEF Next

-----------------------------------------------------------------------------
(* Facts that hold in every state of the inductive invariant.              *)

\* What is pending was received in this session.
LEMMA PendingReceived ==
  ASSUME TypeOK, StreamOK, QueueOK, NEW p \in Idx(batch) \cup Idx(pendingCH) \cup InStream
  PROVE  p \in DOMAIN feed /\ p \in Nat /\ p <= cursor /\ ~ Skipped(feed[p])
<1>1. CASE p \in InStream
  BY <1>1, InStreamReceived DEF TypeOK
<1>2. CASE p \in Idx(batch) \cup Idx(pendingCH)
  <2>1. PICK m : p = m.idx /\ Received(m)
    BY <1>2 DEF Idx, QueueOK, MessageOK
  <2> QED BY <2>1, FeedType DEF Received, TypeOK
<1> QED BY <1>1, <1>2

\* Pending messages are among those in memory.
LEMMA PendingInMemory == Pending \subseteq Idx(batch) \cup Idx(pendingCH) \cup InStream
BY DEF Pending, BatchIdx

\* What is in the topic and older than all that is pending stays there.
StoredStays ==
  \A i \in DOMAIN feed :
    Change(i) /\ Stored(i) /\ (\A p \in Pending : i < p) => Stored(i)'

\* A step that does not write leaves the topic as it is.
LEMMA NoWrite ==
  ASSUME topic' = topic, feed' = feed
  PROVE  StoredStays
BY DEF StoredStays, Stored

\* A position stays covered while the messages that join the pending ones come
\* from beyond the cursor.
LEMMA CoveredKept ==
  ASSUME TypeOK, StoredStays, feed' = feed, startLsn' = startLsn,
         cursor' \in Nat, cursor <= cursor',
         \A p \in Pending' :
           \/ p \in Pending
           \/ p \in DOMAIN feed /\ p > cursor /\ ~ Skipped(feed[p]),
         NEW l, Covered(l)
  PROVE  Covered(l)'
<1> SUFFICES ASSUME NEW i \in DOMAIN feed, Change(i), feed[i].end <= l
             PROVE  /\ Stored(i)'
                    /\ \A p \in Pending' : i < p
                    /\ i <= cursor' \/ Skipped(feed[i])
  BY DEF Covered, Change, HasRecord, Skipped
<1>1. /\ Stored(i)
      /\ \A p \in Pending : i < p
      /\ i <= cursor \/ Skipped(feed[i])
  BY DEF Covered
<1>2. StreamTypeOK /\ i \in Nat /\ cursor \in Nat /\ \A p \in DOMAIN feed : p \in Nat
  BY FeedElement, FeedType DEF TypeOK
<1>3. Stored(i)'
  BY <1>1 DEF StoredStays
<1>4. ASSUME NEW p \in Pending' PROVE i < p
  <2>1. CASE p \in Pending
    BY <1>1, <2>1
  <2>2. CASE p \in DOMAIN feed /\ p > cursor /\ ~ Skipped(feed[p])
    BY <1>1, <1>2, <2>2, Ordered
  <2> QED BY <2>1, <2>2
<1> QED BY <1>1, <1>2, <1>3, <1>4

\* The positions stay covered when each of them stays or moves to a covered one.
LEMMA PositionsKept ==
  ASSUME PositionsCovered, startLsn' = startLsn,
         \A l : Covered(l) => Covered(l)',
         Covered(confirmed'), Covered(lastXLogPos'), Covered(statusPos')
  PROVE  PositionsCovered'
<1>1. /\ Covered(startLsn)' /\ Covered(confirmed)'
      /\ Covered(lastXLogPos)' /\ Covered(statusPos)'
  BY DEF PositionsCovered, Covered
<1> QED BY <1>1 DEF PositionsCovered

\* Nothing is forgotten while a pending change stays pending or is written.
LEMMA CompleteKept ==
  ASSUME Complete, up, StoredStays, TypeOK,
         UNCHANGED <<feed, cursor, startLsn>>, Pending' \subseteq Pending,
         \A i \in DOMAIN feed : Change(i) /\ i \in Pending =>
           i \in Pending' \/ (Stored(i)' /\ \A p \in Pending' : i < p)
  PROVE  Complete'
<1> SUFFICES ASSUME NEW i \in 1 .. cursor, Change(i), ~ Skipped(feed[i])
             PROVE  \/ i \in Pending'
                    \/ Stored(i)' /\ \A p \in Pending' : i < p
  BY DEF Complete, Change, HasRecord, Skipped
<1>1. i \in DOMAIN feed
  BY FeedType DEF TypeOK
<1>2. i \in Pending \/ (Stored(i) /\ \A p \in Pending : i < p)
  BY DEF Complete
<1> QED BY <1>1, <1>2 DEF StoredStays

\* Position 0, that of a stream that has acknowledged nothing, covers nothing.
LEMMA NoPositionCovered == ASSUME StreamTypeOK PROVE Covered(0)
<1>1. \A i \in DOMAIN feed : feed[i].end \in Nat /\ feed[i].end > 0
  BY FeedType, FeedElement DEF CommitOrdered
<1> QED BY <1>1 DEF Covered

\* A step that moves no message keeps what the invariant says of messages.
LEMMA MessagesKept ==
  ASSUME StreamOK, QueueOK, OrderOK, LastAckOK, UnkeyedOK,
         UNCHANGED <<feed, cursor, startLsn, prevMessage, messageCH, pendingCH, batch,
                     lastAck, unkeyed>>,
         flushPC' # "collect" => lastAck # NoMessage
  PROVE  /\ StreamOK' /\ QueueOK' /\ OrderOK' /\ LastAckOK' /\ UnkeyedOK'
         /\ Idx(batch)' = Idx(batch) /\ Idx(pendingCH)' = Idx(pendingCH) /\ InStream' = InStream
<1>1. StreamOK' /\ InStream' = InStream
  BY StreamKept
<1>2. Idx(batch)' = Idx(batch) /\ Idx(pendingCH)' = Idx(pendingCH)
  BY DEF Idx
<1>3. QueueOK' /\ UnkeyedOK'
  BY DEF QueueOK, UnkeyedOK, HasRecord, MessageOK, Received, LsnSafe, Skipped
<1>4. OrderOK'
  BY <1>1, <1>2 DEF OrderOK, Sorted, Before
<1>5. LastAckOK'
  BY <1>1, <1>2 DEF LastAckOK, NoMessage, MessageOK, Received, LsnSafe, Skipped, Before
<1> QED BY <1>1, <1>2, <1>3, <1>4, <1>5

\* A step that leaves the messages and the topic, and moves positions only to
\* positions that are covered.
LEMMA PositionStep ==
  ASSUME IInv, TypeOK', up,
         UNCHANGED <<feed, cursor, startLsn, prevMessage, messageCH, pendingCH, batch,
                     lastAck, unkeyed, topic, up>>,
         BatchIdx' = BatchIdx, FlushOK', AppendedOK',
         flushPC' # "collect" => lastAck # NoMessage,
         Covered(confirmed'), Covered(lastXLogPos'), Covered(statusPos')
  PROVE  IInv'
<1>a. TypeOK /\ StreamOK /\ QueueOK /\ OrderOK /\ LastAckOK /\ UnkeyedOK /\ Complete
      /\ PositionsCovered /\ cursor \in Nat
  BY FeedType DEF IInv, TypeOK
<1>1. /\ StreamOK' /\ QueueOK' /\ OrderOK' /\ LastAckOK' /\ UnkeyedOK'
      /\ Idx(batch)' = Idx(batch) /\ Idx(pendingCH)' = Idx(pendingCH) /\ InStream' = InStream
  BY <1>a, MessagesKept
<1>2. Pending' = Pending
  BY <1>1 DEF Pending
<1>3. StoredStays
  BY NoWrite
<1>4. Complete'
  BY <1>a, <1>2, <1>3, CompleteKept
<1>5. PositionsCovered'
  BY <1>a, <1>2, <1>3, CoveredKept, PositionsKept
<1>6. DownOK'
  BY Zenon DEF DownOK
<1> QED BY <1>1, <1>4, <1>5, <1>6 DEF IInv

-----------------------------------------------------------------------------
(* The stream's steps.                                                     *)

\* The sink receives a message.
LEMMA SinkReceiveInv ==
  ASSUME IInv, TypeOK', up, SinkReceive, UNCHANGED <<sinkVars, topic, unkeyed, up, countVars>>
  PROVE  IInv'
<1>a. TypeOK /\ StreamOK /\ QueueOK /\ OrderOK /\ LastAckOK /\ FlushOK /\ Complete
      /\ PositionsCovered /\ UnkeyedOK /\ AppendedOK
  BY DEF IInv
<1>b. UNCHANGED <<pendingCH, batch, lastAck, flushPC, placement, appended, topic, unkeyed, up>>
  BY DEF sinkVars
<1>c. /\ StreamOK'
      /\ feed' = feed /\ startLsn' = startLsn /\ lastXLogPos' = lastXLogPos
      /\ confirmed' = confirmed /\ statusPos' = statusPos
      /\ cursor \in Nat /\ cursor' \in DOMAIN feed /\ cursor' \in Nat /\ cursor < cursor'
      /\ InStream \subseteq InStream'
      /\ \A p \in InStream' :
           p \in InStream \/ (p \in DOMAIN feed /\ p > cursor /\ ~ Skipped(feed[p]))
      /\ \A j \in DOMAIN feed : feed[j].tag = "dml" /\ j > cursor /\ j <= cursor' =>
           j \in InStream' \/ Skipped(feed[j])
  BY <1>a, ReceiveInv DEF TypeOK
<1>1. Idx(batch)' = Idx(batch) /\ Idx(pendingCH)' = Idx(pendingCH) /\ BatchIdx' = BatchIdx
  BY <1>b DEF Idx, BatchIdx
<1>2. \A m : MessageOK(m) => MessageOK(m)'
  BY <1>a, <1>c, MessageKept DEF TypeOK
<1>3. QueueOK'
  <2>1. \A m : Received(m) => Received(m)'
    BY <1>c DEF Received, Skipped
  <2> QED BY <1>a, <1>b, <1>c, <1>2, <2>1
          DEF QueueOK, HasRecord, MessageOK, Received, LsnSafe, Skipped
<1>4. UnkeyedOK' /\ FlushOK' /\ AppendedOK'
  BY <1>a, <1>b, <1>c DEF UnkeyedOK, HasRecord, FlushOK, AppendedOK, Placement
<1>5. \A q \in Idx(batch) \cup Idx(pendingCH) : q \in Nat /\ q <= cursor
  BY <1>a, PendingReceived
<1>6. OrderOK'
  <2>1. Before(Idx(batch) \cup Idx(pendingCH), InStream')
    <3> SUFFICES ASSUME NEW q \in Idx(batch) \cup Idx(pendingCH), NEW p \in InStream'
                 PROVE  q < p
      BY DEF Before
    <3>1. CASE p \in InStream
      BY <1>a, <3>1 DEF OrderOK, Before
    <3>2. CASE p \in DOMAIN feed /\ p > cursor
      <4>1. p \in Nat
        BY <1>a, <3>2, FeedElement DEF TypeOK
      <4> QED BY <1>c, <1>5, <3>2, <4>1
    <3> QED BY <1>c, <3>1, <3>2
  <2>2. Sorted(batch)' /\ Sorted(pendingCH)'
    BY <1>a, <1>b DEF OrderOK, Sorted
  <2> QED BY <1>a, <1>1, <2>1, <2>2 DEF OrderOK, Before
<1>7. LastAckOK'
  <2>1. ASSUME lastAck # NoMessage
        PROVE  /\ MessageOK(lastAck)'
               /\ \A p \in Idx(batch)' : p <= lastAck.idx
               /\ Before({lastAck.idx}, Idx(pendingCH)' \cup InStream')
    <3>1. /\ MessageOK(lastAck) /\ \A p \in Idx(batch) : p <= lastAck.idx
          /\ Before({lastAck.idx}, Idx(pendingCH) \cup InStream)
      BY <1>a, <2>1 DEF LastAckOK
    <3>2. lastAck.idx \in Nat /\ lastAck.idx <= cursor
      BY <1>c, <3>1 DEF MessageOK, Received
    <3>3. MessageOK(lastAck)'
      BY <1>b, <1>c, <3>1, <1>2 DEF MessageOK, Received, LsnSafe, Skipped
    <3>4. \A p \in DOMAIN feed : p \in Nat
      BY <1>a, FeedElement DEF TypeOK
    <3>5. Before({lastAck.idx}, Idx(pendingCH)' \cup InStream')
      BY <1>c, <1>1, <3>1, <3>2, <3>4 DEF Before
    <3> QED BY <1>1, <3>1, <3>3, <3>5
  <2> QED BY <1>a, <1>b, <2>1 DEF LastAckOK, NoMessage, Before
<1>8. StoredStays
  BY <1>b, <1>c, NoWrite
<1>9. Complete'
  <2> SUFFICES ASSUME NEW j \in 1 .. cursor', Change(j), ~ Skipped(feed[j])
               PROVE  \/ j \in Pending'
                      \/ Stored(j)' /\ \A p \in Pending' : j < p
    BY <1>c DEF Complete, Change, HasRecord, Skipped
  <2>1. j \in DOMAIN feed /\ j \in Nat
    <3>1. DOMAIN feed = 1 .. Len(feed) /\ Len(feed) \in Nat
      BY <1>a, FeedType DEF TypeOK
    <3> QED BY <1>c, <3>1
  <2>2. CASE j > cursor
    BY <1>c, <2>1, <2>2 DEF Change, HasRecord, Pending
  <2>3. CASE j <= cursor
    <3>1. j \in Pending \/ (Stored(j) /\ \A p \in Pending : j < p)
      BY <1>a, <1>c, <2>1, <2>3 DEF Complete
    <3>2. CASE j \in Pending
      BY <1>c, <1>1, <3>2 DEF Pending
    <3>3. CASE Stored(j) /\ \A p \in Pending : j < p
      <4>1. Stored(j)'
        BY <1>8, <2>1, <3>3 DEF StoredStays
      <4>2. \A p \in Pending' : p \in Pending \/ (p \in DOMAIN feed /\ p > cursor)
        BY <1>c, <1>1 DEF Pending
      <4>3. \A p \in DOMAIN feed : p \in Nat
        BY <1>a, FeedElement DEF TypeOK
      <4> QED BY <1>c, <2>1, <2>3, <3>3, <4>1, <4>2, <4>3
    <3> QED BY <3>1, <3>2, <3>3
  <2> QED BY <1>c, <2>1, <2>2, <2>3
<1>10. PositionsCovered'
  <2>1. \A p \in Pending' :
          p \in Pending \/ (p \in DOMAIN feed /\ p > cursor /\ ~ Skipped(feed[p]))
    BY <1>c, <1>1 DEF Pending
  <2>2. \A l : Covered(l) => Covered(l)'
    BY <1>a, <1>c, <1>8, <2>1, CoveredKept
  <2> QED BY <1>a, <1>c, <2>2, PositionsKept DEF PositionsCovered
<1>11. DownOK'
  BY Zenon DEF DownOK
<1> QED BY <1>c, <1>3, <1>4, <1>6, <1>7, <1>9, <1>10, <1>11 DEF IInv

\* The status updates of the sink report positions that are covered, also when
\* they were loaded before an Ack.
LEMMA SinkStatusInv ==
  ASSUME IInv, TypeOK', up, SinkTimeout \/ SinkKeepalive \/ SinkSend,
         UNCHANGED <<sinkVars, topic, unkeyed, up, countVars>>
  PROVE  IInv'
<1>1. /\ UNCHANGED <<feed, cursor, startLsn, prevMessage, messageCH>>
      /\ UNCHANGED <<pendingCH, batch, lastAck, flushPC, placement, appended, topic, unkeyed, up>>
  BY DEF SinkTimeout, SinkKeepalive, SinkSend, sinkVars
<1>2. BatchIdx' = BatchIdx /\ FlushOK' /\ AppendedOK'
  BY <1>1 DEF IInv, BatchIdx, FlushOK, AppendedOK, Placement, Idx
<1>3. flushPC' # "collect" => lastAck # NoMessage
  BY <1>1 DEF IInv, LastAckOK
<1>4. Covered(confirmed) /\ Covered(lastXLogPos) /\ Covered(statusPos) /\ Covered(0)
  BY NoPositionCovered DEF IInv, PositionsCovered, TypeOK
<1>5. Covered(confirmed') /\ Covered(lastXLogPos') /\ Covered(statusPos')
  BY <1>4 DEF SinkTimeout, SinkKeepalive, SinkSend, Confirm
<1> QED BY <1>1, <1>2, <1>3, <1>5, PositionStep

-----------------------------------------------------------------------------
(* Handler and flushWorker.                                                *)

\* Only a process that is up has something in memory.
LEMMA BusyIsUp ==
  ASSUME DownOK, messageCH # << >> \/ pendingCH # << >> \/ lastAck # NoMessage \/ flushPC # "collect"
  PROVE  up
BY DEF DownOK

\* Handler moves a message to pendingCH.
LEMMA HandlerInv ==
  ASSUME IInv, TypeOK', Handler
  PROVE  IInv'
<1> DEFINE m == Head(messageCH)
<1>a. TypeOK /\ StreamTypeOK /\ StreamOK /\ QueueOK /\ OrderOK /\ LastAckOK /\ FlushOK /\ Complete
      /\ PositionsCovered /\ UnkeyedOK /\ AppendedOK /\ pendingCH \in Seq(PendingMessage)
  BY DEF IInv, TypeOK
<1>b. PICK keyed \in BOOLEAN :
        /\ BuildKafkaKey(m.idx, keyed)
        /\ pendingCH' = Append(pendingCH, [idx |-> m.idx, lsn |-> m.lsn, keyed |-> keyed])
  BY DEF Handler
<1> DEFINE e == [idx |-> m.idx, lsn |-> m.lsn, keyed |-> keyed]
<1>c. /\ messageCH # << >> /\ messageCH' = Tail(messageCH)
      /\ UNCHANGED <<batch, lastAck, flushPC, attempt, placement, appended, topic>>
      /\ UNCHANGED <<feed, cursor, startLsn, sinkPC, statusPos, prevMessage, lastXLogPos,
                     confirmed, up>>
  BY DEF Handler
<1>d. up /\ cursor \in Nat
  BY <1>a, <1>c, BusyIsUp, FeedType DEF IInv
<1>e. /\ StreamOK'
      /\ m \in Message /\ MessageOK(m)
      /\ InStream = InStream' \cup {m.idx}
      /\ Before({m.idx}, InStream')
  BY <1>a, <1>c, TakeInv
<1> HIDE DEF m
<1>f. /\ e \in PendingMessage /\ e.idx = m.idx /\ MessageOK(e) /\ e.keyed = keyed
      /\ pendingCH' = Append(pendingCH, e)
  BY <1>b, <1>e DEF Message, PendingMessage, MessageOK, Received, LsnSafe
<1>g. /\ HasRecord(m.idx) /\ ~ keyed => feed[m.idx].key \in unkeyed'
      /\ unkeyed \subseteq unkeyed'
  BY <1>b DEF BuildKafkaKey
<1> HIDE DEF e
<1>1. /\ Idx(pendingCH)' = Idx(pendingCH) \cup {m.idx}
      /\ Idx(batch)' = Idx(batch) /\ BatchIdx' = BatchIdx
  <2>1. Idx(Append(pendingCH, e)) = Idx(pendingCH) \cup {e.idx}
    BY <1>a, <1>f, IdxAppend
  <2> QED BY <1>c, <1>f, <2>1 DEF Idx, BatchIdx
<1>2. Pending' = Pending /\ Idx(pendingCH)' \cup InStream' = Idx(pendingCH) \cup InStream
  BY <1>e, <1>1 DEF Pending
<1>3. \A n \in DOMAIN pendingCH' :
        pendingCH'[n] = e \/ (n \in DOMAIN pendingCH /\ pendingCH'[n] = pendingCH[n])
  BY <1>a, <1>f, AppendElement
<1>4. QueueOK'
  <2>1. \A n \in DOMAIN pendingCH' : MessageOK(pendingCH'[n])
    BY <1>a, <1>f, <1>3 DEF QueueOK
  <2> QED BY <1>a, <1>c, <2>1 DEF QueueOK, HasRecord, MessageOK, Received, LsnSafe, Skipped
<1>5. UnkeyedOK'
  <2>1. \A n \in DOMAIN pendingCH' :
          HasRecord(pendingCH'[n].idx) /\ ~ pendingCH'[n].keyed =>
            feed[pendingCH'[n].idx].key \in unkeyed'
    BY <1>a, <1>f, <1>g, <1>3 DEF UnkeyedOK
  <2> QED BY <1>a, <1>c, <1>g, <2>1 DEF UnkeyedOK, HasRecord
<1>6. OrderOK'
  <2>1. Sorted(pendingCH)'
    <3>1. \A p \in Idx(pendingCH) : p < e.idx
      BY <1>a, <1>e, <1>f DEF OrderOK, Before
    <3>2. Sorted(Append(pendingCH, e))
      BY <1>a, <1>f, <3>1, SortedAppend DEF OrderOK
    <3> QED BY <1>f, <3>2 DEF Sorted
  <2>2. Sorted(batch)'
    BY <1>a, <1>c DEF OrderOK, Sorted
  <2> QED BY <1>a, <1>e, <1>1, <1>2, <2>1, <2>2 DEF OrderOK, Before
<1>7. LastAckOK'
  BY <1>a, <1>c, <1>1, <1>2 DEF LastAckOK, NoMessage, MessageOK, Received, LsnSafe, Skipped, Before
<1>8. FlushOK' /\ AppendedOK'
  BY <1>a, <1>c, <1>g DEF FlushOK, AppendedOK, Placement
<1>9. StoredStays
  BY <1>c, NoWrite
<1>10. Complete'
  BY <1>a, <1>c, <1>d, <1>2, <1>9, CompleteKept
<1>11. PositionsCovered'
  <2>1. \A l : Covered(l) => Covered(l)'
    BY <1>a, <1>c, <1>d, <1>2, <1>9, CoveredKept
  <2> QED BY <1>a, <1>c, <2>1, PositionsKept DEF PositionsCovered
<1>12. DownOK'
  <2>1. up'
    BY <1>c, <1>d
  <2> QED BY <2>1, Zenon DEF DownOK
<1> QED BY <1>e, <1>4, <1>5, <1>6, <1>7, <1>8, <1>10, <1>11, <1>12 DEF IInv

\* flushWorker takes a message: a record joins the batch, the Ack of any message
\* becomes the one to call.
LEMMA TakeBatchInv ==
  ASSUME IInv, TypeOK', Take, UNCHANGED <<streamVars, topic, unkeyed, up, countVars>>
  PROVE  IInv'
<1> DEFINE m == Head(pendingCH)
<1>a. TypeOK /\ StreamTypeOK /\ StreamOK /\ QueueOK /\ OrderOK /\ LastAckOK /\ FlushOK /\ Complete
      /\ PositionsCovered /\ UnkeyedOK
      /\ pendingCH \in Seq(PendingMessage) /\ batch \in Seq(PendingMessage)
  BY DEF IInv, TypeOK
<1>b. /\ flushPC = "collect" /\ pendingCH # << >> /\ pendingCH' = Tail(pendingCH)
      /\ batch' = IF HasRecord(m.idx) THEN Append(batch, m) ELSE batch
      /\ lastAck' = [idx |-> m.idx, lsn |-> m.lsn]
      /\ appended' = appended
      /\ \/ /\ Len(batch') >= FlushBatchSize
            /\ flushPC' = IF batch' = << >> THEN "ack" ELSE "write"
            /\ placement' \in Placement(batch')
         \/ ~ (Len(batch') >= FlushBatchSize) /\ flushPC' = flushPC
  BY DEF Take, BeginFlush
<1>c. UNCHANGED <<feed, cursor, startLsn, statusPos, prevMessage, messageCH, lastXLogPos,
                  confirmed, topic, unkeyed, up>>
  BY DEF streamVars
<1>d. up /\ cursor \in Nat
  BY <1>a, <1>b, BusyIsUp, FeedType DEF IInv
<1>e. /\ m \in PendingMessage /\ 1 \in DOMAIN pendingCH /\ m = pendingCH[1]
      /\ \A n \in DOMAIN Tail(pendingCH) :
           n + 1 \in DOMAIN pendingCH /\ Tail(pendingCH)[n] = pendingCH[n + 1]
      /\ Idx(pendingCH) = Idx(Tail(pendingCH)) \cup {m.idx}
      /\ Sorted(Tail(pendingCH)) /\ \A p \in Idx(Tail(pendingCH)) : m.idx < p
  BY <1>a, <1>b, TailElement, IdxTail, SortedTail DEF OrderOK
<1> HIDE DEF m
<1>f. MessageOK(m) /\ m.idx \in Nat /\ m.idx > 0 /\ m.lsn \in Nat
  BY <1>a, <1>e DEF QueueOK, PendingMessage
<1>g. /\ lastAck'.idx = m.idx /\ lastAck'.lsn = m.lsn /\ lastAck' # NoMessage
      /\ MessageOK(lastAck') /\ Received(m)
  BY <1>b, <1>f DEF NoMessage, MessageOK, Received, LsnSafe
<1>1. /\ Idx(pendingCH)' = Idx(Tail(pendingCH)) /\ InStream' = InStream /\ StreamOK'
      /\ HasRecord(m.idx) => Idx(batch)' = Idx(batch) \cup {m.idx}
      /\ ~ HasRecord(m.idx) => Idx(batch)' = Idx(batch)
  <2>1. Idx(Append(batch, m)) = Idx(batch) \cup {m.idx}
    BY <1>a, <1>e, IdxAppend
  <2>2. InStream' = InStream /\ StreamOK'
    BY <1>a, <1>c, StreamKept
  <2> QED BY <1>b, <2>1, <2>2 DEF Idx
<1>2. BatchIdx = Idx(batch) /\ BatchIdx' = Idx(batch)'
  <2>1. flushPC' \in {"ack", "send"} => batch' = << >>
    BY <1>b
  <2>2. batch' = << >> => Idx(batch)' = {}
    BY EmptySeq DEF Idx
  <2> QED BY <1>b, <2>1, <2>2 DEF BatchIdx
<1>3. /\ Pending' \subseteq Pending
      /\ \A p \in Pending : p \in Pending' \/ (p = m.idx /\ ~ HasRecord(m.idx))
  BY <1>e, <1>1, <1>2 DEF Pending
<1>4. \A n \in DOMAIN batch' :
        \/ n \in DOMAIN batch /\ batch'[n] = batch[n]
        \/ batch'[n] = m /\ HasRecord(m.idx)
  <2>1. CASE HasRecord(m.idx)
    <3>1. \A n \in DOMAIN Append(batch, m) :
            Append(batch, m)[n] = m \/ (n \in DOMAIN batch /\ Append(batch, m)[n] = batch[n])
      BY <1>a, <1>e, AppendElement
    <3> QED BY <1>b, <2>1, <3>1
  <2>2. CASE ~ HasRecord(m.idx)
    BY <1>b, <2>2
  <2> QED BY <2>1, <2>2
<1>5. QueueOK' /\ UnkeyedOK'
  <2>1. \A n \in DOMAIN batch' : /\ Received(batch'[n]) /\ HasRecord(batch'[n].idx)
                                 /\ batch'[n].keyed \/ feed[batch'[n].idx].key \in unkeyed
    BY <1>a, <1>e, <1>g, <1>4 DEF QueueOK, UnkeyedOK
  <2>2. \A n \in DOMAIN pendingCH' :
          /\ MessageOK(pendingCH'[n])
          /\ HasRecord(pendingCH'[n].idx) /\ ~ pendingCH'[n].keyed =>
               feed[pendingCH'[n].idx].key \in unkeyed
    BY <1>a, <1>b, <1>e DEF QueueOK, UnkeyedOK
  <2> QED BY <1>c, <2>1, <2>2 DEF QueueOK, UnkeyedOK, HasRecord, MessageOK, Received, LsnSafe, Skipped
<1>6. OrderOK'
  <2>1. \A p \in Idx(batch) : p < m.idx
    BY <1>a, <1>e DEF OrderOK, Before
  <2>2. Sorted(batch)'
    <3>1. Sorted(Append(batch, m))
      BY <1>a, <1>e, <2>1, SortedAppend DEF OrderOK
    <3>2. CASE HasRecord(m.idx)
      BY <1>b, <3>1, <3>2 DEF Sorted
    <3>3. CASE ~ HasRecord(m.idx)
      BY <1>a, <1>b, <3>3 DEF OrderOK, Sorted
    <3> QED BY <3>2, <3>3
  <2>3. Sorted(pendingCH)'
    BY <1>b, <1>e DEF Sorted
  <2>4. /\ Before(Idx(batch)', Idx(pendingCH)' \cup InStream')
        /\ Before(Idx(pendingCH)', InStream')
    BY <1>a, <1>e, <1>1 DEF OrderOK, Before
  <2> QED BY <2>2, <2>3, <2>4 DEF OrderOK, Before
<1>7. LastAckOK'
  <2>1. MessageOK(lastAck)'
    BY <1>c, <1>g DEF MessageOK, Received, LsnSafe, Skipped
  <2>2. \A p \in Idx(batch)' : p <= m.idx
    <3>1. \A p \in Idx(batch) : p < m.idx /\ p \in Nat
      BY <1>a, <1>e, PendingReceived DEF OrderOK, Before
    <3> QED BY <1>f, <1>1, <3>1
  <2>3. Before({m.idx}, Idx(pendingCH)' \cup InStream')
    BY <1>a, <1>e, <1>1 DEF OrderOK, Before
  <2> QED BY <1>g, <2>1, <2>2, <2>3 DEF LastAckOK, NoMessage, Before
<1>8. FlushOK' /\ AppendedOK'
  <2>1. batch' \in Seq(PendingMessage) /\ Len(batch') \in Nat /\ FlushBatchSize \in Nat
    BY KafkaSizes DEF TypeOK
  <2>2. appended' = {} /\ (batch' = << >> => DOMAIN batch' = {})
    BY <1>a, <1>b, EmptySeq DEF FlushOK
  <2>3. flushPC' = "write" => placement' \in Placement(batch)'
    BY <1>b, <1>c DEF Placement
  <2> QED BY <1>b, <2>1, <2>2, <2>3 DEF FlushOK, AppendedOK
<1>9. StoredStays
  BY <1>c, NoWrite
<1>10. Complete'
  BY <1>a, <1>c, <1>d, <1>3, <1>9, CompleteKept DEF Change
<1>11. PositionsCovered'
  <2>1. \A l : Covered(l) => Covered(l)'
    BY <1>a, <1>c, <1>d, <1>3, <1>9, CoveredKept
  <2> QED BY <1>a, <1>c, <2>1, PositionsKept DEF PositionsCovered
<1>12. DownOK'
  <2>1. up'
    BY <1>c, <1>d
  <2> QED BY <2>1, Zenon DEF DownOK
<1> QED BY <1>1, <1>5, <1>6, <1>7, <1>8, <1>10, <1>11, <1>12 DEF IInv

\* The ticker starts the flush of what has been taken.
LEMMA TickInv ==
  ASSUME IInv, TypeOK', Tick, UNCHANGED <<streamVars, topic, unkeyed, up, countVars>>
  PROVE  IInv'
<1>1. /\ UNCHANGED <<feed, cursor, startLsn, prevMessage, messageCH, statusPos, lastXLogPos,
                     confirmed>>
      /\ UNCHANGED <<pendingCH, batch, lastAck, appended, topic, unkeyed, up>>
      /\ flushPC = "collect" /\ lastAck # NoMessage
      /\ flushPC' = IF batch = << >> THEN "ack" ELSE "write"
      /\ placement' \in Placement(batch)
  BY DEF Tick, BeginFlush, streamVars
<1>2. up
  BY <1>1, BusyIsUp DEF IInv
<1>3. BatchIdx' = BatchIdx
  <2>1. batch = << >> => Idx(batch) = {}
    BY EmptySeq DEF Idx
  <2>2. Idx(batch)' = Idx(batch)
    BY <1>1 DEF Idx
  <2> QED BY <1>1, <2>1, <2>2 DEF BatchIdx
<1>4. FlushOK' /\ AppendedOK'
  <2>1. appended' = {} /\ (batch = << >> => DOMAIN batch = {})
    BY <1>1, EmptySeq DEF IInv, FlushOK
  <2>2. placement' \in Placement(batch)'
    BY <1>1 DEF Placement
  <2> QED BY <1>1, <2>1, <2>2 DEF FlushOK, AppendedOK
<1>5. Covered(confirmed') /\ Covered(lastXLogPos') /\ Covered(statusPos')
  BY <1>1 DEF IInv, PositionsCovered
<1> QED BY <1>1, <1>2, <1>3, <1>4, <1>5, PositionStep

-----------------------------------------------------------------------------
(* Writes.                                                                 *)

\* A record appended to the topic is later than what is stored for good.
LEMMA AppendKeepsStored ==
  ASSUME TypeOK, QueueOK, FlushOK, AppendRecord
  PROVE  StoredStays
<1> SUFFICES ASSUME NEW i \in DOMAIN feed, Change(i), Stored(i), \A p \in Pending : i < p
             PROVE  Stored(i)'
  BY DEF StoredStays
<1>1. PICK p \in Partitions : topic[p][feed[i].key] >= i
  BY DEF Stored
<1>2. PICK n \in DOMAIN batch \ appended :
        /\ batch[n].idx \in Nat /\ batch[n].idx \in Idx(batch)
        /\ topic'[placement[n]][feed[batch[n].idx].key] = batch[n].idx
        /\ \A q \in Partitions, k \in Keys :
             q # placement[n] \/ k # feed[batch[n].idx].key => topic'[q][k] = topic[q][k]
  BY AppendOne
<1>3. i \in Nat /\ feed[i].key \in Keys /\ feed' = feed
  BY FeedElement, FeedType DEF TypeOK, Change, HasRecord, AppendRecord, streamVars
<1>4. batch[n].idx \in Pending
  BY <1>2 DEF Pending, BatchIdx, AppendRecord
<1>5. topic'[p][feed[i].key] >= i
  BY <1>1, <1>2, <1>3, <1>4
<1> QED BY <1>3, <1>5 DEF Stored

\* A record of the batch is appended: the batch stays pending until all are.
LEMMA AppendRecordInv ==
  ASSUME IInv, TypeOK', AppendRecord
  PROVE  IInv'
<1>a. TypeOK /\ StreamOK /\ QueueOK /\ OrderOK /\ LastAckOK /\ FlushOK /\ Complete
      /\ PositionsCovered /\ UnkeyedOK /\ AppendedOK /\ cursor \in Nat
      /\ batch \in Seq(PendingMessage) /\ DownOK
  BY FeedType DEF IInv, TypeOK
<1>b. /\ flushPC = "write" /\ UNCHANGED <<flushPC, pendingCH, batch, lastAck, placement, unkeyed, up>>
      /\ UNCHANGED <<feed, cursor, startLsn, statusPos, prevMessage, messageCH, lastXLogPos,
                     confirmed>>
  BY DEF AppendRecord, streamVars
<1>c. up /\ lastAck # NoMessage
  BY <1>a, <1>b, BusyIsUp DEF LastAckOK
<1>1. /\ StreamOK' /\ QueueOK' /\ OrderOK' /\ LastAckOK' /\ UnkeyedOK'
      /\ Idx(batch)' = Idx(batch) /\ Idx(pendingCH)' = Idx(pendingCH) /\ InStream' = InStream
  BY <1>a, <1>b, <1>c, MessagesKept
<1>2. Pending' = Pending
  BY <1>b, <1>1 DEF Pending, BatchIdx
<1>3. StoredStays
  BY <1>a, AppendKeepsStored
<1>4. Complete'
  BY <1>a, <1>b, <1>c, <1>2, <1>3, CompleteKept
<1>5. PositionsCovered'
  <2>1. \A l : Covered(l) => Covered(l)'
    BY <1>a, <1>b, <1>2, <1>3, CoveredKept
  <2> QED BY <1>a, <1>b, <2>1, PositionsKept DEF PositionsCovered
<1>6. FlushOK'
  BY <1>a, <1>b DEF FlushOK, Placement
<1>7. AppendedOK'
  <2>1. PICK n \in DOMAIN batch \ appended :
          /\ \A m \in 1 .. (n - 1) : placement[m] = placement[n] => m \in appended
          /\ appended' = appended \cup {n}
          /\ topic'[placement[n]][feed[batch[n].idx].key] = batch[n].idx
          /\ \A p \in Partitions, k \in Keys :
               p # placement[n] \/ k # feed[batch[n].idx].key => topic'[p][k] = topic[p][k]
    BY <1>a, AppendOne
  <2>2. DOMAIN batch = 1 .. Len(batch) /\ Len(batch) \in Nat /\ appended \subseteq DOMAIN batch
    BY <1>a DEF TypeOK
  <2>3. \A m \in DOMAIN batch : placement[m] \in Partitions /\ feed[batch[m].idx].key \in Keys
    BY <1>a, <1>b, PlacementType, BatchElement DEF FlushOK
  <2>4. ASSUME NEW a \in appended'
        PROVE  /\ \A m \in 1 .. (a - 1) : placement[m] = placement[a] => m \in appended'
               /\ \E m \in appended' :
                    /\ placement[m] = placement[a] /\ feed[batch[m].idx].key = feed[batch[a].idx].key
                    /\ a <= m /\ topic'[placement[a]][feed[batch[a].idx].key] = batch[m].idx
    <3>1. CASE a = n
      BY <2>1, <2>2, <3>1
    <3>2. CASE a \in appended
      <4>1. /\ \A m \in 1 .. (a - 1) : placement[m] = placement[a] => m \in appended
            /\ \E m \in appended :
                 /\ placement[m] = placement[a] /\ feed[batch[m].idx].key = feed[batch[a].idx].key
                 /\ a <= m /\ topic[placement[a]][feed[batch[a].idx].key] = batch[m].idx
        BY <1>a, <1>b, <3>2 DEF AppendedOK
      <4>2. CASE placement[a] = placement[n] /\ feed[batch[a].idx].key = feed[batch[n].idx].key
        <5>1. a <= n
          BY <2>1, <2>2, <3>2, <4>1, <4>2
        <5> QED BY <2>1, <4>1, <4>2, <5>1
      <4>3. CASE ~ (placement[a] = placement[n] /\ feed[batch[a].idx].key = feed[batch[n].idx].key)
        BY <2>1, <2>2, <2>3, <3>2, <4>1, <4>3
      <4> QED BY <4>2, <4>3
    <3> QED BY <2>1, <3>1, <3>2
  <2> QED BY <1>b, <2>4 DEF AppendedOK
<1>8. DownOK'
  <2>1. up'
    BY <1>b, <1>c
  <2> QED BY <2>1, Zenon DEF DownOK
<1> QED BY <1>1, <1>4, <1>5, <1>6, <1>7, <1>8 DEF IInv

\* WriteMessages returned nil: the records of the batch are in the topic.
LEMMA WriteBatchInv ==
  ASSUME IInv, TypeOK', WriteBatch
  PROVE  IInv'
<1>a. TypeOK /\ StreamOK /\ QueueOK /\ OrderOK /\ LastAckOK /\ FlushOK /\ Complete
      /\ PositionsCovered /\ UnkeyedOK /\ AppendedOK /\ cursor \in Nat
      /\ batch \in Seq(PendingMessage) /\ DownOK
  BY FeedType DEF IInv, TypeOK
<1>b. /\ flushPC = "write" /\ flushPC' = "ack" /\ appended = DOMAIN batch
      /\ UNCHANGED <<pendingCH, batch, lastAck, unkeyed, up, topic, appended>>
      /\ UNCHANGED <<feed, cursor, startLsn, statusPos, prevMessage, messageCH, lastXLogPos,
                     confirmed>>
  BY DEF WriteBatch, streamVars
<1>c. up /\ lastAck # NoMessage
  BY <1>a, <1>b, BusyIsUp DEF LastAckOK
<1>1. /\ StreamOK' /\ QueueOK' /\ OrderOK' /\ LastAckOK' /\ UnkeyedOK'
      /\ Idx(batch)' = Idx(batch) /\ Idx(pendingCH)' = Idx(pendingCH) /\ InStream' = InStream
  BY <1>a, <1>b, <1>c, MessagesKept
<1>2. /\ Pending = Idx(batch) \cup Idx(pendingCH) \cup InStream
      /\ Pending' = Idx(pendingCH) \cup InStream
  BY <1>b, <1>1 DEF Pending, BatchIdx
<1>3. ASSUME NEW i \in Idx(batch) PROVE Stored(i)'
  <2>1. PICK n \in DOMAIN batch : i = batch[n].idx
    BY DEF Idx
  <2>2. PICK m \in DOMAIN batch :
          n <= m /\ topic[placement[n]][feed[i].key] = batch[m].idx
    BY <1>a, <1>b, <2>1 DEF AppendedOK
  <2>3. i <= batch[m].idx
    <3>1. DOMAIN batch = 1 .. Len(batch) /\ Len(batch) \in Nat
      BY <1>a
    <3>2. batch[n].idx \in Nat /\ batch[m].idx \in Nat
      BY <1>a, BatchElement
    <3>3. n < m => batch[n].idx < batch[m].idx
      BY <1>a DEF OrderOK, Sorted
    <3> QED BY <2>1, <2>2, <3>1, <3>2, <3>3
  <2>4. placement[n] \in Partitions /\ i \in Nat /\ batch[m].idx \in Nat
    BY <1>a, <1>b, <2>1, PlacementType, BatchElement DEF FlushOK
  <2> QED BY <1>b, <2>2, <2>3, <2>4 DEF Stored
<1>4. StoredStays
  BY <1>b, NoWrite
<1>5. Complete'
  <2>1. \A i \in Idx(batch) : \A p \in Pending' : i < p
    BY <1>a, <1>2 DEF OrderOK, Before
  <2>2. \A i \in Pending : i \in Pending' \/ i \in Idx(batch)
    BY <1>2
  <2>3. Pending' \subseteq Pending
    BY <1>2
  <2> QED BY <1>a, <1>b, <1>c, <1>3, <1>4, <2>1, <2>2, <2>3, CompleteKept
<1>6. PositionsCovered'
  <2>1. \A l : Covered(l) => Covered(l)'
    BY <1>a, <1>b, <1>2, <1>4, CoveredKept
  <2> QED BY <1>a, <1>b, <2>1, PositionsKept DEF PositionsCovered
<1>7. FlushOK' /\ AppendedOK'
  BY <1>b DEF FlushOK, AppendedOK
<1>8. DownOK'
  <2>1. up'
    BY <1>b, <1>c
  <2> QED BY <2>1, Zenon DEF DownOK
<1> QED BY <1>1, <1>5, <1>6, <1>7, <1>8 DEF IInv

\* WriteMessages failed: what it appended stays, all of the batch is written again.
LEMMA WriteFailsInv ==
  ASSUME IInv, TypeOK', WriteFails
  PROVE  IInv'
<1>1. /\ UNCHANGED <<feed, cursor, startLsn, prevMessage, messageCH, statusPos, lastXLogPos,
                     confirmed>>
      /\ UNCHANGED <<pendingCH, batch, lastAck, flushPC, topic, unkeyed, up>>
      /\ flushPC = "write" /\ appended' = {} /\ placement' \in Placement(batch)
  BY DEF WriteFails, streamVars
<1>2. up /\ lastAck # NoMessage
  BY <1>1, BusyIsUp DEF IInv, LastAckOK
<1>3. BatchIdx' = BatchIdx
  BY <1>1 DEF BatchIdx, Idx
<1>4. FlushOK' /\ AppendedOK'
  <2>1. placement' \in Placement(batch)'
    BY <1>1 DEF Placement
  <2> QED BY <1>1, <2>1 DEF IInv, FlushOK, AppendedOK
<1>5. Covered(confirmed') /\ Covered(lastXLogPos') /\ Covered(statusPos')
  BY <1>1 DEF IInv, PositionsCovered
<1> QED BY <1>1, <1>2, <1>3, <1>4, <1>5, PositionStep

-----------------------------------------------------------------------------
(* Acknowledgements.                                                       *)

\* The last Ack of a written batch covers nothing that is not in the topic: this
\* is why one Ack per batch is enough, also when it is that of a message without
\* a record.
LEMMA LastAckCovered ==
  ASSUME IInv, up, flushPC \in {"ack", "send"}
  PROVE  Covered(lastAck.lsn)
<1>a. TypeOK /\ StreamTypeOK /\ Complete /\ PositionsCovered /\ LastAckOK
  BY DEF IInv, TypeOK
<1>1. /\ lastAck # NoMessage /\ MessageOK(lastAck)
      /\ Before({lastAck.idx}, Idx(pendingCH) \cup InStream)
  BY <1>a DEF LastAckOK
<1>2. /\ lastAck.idx \in Nat /\ lastAck.idx <= cursor /\ cursor \in Nat
      /\ LsnSafe(lastAck)
  BY <1>a, <1>1, FeedType DEF MessageOK, Received
<1>3. \A p \in Pending : lastAck.idx < p
  BY <1>1 DEF Pending, BatchIdx, Before
<1>4. ASSUME NEW i \in DOMAIN feed, Change(i), feed[i].end <= lastAck.lsn
      PROVE  /\ Stored(i)
             /\ \A p \in Pending : i < p
             /\ i <= cursor \/ Skipped(feed[i])
  <2>1. i <= lastAck.idx /\ i \in Nat /\ i > 0 /\ feed[i].end \in Nat
    BY <1>a, <1>2, <1>4, FeedElement DEF LsnSafe, Change, HasRecord
  <2>2. i <= cursor
    BY <1>2, <2>1
  <2>3. CASE Skipped(feed[i])
    BY <1>a, <1>4, <2>2, <2>3 DEF PositionsCovered, Covered, Skipped
  <2>4. CASE ~ Skipped(feed[i])
    <3>1. i \notin Pending
      BY <1>2, <1>3, <2>1
    <3>2. i \in 1 .. cursor
      BY <1>2, <2>1, <2>2
    <3> QED BY <1>a, <1>4, <2>2, <2>4, <3>1, <3>2 DEF Complete
  <2> QED BY <2>3, <2>4
<1> QED BY <1>4 DEF Covered

\* The Ack of a batch moves lastXLogPos, and then the slot, to a covered position.
LEMMA AckStepInv ==
  ASSUME IInv, TypeOK', AckStep
  PROVE  IInv'
<1>a. /\ Covered(confirmed) /\ Covered(lastXLogPos) /\ Covered(statusPos)
      /\ up /\ flushPC \in {"ack", "send"}
  BY BusyIsUp DEF IInv, PositionsCovered, AckStep, AckUpdate, AckSend
<1>b. UNCHANGED <<feed, cursor, startLsn, statusPos, prevMessage, messageCH, topic, unkeyed, up>>
  BY DEF AckStep
<1>c. lastAck # NoMessage
  BY <1>a DEF IInv, LastAckOK
<1>1. CASE AckUpdate
  <2>1. Covered(lastXLogPos')
    <3>1. Covered(lastAck.lsn)
      BY <1>a, LastAckCovered
    <3> QED BY <1>a, <1>1, <3>1 DEF AckUpdate, UpdateXLogPos
  <2>2. /\ UNCHANGED <<pendingCH, batch, lastAck, confirmed, appended>>
        /\ flushPC = "ack" /\ flushPC' = "send"
    BY <1>1 DEF AckUpdate
  <2>3. BatchIdx' = BatchIdx /\ FlushOK' /\ AppendedOK'
    BY <2>2 DEF BatchIdx, FlushOK, AppendedOK, IInv
  <2> QED BY <1>a, <1>b, <1>c, <2>1, <2>2, <2>3, PositionStep
<1>2. CASE AckSend
  <2>a. TypeOK /\ StreamOK /\ QueueOK /\ OrderOK /\ UnkeyedOK /\ Complete /\ PositionsCovered
        /\ cursor \in Nat
    BY FeedType DEF IInv, TypeOK
  <2>b. /\ UNCHANGED <<pendingCH, lastXLogPos>> /\ flushPC = "send" /\ flushPC' = "collect"
        /\ batch' = << >> /\ lastAck' = NoMessage /\ appended' = {}
        /\ confirmed' = confirmed \/ confirmed' = Confirm(lastXLogPos)
    BY <1>2 DEF AckSend
  <2>1. /\ Idx(batch)' = {} /\ Sorted(batch)' /\ Len(batch') = 0 /\ DOMAIN batch' = {}
        /\ Idx(pendingCH)' = Idx(pendingCH)
    BY <2>b, EmptySeq DEF Idx, Sorted
  <2>2. StreamOK' /\ InStream' = InStream
    BY <1>b, <2>a, StreamKept
  <2>3. Pending' = Pending
    BY <2>b, <2>1, <2>2 DEF Pending, BatchIdx
  <2>4. QueueOK' /\ UnkeyedOK'
    BY <1>b, <2>a, <2>b, <2>1
       DEF QueueOK, UnkeyedOK, HasRecord, MessageOK, Received, LsnSafe, Skipped
  <2>5. OrderOK'
    BY <2>a, <2>b, <2>1, <2>2 DEF OrderOK, Sorted, Before
  <2>6. LastAckOK' /\ FlushOK' /\ AppendedOK'
    BY <2>b, <2>1, KafkaSizes DEF LastAckOK, FlushOK, AppendedOK, NoMessage
  <2>7. StoredStays
    BY <1>b, NoWrite
  <2>8. Complete'
    BY <1>a, <1>b, <2>a, <2>3, <2>7, CompleteKept
  <2>9. PositionsCovered'
    <3>1. \A l : Covered(l) => Covered(l)'
      BY <1>b, <2>a, <2>3, <2>7, CoveredKept
    <3>2. Covered(confirmed') /\ Covered(lastXLogPos') /\ Covered(statusPos')
      BY <1>a, <1>b, <2>b DEF Confirm
    <3> QED BY <1>b, <2>a, <3>1, <3>2, PositionsKept
  <2>10. DownOK'
    <3>1. up'
      BY <1>a, <1>b
    <3> QED BY <3>1, Zenon DEF DownOK
  <2> QED BY <2>2, <2>4, <2>5, <2>6, <2>8, <2>9, <2>10 DEF IInv
<1> QED BY <1>1, <1>2 DEF AckStep

-----------------------------------------------------------------------------
(* Crash and restart.                                                      *)

NothingInMemory ==
  /\ prevMessage = NoMessage /\ messageCH = << >> /\ pendingCH = << >> /\ batch = << >>
  /\ lastAck = NoMessage /\ flushPC = "collect" /\ appended = {}

\* A process without memory satisfies what the invariant says of messages.
LEMMA EmptyMemory ==
  ASSUME NothingInMemory
  PROVE  /\ Pending = {} /\ StreamOK /\ QueueOK /\ OrderOK /\ LastAckOK /\ FlushOK
         /\ UnkeyedOK /\ AppendedOK
<1> USE DEF NothingInMemory
<1>1. /\ Idx(batch) = {} /\ Idx(pendingCH) = {} /\ DOMAIN batch = {} /\ DOMAIN pendingCH = {}
      /\ Sorted(batch) /\ Sorted(pendingCH) /\ Len(batch) = 0
  BY EmptySeq DEF Idx, Sorted
<1>2. StreamOK /\ InStream = {}
  BY EmptyStream
<1>3. Pending = {}
  BY <1>1, <1>2 DEF Pending, BatchIdx
<1>4. QueueOK /\ UnkeyedOK
  BY <1>1 DEF QueueOK, UnkeyedOK
<1>5. OrderOK
  BY <1>1, <1>2 DEF OrderOK, Before
<1>6. LastAckOK /\ FlushOK /\ AppendedOK
  BY <1>1, KafkaSizes DEF LastAckOK, FlushOK, AppendedOK
<1> QED BY <1>2, <1>3, <1>4, <1>5, <1>6

\* The process dies: what was pending is gone, the covered positions stay.
LEMMA DownInv ==
  ASSUME IInv, TypeOK', Down, topic' = topic
  PROVE  IInv'
<1>a. TypeOK /\ StreamTypeOK /\ PositionsCovered /\ cursor \in Nat
  BY FeedType DEF IInv, TypeOK
<1>b. /\ prevMessage' = NoMessage /\ messageCH' = << >> /\ pendingCH' = << >> /\ batch' = << >>
      /\ lastAck' = NoMessage /\ flushPC' = "collect" /\ appended' = {}
      /\ lastXLogPos' = 0 /\ statusPos' = 0
      /\ UNCHANGED <<feed, cursor, startLsn, confirmed>>
  BY DEF Down, StreamDown
<1>c. ~ up'
  BY Zenon DEF Down
<1>1. (/\ Pending = {} /\ StreamOK /\ QueueOK /\ OrderOK /\ LastAckOK /\ FlushOK
       /\ UnkeyedOK /\ AppendedOK)'
  <2>1. NothingInMemory'
    BY <1>b DEF NothingInMemory
  <2> QED BY <2>1, EmptyMemory, PTL
<1>2. Complete'
  BY <1>c DEF Complete
<1>3. DownOK'
  BY <1>b DEF DownOK
<1>4. PositionsCovered'
  <2>1. StoredStays
    BY <1>b, NoWrite
  <2>2. \A l : Covered(l) => Covered(l)'
    BY <1>a, <1>b, <1>1, <2>1, CoveredKept
  <2>3. Covered(0)
    BY <1>a, NoPositionCovered
  <2> QED BY <1>a, <1>b, <2>2, <2>3, PositionsKept DEF PositionsCovered
<1> QED BY <1>1, <1>2, <1>3, <1>4 DEF IInv

\* A new process starts from the confirmed position, below which nothing is lost.
LEMMA RestartInv ==
  ASSUME IInv, TypeOK', Restart
  PROVE  IInv'
<1>a. TypeOK /\ Covered(confirmed) /\ DownOK /\ FlushOK /\ ~ up
  BY DEF IInv, PositionsCovered, Restart
<1>b. /\ cursor' = 0 /\ startLsn' = confirmed /\ confirmed' = confirmed
      /\ UNCHANGED <<feed, statusPos, prevMessage, messageCH, lastXLogPos>>
      /\ UNCHANGED <<pendingCH, batch, lastAck, flushPC, appended, topic>>
  BY DEF Restart, Open, sinkVars
<1>c. /\ prevMessage' = NoMessage /\ messageCH' = << >> /\ pendingCH' = << >> /\ batch' = << >>
      /\ lastAck' = NoMessage /\ flushPC' = "collect" /\ appended' = {}
      /\ lastXLogPos' = 0 /\ statusPos' = 0
  BY <1>a, <1>b DEF DownOK, FlushOK
<1>d. up'
  BY Zenon DEF Restart
<1>1. (/\ Pending = {} /\ StreamOK /\ QueueOK /\ OrderOK /\ LastAckOK /\ FlushOK
       /\ UnkeyedOK /\ AppendedOK)'
  <2>1. NothingInMemory'
    BY <1>c DEF NothingInMemory
  <2> QED BY <2>1, EmptyMemory, PTL
<1>2. Complete'
  <2>1. 1 .. cursor' = {}
    BY <1>b
  <2> QED BY <2>1 DEF Complete
<1>3. DownOK'
  BY <1>d, Zenon DEF DownOK
<1>4. Covered(0)'
  <2>1. StreamTypeOK'
    BY DEF TypeOK
  <2> QED BY <2>1, NoPositionCovered, PTL
<1>5. ASSUME NEW i \in DOMAIN feed, Change(i), feed[i].end <= confirmed
      PROVE  Stored(i) /\ feed[i].end > 0
  BY <1>a, <1>5 DEF Covered, Change
<1>6. Covered(startLsn)' /\ Covered(confirmed)'
  BY <1>b, <1>1, <1>5 DEF Covered, Change, HasRecord, Stored, Skipped
<1>7. PositionsCovered'
  BY <1>c, <1>4, <1>6 DEF PositionsCovered, Covered
<1> QED BY <1>1, <1>2, <1>3, <1>7 DEF IInv

-----------------------------------------------------------------------------
(* The invariant.                                                          *)

\* The invariant holds before anything was received.
LEMMA IInvInit == Init => IInv
<1> SUFFICES ASSUME Init PROVE IInv
  OBVIOUS
<1>1. TypeOK
  BY TypeInit
<1>2. NothingInMemory /\ cursor = 0 /\ startLsn = 0 /\ confirmed = 0 /\ lastXLogPos = 0
      /\ statusPos = 0
  BY DEF Init, StreamInit, SinkMemoryInit, NothingInMemory
<1>3. Covered(0)
  BY <1>1, NoPositionCovered DEF TypeOK
<1>4. Complete
  <2>1. 1 .. cursor = {}
    BY <1>2
  <2> QED BY <2>1 DEF Complete
<1>5. DownOK
  BY <1>2 DEF DownOK, NothingInMemory
<1> QED BY <1>1, <1>2, <1>3, <1>4, <1>5, EmptyMemory DEF IInv, PositionsCovered

\* Every step keeps the invariant.
LEMMA IInvNext ==
  ASSUME IInv, [Next]_vars
  PROVE  IInv'
<1>a. TypeOK'
  BY TypeNext DEF IInv
<1>1. CASE SinkStep
  BY <1>1, <1>a, SinkReceiveInv, SinkStatusInv DEF SinkStep
<1>2. CASE Handler
  BY <1>2, <1>a, HandlerInv
<1>3. CASE FlushStep
  BY <1>3, <1>a, TakeBatchInv, TickInv DEF FlushStep
<1>4. CASE WriteBatch
  BY <1>4, <1>a, WriteBatchInv
<1>5. CASE WriteFails
  BY <1>5, <1>a, WriteFailsInv
<1>11. CASE AppendRecord
  BY <1>11, <1>a, AppendRecordInv
<1>6. CASE GiveUp
  BY <1>6, <1>a, DownInv DEF GiveUp
<1>7. CASE AckStep
  BY <1>7, <1>a, AckStepInv
<1>8. CASE Crash
  BY <1>8, <1>a, DownInv DEF Crash
<1>9. CASE Restart
  BY <1>9, <1>a, RestartInv
<1>10. CASE UNCHANGED vars
  <2>1. /\ UNCHANGED <<feed, cursor, startLsn, prevMessage, messageCH, pendingCH, batch, lastAck,
                       unkeyed, topic, up, flushPC, placement, appended, confirmed, lastXLogPos, statusPos>>
    BY <1>10 DEF vars, streamVars, sinkVars
  <2>2. CASE up
    <3>1. BatchIdx' = BatchIdx /\ FlushOK' /\ AppendedOK'
      BY <2>1 DEF IInv, BatchIdx, FlushOK, AppendedOK, Placement, Idx
    <3>2. flushPC' # "collect" => lastAck # NoMessage
      BY <2>1 DEF IInv, LastAckOK
    <3>3. Covered(confirmed') /\ Covered(lastXLogPos') /\ Covered(statusPos')
      BY <2>1 DEF IInv, PositionsCovered
    <3> QED BY <1>a, <2>1, <2>2, <3>1, <3>2, <3>3, PositionStep
  <2>3. CASE ~ up
    <3>1. NothingInMemory
      BY <2>3 DEF IInv, DownOK, FlushOK, NothingInMemory
    <3>2. NothingInMemory'
      BY <2>1, <3>1 DEF NothingInMemory
    <3>3. (/\ Pending = {} /\ StreamOK /\ QueueOK /\ OrderOK /\ LastAckOK /\ FlushOK
           /\ UnkeyedOK /\ AppendedOK)'
      BY <3>2, EmptyMemory, PTL
    <3>4. TypeOK /\ PositionsCovered /\ cursor \in Nat /\ StoredStays
      BY <2>1, NoWrite, FeedType DEF IInv, TypeOK
    <3>5. \A l : Covered(l) => Covered(l)'
      BY <2>1, <3>3, <3>4, CoveredKept
    <3>6. PositionsCovered'
      BY <2>1, <3>4, <3>5, PositionsKept DEF PositionsCovered
    <3>7. Complete' /\ DownOK'
      <4>1. ~ up'
        BY <2>1, <2>3
      <4>2. Complete'
        BY <4>1 DEF Complete
      <4>3. DownOK'
        BY <2>1, <2>3 DEF IInv, DownOK
      <4> QED BY <4>2, <4>3
    <3> QED BY <1>a, <3>3, <3>6, <3>7 DEF IInv
  <2> QED BY <2>2, <2>3
<1> QED BY <1>1, <1>2, <1>3, <1>4, <1>5, <1>6, <1>7, <1>8, <1>9, <1>10, <1>11 DEF Next

\* IInv is an invariant of the Kafka sink: order is kept from the sink goroutine to
\* the batch, nothing received is forgotten, and no position in memory or at the
\* server covers a change that is not in the topic.
THEOREM KafkaInvariant == Spec => []IInv
<1>1. Init => IInv
  BY IInvInit
<1>2. IInv /\ [Next]_vars => IInv'
  BY IInvNext
<1> QED BY <1>1, <1>2, PTL DEF Spec

\* The state is well typed; in particular no channel and no batch exceeds its
\* capacity, and writeKafkaBatch never goes beyond its last attempt.
THEOREM KafkaTypeCorrect == Spec => []TypeOK
<1>1. IInv => TypeOK
  BY DEF IInv
<1> QED BY <1>1, KafkaInvariant, PTL

\* No change that the replication slot was told to be done is missing from the
\* topic, whatever is retried, given up, or lost in a crash.
THEOREM KafkaConfirmedStored == Spec => []ConfirmedStored
<1>1. IInv => ConfirmedStored
  BY DEF IInv, PositionsCovered, Covered, Stored, ConfirmedStored
<1> QED BY <1>1, KafkaInvariant, PTL

-----------------------------------------------------------------------------
(* The changes of one row, on the partition of its key.                    *)

RowChange(k, i) == i \in DOMAIN feed /\ Change(i) /\ feed[i].key = k

\* The changes of the abstract log of row k are those of the feed.
LEMMA RowChanges ==
  ASSUME NEW k \in Keys
  PROVE  R(k)!Changes = {i \in DOMAIN feed : RowChange(k, i)}
BY DEF R!Changes, RowChange, Change, HasRecord

\* The records of row k in the batch that the current attempt has still to append.
RowBatch(k) ==
  {batch[n].idx : n \in {m \in DOMAIN batch \ appended : feed[batch[m].idx].key = k}}

RowPending(k) == RowBatch(k) \cup Idx(pendingCH) \cup InStream

\* PendingFor by the places a message passes through.
LEMMA PendingForIs ==
  ASSUME TypeOK
  PROVE  \A k \in Keys : PendingFor(k) = RowPending(k)
<1>1. {prevMessage.idx} \ {0} = PrevIdx
  <2>1. CASE prevMessage = NoMessage
    BY <2>1 DEF PrevIdx, NoMessage
  <2>2. CASE prevMessage # NoMessage
    <3>1. prevMessage.idx # 0
      BY <2>2, MessageType DEF TypeOK, StreamTypeOK
    <3> QED BY <2>2, <3>1 DEF PrevIdx
  <2> QED BY <2>1, <2>2
<1>2. {m.idx : m \in Range(messageCH) \cup Range(pendingCH)} = Idx(messageCH) \cup Idx(pendingCH)
  BY DEF Range, Idx
<1> QED BY <1>1, <1>2 DEF PendingFor, RowBatch, RowPending, InStream

\* Of the batch only what is pending is left to append; and before the first record
\* is appended all records of the row are.
LEMMA RowBatchIs ==
  ASSUME TypeOK, FlushOK, NEW k \in Keys
  PROVE  /\ RowBatch(k) \subseteq BatchIdx /\ BatchIdx \subseteq Idx(batch)
         /\ appended = {} => \A i : RowChange(k, i) /\ i \in Idx(batch) => i \in RowBatch(k)
<1>1. RowBatch(k) \subseteq Idx(batch) /\ (appended = DOMAIN batch => RowBatch(k) = {})
  BY DEF RowBatch, Idx
<1>2. flushPC \in {"ack", "send"} => appended = DOMAIN batch
  BY DEF FlushOK
<1>3. appended = {} => \A i : RowChange(k, i) /\ i \in Idx(batch) => i \in RowBatch(k)
  BY DEF RowBatch, RowChange, Idx
<1> QED BY <1>1, <1>2, <1>3 DEF BatchIdx

\* The records of a row with keys are appended in their order.
LEMMA RowInOrder ==
  ASSUME IInv, NEW k \in Keys, k \notin unkeyed, NEW i \in Idx(batch), RowChange(k, i),
         i \notin RowBatch(k)
  PROVE  \A p \in RowBatch(k) : i < p
<1>a. TypeOK /\ FlushOK /\ UnkeyedOK /\ AppendedOK /\ OrderOK /\ batch \in Seq(PendingMessage)
  BY DEF IInv, TypeOK
<1>b. DOMAIN batch = 1 .. Len(batch) /\ Len(batch) \in Nat /\ appended \subseteq DOMAIN batch
  BY <1>a DEF TypeOK
<1> SUFFICES ASSUME NEW p \in RowBatch(k) PROVE i < p
  OBVIOUS
<1>1. PICK m \in DOMAIN batch \ appended : p = batch[m].idx /\ feed[batch[m].idx].key = k
  BY DEF RowBatch
<1>2. PICK n \in DOMAIN batch : i = batch[n].idx
  BY DEF Idx
<1>3. n \in appended /\ feed[batch[n].idx].key = k
  BY <1>2 DEF RowBatch, RowChange
<1>4. flushPC = "write"
  BY <1>a, <1>1, <1>3 DEF FlushOK, TypeOK
<1>5. placement[m] = PartitionOf[k] /\ placement[n] = PartitionOf[k]
  BY <1>a, <1>1, <1>3, <1>4 DEF FlushOK, Placement, UnkeyedOK
<1>6. n < m
  BY <1>a, <1>b, <1>1, <1>3, <1>4, <1>5 DEF AppendedOK
<1> QED BY <1>a, <1>1, <1>2, <1>6 DEF OrderOK, Sorted

\* While the process runs, a change is done when the session left it out or when
\* it was received and is no longer pending.
DoneIs ==
  \A k \in Keys \ unkeyed :
    /\ \A i \in DoneFor(k) : RowChange(k, i)
    /\ \A i \in DOMAIN feed :
         RowChange(k, i) =>
           (i \in DoneFor(k) <=> Skipped(feed[i]) \/ (i <= cursor /\ i \notin RowPending(k)))

\* DoneIs follows from the invariant: what is not pending is older than all that is.
LEMMA DoneUp ==
  ASSUME IInv, up
  PROVE  DoneIs
<1>a. TypeOK /\ StreamOK /\ QueueOK /\ OrderOK /\ Complete /\ StreamTypeOK /\ FlushOK
  BY DEF IInv, TypeOK
<1> SUFFICES ASSUME NEW k \in Keys, k \notin unkeyed, NEW i \in DOMAIN feed, RowChange(k, i)
             PROVE  i \in DoneFor(k) <=>
                      Skipped(feed[i]) \/ (i <= cursor /\ i \notin RowPending(k))
  BY DEF DoneIs, DoneFor, RowChange
<1>1. i \in Nat /\ i > 0 /\ cursor \in Nat
  BY <1>a, FeedElement, FeedType
<1>2. i \in RowPending(k) => ~ (\A p \in RowPending(k) : i < p)
  BY <1>1
<1>3. ASSUME i <= cursor, i \notin RowPending(k), ~ Skipped(feed[i])
      PROVE  \A p \in RowPending(k) : i < p
  <2>1. i \in Pending \/ \A p \in Pending : i < p
    BY <1>a, <1>1, <1>3 DEF Complete, RowChange
  <2>2. RowPending(k) \subseteq Pending /\ Pending \subseteq Idx(batch) \cup RowPending(k)
    BY <1>a, RowBatchIs DEF Pending, RowPending
  <2>3. CASE i \in Idx(batch)
    <3>1. \A p \in RowBatch(k) : i < p
      BY <1>3, <2>3, RowInOrder DEF RowPending
    <3>2. \A p \in Idx(pendingCH) \cup InStream : i < p
      BY <1>a, <2>3 DEF OrderOK, Before
    <3> QED BY <3>1, <3>2 DEF RowPending
  <2> QED BY <1>3, <2>1, <2>2, <2>3
<1>4. i \in DoneFor(k) <=> Skipped(feed[i]) \/ (i <= cursor /\ \A p \in RowPending(k) : i < p)
  BY <1>a, PendingForIs DEF DoneFor, RowChange
<1> QED BY <1>2, <1>3, <1>4

\* What is done of row k stays as it is when the received changes of the row that
\* are pending stay so, no other becomes pending, and what is received in the step
\* is pending after it.
LEMMA DoneKept ==
  ASSUME IInv, IInv', up, up', feed' = feed, startLsn' = startLsn,
         cursor' \in Nat, cursor <= cursor', NEW k \in Keys, k \notin unkeyed, k \notin unkeyed',
         \A i \in DOMAIN feed : RowChange(k, i) /\ i <= cursor =>
                                  (i \in RowPending(k)' <=> i \in RowPending(k)),
         \A i \in DOMAIN feed : RowChange(k, i) /\ i > cursor /\ i <= cursor' =>
                                  i \in RowPending(k)' \/ Skipped(feed[i])
  PROVE  DoneFor(k)' = DoneFor(k)
<1>1. cursor \in Nat /\ \A i \in DOMAIN feed : i \in Nat
  BY FeedType, FeedElement DEF IInv, TypeOK
<1>2. DoneIs
  BY DoneUp
<1>3. DoneIs'
  BY DoneUp, PTL
<1>4. \A i : RowChange(k, i)' <=> RowChange(k, i)
  BY DEF RowChange, Change, HasRecord
<1>5. ASSUME NEW i \in DOMAIN feed, RowChange(k, i)
      PROVE  i \in DoneFor(k)' <=> i \in DoneFor(k)
  <2>1. i \in DoneFor(k) <=> Skipped(feed[i]) \/ (i <= cursor /\ i \notin RowPending(k))
    BY <1>2, <1>5 DEF DoneIs
  <2>2. i \in DoneFor(k)' <=> Skipped(feed[i])' \/ (i <= cursor' /\ i \notin RowPending(k)')
    BY <1>3, <1>4, <1>5 DEF DoneIs
  <2>3. Skipped(feed[i])' <=> Skipped(feed[i])
    BY DEF Skipped
  <2> QED BY <1>1, <1>5, <2>1, <2>2, <2>3
<1>6. /\ \A i \in DoneFor(k) : RowChange(k, i)
      /\ \A i \in DoneFor(k)' : RowChange(k, i)
  BY <1>2, <1>3, <1>4 DEF DoneIs
<1>7. \A i : RowChange(k, i) => i \in DOMAIN feed
  BY DEF RowChange
<1> QED BY <1>5, <1>6, <1>7

-----------------------------------------------------------------------------
(* Every step, seen from one row.                                          *)

\* A step that Replication does not see.
LEMMA RowStutter ==
  ASSUME NEW k \in Keys, UNCHANGED <<feed, DoneFor(k), confirmed>>,
         topic'[PartitionOf[k]][k] = topic[PartitionOf[k]][k]
  PROVE  UNCHANGED R(k)!vars
BY DEF R!vars

\* The same, for a step that moves messages on.
LEMMA RowMoves ==
  ASSUME IInv, IInv', up, up', NEW k \in Keys, k \notin unkeyed, k \notin unkeyed',
         UNCHANGED <<feed, startLsn, cursor, confirmed>>,
         topic'[PartitionOf[k]][k] = topic[PartitionOf[k]][k],
         \A i \in DOMAIN feed : RowChange(k, i) =>
                                  (i \in RowPending(k)' <=> i \in RowPending(k))
  PROVE  UNCHANGED R(k)!vars
<1>1. cursor \in Nat /\ \A i \in DOMAIN feed : i \in Nat
  BY FeedType, FeedElement DEF IInv, TypeOK
<1>2. DoneFor(k)' = DoneFor(k)
  BY <1>1, DoneKept
<1> QED BY <1>2, RowStutter

\* A status update confirms only what is done.
LEMMA RowConfirm ==
  ASSUME IInv, NEW k \in Keys, up, UNCHANGED <<feed, DoneFor(k), topic>>,
         confirmed' \in Nat, Covered(confirmed')
  PROVE  R(k)!Confirm
<1>1. \A i \in DOMAIN feed : RowChange(k, i) /\ feed[i].end <= confirmed' => i \in DoneFor(k)
  <2> SUFFICES ASSUME NEW i \in DOMAIN feed, RowChange(k, i), feed[i].end <= confirmed'
               PROVE  i \in DoneFor(k)
    OBVIOUS
  <2>1. (\A p \in Pending : i < p) /\ (i <= cursor \/ Skipped(feed[i]))
    BY DEF Covered, RowChange
  <2>2. PendingFor(k) \subseteq Pending
    BY PendingForIs, RowBatchIs DEF IInv, Pending, RowPending
  <2> QED BY <2>1, <2>2 DEF DoneFor, RowChange
<1>2. R(k)!UpTo(confirmed') \subseteq DoneFor(k)
  BY <1>1, RowChanges DEF R!UpTo
<1> QED BY <1>2 DEF R!Confirm

\* Whatever the sink receives is pending, or no change of the row.
LEMMA RowReceive ==
  ASSUME IInv, IInv', NEW k \in Keys, k \notin unkeyed', up, SinkReceive,
         UNCHANGED <<sinkVars, topic, unkeyed, up, countVars>>
  PROVE  UNCHANGED R(k)!vars
<1>a. TypeOK /\ StreamOK /\ StreamTypeOK /\ TypeOK' /\ StreamTypeOK'
  BY DEF IInv, TypeOK
<1>b. UNCHANGED <<pendingCH, batch, appended, topic, up, unkeyed>>
  BY DEF sinkVars
<1>c. /\ feed' = feed /\ startLsn' = startLsn /\ confirmed' = confirmed
      /\ cursor \in Nat /\ cursor' \in Nat /\ cursor < cursor'
      /\ InStream \subseteq InStream'
      /\ \A p \in InStream' : p \in InStream \/ (p \in DOMAIN feed /\ p > cursor)
      /\ \A j \in DOMAIN feed : feed[j].tag = "dml" /\ j > cursor /\ j <= cursor' =>
           j \in InStream' \/ Skipped(feed[j])
  BY <1>a, ReceiveInv
<1>1. RowBatch(k)' = RowBatch(k) /\ Idx(pendingCH)' = Idx(pendingCH)
  BY <1>b, <1>c DEF RowBatch, Idx
<1>2. \A i \in DOMAIN feed : i \in Nat
  BY <1>a, FeedElement
<1>3. /\ \A i \in DOMAIN feed : i <= cursor => (i \in RowPending(k)' <=> i \in RowPending(k))
      /\ \A i \in DOMAIN feed : RowChange(k, i) /\ i > cursor /\ i <= cursor' =>
           i \in RowPending(k)' \/ Skipped(feed[i])
  BY <1>c, <1>1, <1>2 DEF RowPending, RowChange, Change, HasRecord
<1>4. DoneFor(k)' = DoneFor(k)
  BY <1>b, <1>c, <1>3, DoneKept
<1> QED BY <1>b, <1>c, <1>4, RowStutter

\* Handler moves a message from one channel to the next.
LEMMA RowHandler ==
  ASSUME IInv, IInv', NEW k \in Keys, k \notin unkeyed, k \notin unkeyed', Handler
  PROVE  UNCHANGED R(k)!vars
<1> DEFINE m == Head(messageCH)
<1>a. TypeOK /\ StreamTypeOK /\ StreamOK /\ pendingCH \in Seq(PendingMessage) /\ DownOK
  BY DEF IInv, TypeOK
<1>b. PICK keyed \in BOOLEAN :
        pendingCH' = Append(pendingCH, [idx |-> m.idx, lsn |-> m.lsn, keyed |-> keyed])
  BY DEF Handler
<1> DEFINE e == [idx |-> m.idx, lsn |-> m.lsn, keyed |-> keyed]
<1>c. /\ messageCH # << >> /\ messageCH' = Tail(messageCH)
      /\ UNCHANGED <<batch, appended, topic>>
      /\ UNCHANGED <<feed, cursor, startLsn, prevMessage, confirmed, up>>
  BY DEF Handler
<1>d. up
  BY <1>a, <1>c, BusyIsUp
<1>e. m \in Message /\ InStream = InStream' \cup {m.idx}
  BY <1>a, <1>c, TakeInv
<1> HIDE DEF m
<1>f. e \in PendingMessage /\ e.idx = m.idx /\ pendingCH' = Append(pendingCH, e)
  BY <1>b, <1>e DEF Message, PendingMessage
<1> HIDE DEF e
<1>1. Idx(pendingCH)' = Idx(pendingCH) \cup {m.idx}
  <2>1. Idx(Append(pendingCH, e)) = Idx(pendingCH) \cup {e.idx}
    BY <1>a, <1>f, IdxAppend
  <2> QED BY <1>f, <2>1 DEF Idx
<1>2. RowPending(k)' = RowPending(k)
  BY <1>c, <1>e, <1>1 DEF RowPending, RowBatch, Idx
<1> QED BY <1>c, <1>d, <1>2, RowMoves

\* flushWorker takes a message into the batch; only one without a record is dropped.
LEMMA RowTake ==
  ASSUME IInv, IInv', NEW k \in Keys, k \notin unkeyed', Take,
         UNCHANGED <<streamVars, topic, unkeyed, up, countVars>>
  PROVE  UNCHANGED R(k)!vars
<1> DEFINE m == Head(pendingCH)
<1>a. /\ TypeOK /\ StreamTypeOK /\ StreamOK /\ FlushOK /\ DownOK /\ TypeOK' /\ FlushOK'
      /\ pendingCH \in Seq(PendingMessage) /\ batch \in Seq(PendingMessage)
  BY DEF IInv, TypeOK
<1>b. /\ flushPC = "collect" /\ pendingCH # << >> /\ pendingCH' = Tail(pendingCH)
      /\ batch' = IF HasRecord(m.idx) THEN Append(batch, m) ELSE batch
      /\ appended' = appended
  BY DEF Take
<1>c. UNCHANGED <<feed, cursor, startLsn, prevMessage, messageCH, confirmed, topic, up, unkeyed>>
  BY DEF streamVars
<1>d. up /\ appended = {}
  BY <1>a, <1>b, BusyIsUp DEF FlushOK
<1>e. m \in PendingMessage /\ Idx(pendingCH) = Idx(Tail(pendingCH)) \cup {m.idx}
  BY <1>a, <1>b, IdxTail
<1> HIDE DEF m
<1>1. /\ Idx(pendingCH)' = Idx(Tail(pendingCH)) /\ InStream' = InStream
      /\ HasRecord(m.idx) => Idx(batch)' = Idx(batch) \cup {m.idx}
      /\ ~ HasRecord(m.idx) => Idx(batch)' = Idx(batch)
  <2>1. Idx(Append(batch, m)) = Idx(batch) \cup {m.idx}
    BY <1>a, <1>e, IdxAppend
  <2>2. InStream' = InStream
    BY <1>a, <1>c, StreamKept
  <2> QED BY <1>b, <2>1, <2>2 DEF Idx
<1>2. \A i : RowChange(k, i) => /\ i \in RowBatch(k) <=> i \in Idx(batch)
                                /\ i \in RowBatch(k)' <=> i \in Idx(batch)'
  <2>1. RowBatch(k) \subseteq Idx(batch) /\ RowBatch(k)' \subseteq Idx(batch)'
    BY DEF RowBatch, Idx
  <2>2. \A i : RowChange(k, i) /\ i \in Idx(batch) => i \in RowBatch(k)
    BY <1>d DEF RowBatch, RowChange, Idx
  <2>3. \A i : RowChange(k, i) /\ i \in Idx(batch)' => i \in RowBatch(k)'
    BY <1>b, <1>c, <1>d DEF RowBatch, RowChange, Idx
  <2> QED BY <2>1, <2>2, <2>3
<1>3. \A i \in DOMAIN feed : RowChange(k, i) =>
        (i \in RowPending(k)' <=> i \in RowPending(k))
  BY <1>e, <1>1, <1>2 DEF RowPending, RowChange, Change
<1> QED BY <1>c, <1>d, <1>3, RowMoves

\* The ticker starts a flush, or WriteMessages has appended the whole batch.
LEMMA RowFlush ==
  ASSUME IInv, IInv', NEW k \in Keys, k \notin unkeyed',
         \/ Tick /\ UNCHANGED <<streamVars, topic, unkeyed, up, countVars>>
         \/ WriteBatch
  PROVE  UNCHANGED R(k)!vars
<1>a. StreamOK /\ DownOK
  BY DEF IInv
<1>b. lastAck # NoMessage \/ flushPC # "collect"
  BY DEF Tick, WriteBatch
<1>c. /\ UNCHANGED <<pendingCH, batch, appended, topic, up, unkeyed>>
      /\ UNCHANGED <<feed, cursor, startLsn, prevMessage, messageCH, confirmed>>
  BY DEF Tick, WriteBatch, streamVars
<1>d. up
  BY <1>a, <1>b, BusyIsUp
<1>1. Idx(pendingCH)' = Idx(pendingCH) /\ RowBatch(k)' = RowBatch(k)
  BY <1>c DEF Idx, RowBatch
<1>2. InStream' = InStream
  BY <1>a, <1>c, StreamKept
<1>3. RowPending(k)' = RowPending(k)
  BY <1>1, <1>2 DEF RowPending
<1> QED BY <1>c, <1>d, <1>3, RowMoves

\* A record of another row is appended.
LEMMA RowAppendOther ==
  ASSUME IInv, IInv', NEW k \in Keys, k \notin unkeyed', AppendRecord,
         NEW n \in DOMAIN batch \ appended, appended' = appended \cup {n},
         feed[batch[n].idx].key # k,
         topic'[PartitionOf[k]][k] = topic[PartitionOf[k]][k]
  PROVE  UNCHANGED R(k)!vars
<1>a. StreamOK /\ DownOK
  BY DEF IInv
<1>b. /\ flushPC = "write" /\ UNCHANGED <<pendingCH, batch, up, unkeyed>>
      /\ UNCHANGED <<feed, cursor, startLsn, prevMessage, messageCH, confirmed>>
  BY DEF AppendRecord, streamVars
<1>c. up
  BY <1>a, <1>b, BusyIsUp
<1>1. Idx(pendingCH)' = Idx(pendingCH) /\ RowBatch(k)' = RowBatch(k)
  BY <1>b DEF Idx, RowBatch
<1>2. InStream' = InStream
  BY <1>a, <1>b, StreamKept
<1>3. RowPending(k)' = RowPending(k)
  BY <1>1, <1>2 DEF RowPending
<1> QED BY <1>b, <1>c, <1>3, RowMoves

\* A record of the row is appended: everything of the row before it is done.
LEMMA RowAppend ==
  ASSUME IInv, IInv', NEW k \in Keys, k \notin unkeyed', AppendRecord,
         NEW n \in DOMAIN batch \ appended, appended' = appended \cup {n},
         feed[batch[n].idx].key = k,
         \A m \in 1 .. (n - 1) : placement[m] = placement[n] => m \in appended,
         topic'[PartitionOf[k]][k] = batch[n].idx
  PROVE  \E j \in DOMAIN feed : R(k)!Deliver(j)
<1>a. /\ TypeOK /\ StreamTypeOK /\ StreamOK /\ QueueOK /\ OrderOK /\ UnkeyedOK /\ FlushOK
      /\ DownOK /\ batch \in Seq(PendingMessage)
  BY DEF IInv, TypeOK
<1>b. /\ flushPC = "write" /\ UNCHANGED <<pendingCH, batch, up, unkeyed>>
      /\ UNCHANGED <<feed, cursor, startLsn, prevMessage, messageCH, confirmed>>
  BY DEF AppendRecord, streamVars
<1>c. up /\ up' /\ k \notin unkeyed
  BY <1>a, <1>b, BusyIsUp
<1>d. InStream' = InStream /\ Idx(pendingCH)' = Idx(pendingCH)
  BY <1>a, <1>b, StreamKept DEF Idx
<1>e. DOMAIN batch = 1 .. Len(batch) /\ Len(batch) \in Nat
  BY <1>a
<1>j. PICK j \in DOMAIN feed : j = batch[n].idx
  BY <1>a, BatchElement
<1> DEFINE D == {i \in R(k)!Changes \ DoneFor(k) : i <= j}
<1>1. DoneIs
  BY <1>c, DoneUp
<1>2. DoneIs'
  BY <1>c, DoneUp, PTL
<1>3. /\ j \in DOMAIN feed /\ j \in 1 .. cursor /\ j \in Nat /\ RowChange(k, j)
      /\ j \in Idx(batch) /\ ~ Skipped(feed[j])
  BY <1>a, <1>j, BatchElement DEF RowChange, QueueOK, Received
<1>4. cursor \in Nat /\ \A i \in DOMAIN feed : i \in Nat
  BY <1>a, FeedType, FeedElement
<1>5. \A i : RowChange(k, i)' <=> RowChange(k, i)
  BY <1>b DEF RowChange, Change, HasRecord
<1>6. \A q \in Idx(pendingCH) \cup InStream : j < q
  BY <1>a, <1>3 DEF OrderOK, Before
<1>7. \A q \in RowBatch(k) : j <= q
  <2> SUFFICES ASSUME NEW q \in RowBatch(k) PROVE j <= q
    OBVIOUS
  <2>1. PICK m \in DOMAIN batch \ appended : q = batch[m].idx /\ feed[batch[m].idx].key = k
    BY DEF RowBatch
  <2>2. placement[m] = PartitionOf[k] /\ placement[n] = PartitionOf[k]
    BY <1>a, <1>b, <1>c, <2>1 DEF FlushOK, Placement, UnkeyedOK
  <2>3. n <= m
    BY <1>e, <2>1, <2>2
  <2>4. n < m => j < q
    BY <1>a, <1>j, <2>1 DEF OrderOK, Sorted
  <2>5. q \in Nat
    BY <1>a, <2>1, BatchElement
  <2> QED BY <1>e, <1>j, <1>3, <2>1, <2>3, <2>4, <2>5
<1>8. \A q : q \in RowBatch(k)' <=> q \in RowBatch(k) /\ q # j
  <2>1. \A q : q \in RowBatch(k)' <=>
          \E m \in DOMAIN batch \ (appended \cup {n}) : q = batch[m].idx /\ feed[batch[m].idx].key = k
    BY <1>b DEF RowBatch
  <2>2. \A q : q \in RowBatch(k) <=>
          \E m \in DOMAIN batch \ appended : q = batch[m].idx /\ feed[batch[m].idx].key = k
    BY DEF RowBatch
  <2>3. \A m \in DOMAIN batch : batch[m].idx = j => m = n
    <3>1. \A m \in DOMAIN batch : batch[m].idx \in Nat
      BY <1>a, BatchElement
    <3>2. \A m \in DOMAIN batch :
            (m < n => batch[m].idx < batch[n].idx) /\ (n < m => batch[n].idx < batch[m].idx)
      BY <1>a DEF OrderOK, Sorted
    <3> QED BY <1>e, <1>j, <3>1, <3>2
  <2> QED BY <1>j, <2>1, <2>2, <2>3
<1>9. j \in RowBatch(k)
  BY <1>j DEF RowBatch
<1>10. \A q : q \in RowPending(k)' <=> q \in RowPending(k) /\ q # j
  BY <1>d, <1>3, <1>6, <1>8 DEF RowPending
<1>11. \A i \in DOMAIN feed : RowChange(k, i) =>
         (i \in DoneFor(k) <=> Skipped(feed[i]) \/ (i <= cursor /\ i \notin RowPending(k)))
  BY <1>1, <1>c DEF DoneIs
<1>12. \A i \in DOMAIN feed : RowChange(k, i) =>
         (i \in DoneFor(k)' <=> Skipped(feed[i]) \/ (i <= cursor /\ i \notin RowPending(k)'))
  <2>1. \A i : Skipped(feed[i])' <=> Skipped(feed[i])
    BY <1>b DEF Skipped
  <2> QED BY <1>b, <1>2, <1>5, <2>1 DEF DoneIs
<1>13. /\ \A i \in DoneFor(k) : RowChange(k, i)
       /\ \A i \in DoneFor(k)' : RowChange(k, i)
       /\ \A i : RowChange(k, i) => i \in DOMAIN feed
  BY <1>1, <1>2, <1>5, <1>c DEF DoneIs, RowChange
<1>14. D = {j}
  <2>1. ASSUME NEW i, RowChange(k, i), i \notin DoneFor(k), i <= j PROVE i = j
    <3>1. i \in RowPending(k) /\ i \in Nat
      BY <1>3, <1>4, <1>11, <1>13, <2>1
    <3> QED BY <1>3, <1>6, <1>7, <2>1, <3>1 DEF RowPending
  <2>2. j \notin DoneFor(k)
    BY <1>3, <1>9, <1>11 DEF RowPending
  <2>3. \A i : i \in D <=> RowChange(k, i) /\ i \notin DoneFor(k) /\ i <= j
    BY <1>13, RowChanges
  <2> HIDE DEF D
  <2> QED BY <1>3, <2>1, <2>2, <2>3
<1>15. DoneFor(k)' = DoneFor(k) \cup {j}
  <2>1. \A i : RowChange(k, i) => (i \in DoneFor(k)' <=> i \in DoneFor(k) \/ i = j)
    BY <1>3, <1>10, <1>11, <1>12, <1>13
  <2> QED BY <1>3, <1>13, <2>1
<1>16. R(k)!Write({j})
  BY <1>j, <1>3 DEF R!Write, RowChange
<1>17. R(k)!Deliver(j)
  BY <1>b, <1>14, <1>15, <1>16 DEF R!Deliver
<1> QED BY <1>3, <1>17

\* WriteMessages failed: from the first record of the batch on, all is done again.
LEMMA RowFails ==
  ASSUME IInv, IInv', NEW k \in Keys, k \notin unkeyed', WriteFails
  PROVE  \E j \in DOMAIN feed : R(k)!Repeat(j)
<1> DEFINE j == batch[1].idx
<1>a. /\ TypeOK /\ StreamTypeOK /\ StreamOK /\ QueueOK /\ OrderOK /\ FlushOK /\ Complete
      /\ PositionsCovered /\ DownOK /\ batch \in Seq(PendingMessage)
  BY DEF IInv, TypeOK
<1>b. /\ flushPC = "write" /\ UNCHANGED <<pendingCH, batch, up, unkeyed, topic>> /\ appended' = {}
      /\ UNCHANGED <<feed, cursor, startLsn, prevMessage, messageCH, confirmed>>
  BY DEF WriteFails, streamVars
<1>c. up /\ up' /\ k \notin unkeyed
  BY <1>a, <1>b, BusyIsUp
<1>d. InStream' = InStream /\ Idx(pendingCH)' = Idx(pendingCH)
  BY <1>a, <1>b, StreamKept DEF Idx
<1>e. DOMAIN batch = 1 .. Len(batch) /\ Len(batch) \in Nat /\ 1 \in DOMAIN batch
  BY <1>a, <1>b DEF FlushOK
<1>1. DoneIs
  BY <1>c, DoneUp
<1>2. DoneIs'
  BY <1>c, DoneUp, PTL
<1>3. /\ j \in DOMAIN feed /\ j \in 1 .. cursor /\ j \in Nat
      /\ j \in Idx(batch) /\ ~ Skipped(feed[j])
  BY <1>a, <1>e, BatchElement DEF QueueOK, Received
<1>4. cursor \in Nat /\ \A i \in DOMAIN feed : i \in Nat
  BY <1>a, FeedType, FeedElement
<1>5. \A i : RowChange(k, i)' <=> RowChange(k, i)
  BY <1>b DEF RowChange, Change, HasRecord
<1>6. \A q \in Idx(batch) : j <= q /\ q \in Nat
  <2> SUFFICES ASSUME NEW m \in DOMAIN batch PROVE j <= batch[m].idx /\ batch[m].idx \in Nat
    BY DEF Idx
  <2>1. batch[m].idx \in Nat
    BY <1>a, BatchElement
  <2>2. 1 < m => j < batch[m].idx
    BY <1>a, <1>e DEF OrderOK, Sorted
  <2> QED BY <1>e, <1>3, <2>1, <2>2
<1> HIDE DEF j
<1>7. \A q \in Idx(pendingCH) \cup InStream : j < q
  BY <1>a, <1>3 DEF OrderOK, Before
<1>8. /\ RowBatch(k) \subseteq Idx(batch) /\ RowBatch(k)' \subseteq Idx(batch)
      /\ \A i : RowChange(k, i) /\ i \in Idx(batch) => i \in RowBatch(k)'
  BY <1>b DEF RowBatch, RowChange, Idx
<1>9. Pending = Idx(batch) \cup Idx(pendingCH) \cup InStream
  BY <1>b DEF Pending, BatchIdx
<1>10. \A i \in DOMAIN feed : RowChange(k, i) =>
         (i \in DoneFor(k) <=> Skipped(feed[i]) \/ (i <= cursor /\ i \notin RowPending(k)))
  BY <1>1, <1>c DEF DoneIs
<1>11. \A i \in DOMAIN feed : RowChange(k, i) =>
         (i \in DoneFor(k)' <=> Skipped(feed[i]) \/ (i <= cursor /\ i \notin RowPending(k)'))
  <2>1. \A i : Skipped(feed[i])' <=> Skipped(feed[i])
    BY <1>b DEF Skipped
  <2> QED BY <1>b, <1>2, <1>5, <2>1 DEF DoneIs
<1>12. /\ \A i \in DoneFor(k) : RowChange(k, i)
       /\ \A i \in DoneFor(k)' : RowChange(k, i)
       /\ \A i : RowChange(k, i) => i \in DOMAIN feed
  BY <1>1, <1>2, <1>5, <1>c DEF DoneIs, RowChange
<1>13. ASSUME NEW i, RowChange(k, i)
       PROVE  i \in DoneFor(k)' <=> i \in DoneFor(k) /\ i < j
  <2>1. i \in DOMAIN feed /\ i \in Nat /\ i > 0
    BY <1>a, <1>4, <1>12, <1>13, FeedElement
  <2>2. CASE i < j
    <3>1. i \notin RowPending(k) /\ i \notin RowPending(k)'
      BY <1>d, <1>3, <1>6, <1>7, <1>8, <2>1, <2>2 DEF RowPending
    <3> QED BY <1>10, <1>11, <1>13, <2>1, <2>2, <3>1
  <2>3. CASE ~ (i < j)
    <3>1. ~ Skipped(feed[i])
      BY <1>a, <1>3, <2>1, <2>3, Ordered
    <3>2. i <= cursor => i \in Pending
      BY <1>a, <1>c, <1>3, <1>9, <1>13, <2>1, <2>3, <3>1 DEF Complete, RowChange
    <3>3. i \in Pending => i \in RowPending(k)'
      BY <1>d, <1>8, <1>9, <1>13 DEF RowPending
    <3> QED BY <1>11, <1>13, <2>1, <2>3, <3>1, <3>2, <3>3
  <2> QED BY <2>2, <2>3
<1>14. DoneFor(k)' = {i \in DoneFor(k) : i < j}
  BY <1>12, <1>13
<1>15. R(k)!UpTo(confirmed) \subseteq DoneFor(k)'
  <2> SUFFICES ASSUME NEW i \in DOMAIN feed, RowChange(k, i), feed[i].end <= confirmed
               PROVE  i \in DoneFor(k)'
    BY RowChanges DEF R!UpTo
  <2>1. (\A p \in Pending : i < p) /\ (i <= cursor \/ Skipped(feed[i]))
    BY <1>a DEF PositionsCovered, Covered, RowChange
  <2>2. i < j
    BY <1>3, <1>9, <2>1
  <2>3. i \notin RowPending(k)
    <3>1. RowPending(k) \subseteq Pending
      BY <1>8, <1>9 DEF RowPending
    <3> QED BY <1>4, <2>1, <3>1
  <2> QED BY <1>10, <1>13, <2>1, <2>2, <2>3
<1>16. R(k)!Repeat(j)
  BY <1>b, <1>14, <1>15 DEF R!Repeat
<1> QED BY <1>3, <1>16

\* The steps of a write.
LEMMA RowWriteStep ==
  ASSUME IInv, IInv', NEW k \in Keys, k \notin unkeyed', AppendRecord \/ WriteFails
  PROVE  [R(k)!RetryNext]_(R(k)!vars)
<1>1. CASE AppendRecord
  <2>a. TypeOK /\ QueueOK /\ FlushOK /\ UnkeyedOK /\ UNCHANGED unkeyed /\ flushPC = "write"
    BY <1>1 DEF IInv, AppendRecord
  <2>1. PICK n \in DOMAIN batch \ appended :
          /\ \A m \in 1 .. (n - 1) : placement[m] = placement[n] => m \in appended
          /\ appended' = appended \cup {n}
          /\ topic'[placement[n]][feed[batch[n].idx].key] = batch[n].idx
          /\ \A p \in Partitions, r \in Keys :
               p # placement[n] \/ r # feed[batch[n].idx].key => topic'[p][r] = topic[p][r]
    BY <1>1, <2>a, AppendOne
  <2>2. CASE feed[batch[n].idx].key = k
    <3>1. placement[n] = PartitionOf[k]
      BY <2>a, <2>2 DEF FlushOK, Placement, UnkeyedOK
    <3>2. \E j \in DOMAIN feed : R(k)!Deliver(j)
      BY <1>1, <2>1, <2>2, <3>1, RowAppend
    <3> QED BY <3>2 DEF R!Next, R!RetryNext
  <2>3. CASE feed[batch[n].idx].key # k
    <3>1. topic'[PartitionOf[k]][k] = topic[PartitionOf[k]][k]
      BY <2>1, <2>3, KafkaKeys
    <3> QED BY <1>1, <2>1, <2>3, <3>1, RowAppendOther
  <2> QED BY <2>2, <2>3
<1>2. CASE WriteFails
  BY <1>2, RowFails DEF R!Next, R!RetryNext
<1> QED BY <1>1, <1>2

\* An Ack, or a status update of the sink: at most a position is confirmed.
LEMMA RowStatus ==
  ASSUME IInv, IInv', NEW k \in Keys, k \notin unkeyed, k \notin unkeyed', up, up',
         UNCHANGED <<feed, cursor, startLsn, prevMessage, messageCH, pendingCH, topic>>,
         RowBatch(k)' = RowBatch(k),
         confirmed' = confirmed \/ Covered(confirmed')
  PROVE  [R(k)!RetryNext]_(R(k)!vars)
<1>a. StreamOK /\ StreamTypeOK /\ TypeOK' /\ StreamTypeOK'
  BY DEF IInv, TypeOK
<1>1. InStream' = InStream /\ Idx(pendingCH)' = Idx(pendingCH)
  BY <1>a, StreamKept DEF Idx
<1>2. RowPending(k)' = RowPending(k)
  BY <1>1 DEF RowPending
<1>3. cursor \in Nat /\ confirmed' \in Nat /\ \A i \in DOMAIN feed : i \in Nat
  BY <1>a, FeedType, FeedElement DEF StreamTypeOK
<1>4. DoneFor(k)' = DoneFor(k)
  BY <1>2, <1>3, DoneKept
<1>5. CASE confirmed' = confirmed
  BY <1>4, <1>5, RowStutter
<1>6. CASE Covered(confirmed')
  BY <1>3, <1>4, <1>6, RowConfirm DEF R!Next, R!RetryNext
<1> QED BY <1>5, <1>6

\* The two halves of an Ack.
LEMMA RowAck ==
  ASSUME IInv, IInv', NEW k \in Keys, k \notin unkeyed', AckStep
  PROVE  [R(k)!RetryNext]_(R(k)!vars)
<1>a. /\ UNCHANGED <<feed, cursor, startLsn, prevMessage, messageCH, pendingCH, topic, up, unkeyed>>
      /\ flushPC \in {"ack", "send"}
  BY DEF AckStep, AckUpdate, AckSend
<1>b. up /\ up'
  BY <1>a, BusyIsUp DEF IInv
<1>1. RowBatch(k)' = RowBatch(k)
  <2>1. CASE AckUpdate
    BY <1>a, <2>1 DEF AckUpdate, RowBatch
  <2>2. CASE AckSend
    <3>1. appended = DOMAIN batch /\ batch' = << >> /\ DOMAIN << >> = {}
      BY <1>a, <2>2, EmptySeq DEF AckSend, IInv, FlushOK
    <3> QED BY <3>1 DEF RowBatch
  <2> QED BY <2>1, <2>2 DEF AckStep
<1>2. confirmed' = confirmed \/ Covered(confirmed')
  <2>1. Covered(lastXLogPos) /\ Covered(confirmed)
    BY DEF IInv, PositionsCovered
  <2> QED BY <2>1 DEF AckStep, AckUpdate, AckSend, Confirm
<1> QED BY <1>a, <1>b, <1>1, <1>2, RowStatus

\* A crash, or os.Exit after the last attempt.
LEMMA RowDown ==
  ASSUME IInv, NEW k \in Keys, Down, UNCHANGED topic
  PROVE  R(k)!Restart
<1>a. UNCHANGED <<feed, confirmed>>
  BY DEF Down, StreamDown
<1>b. ~ up'
  BY Zenon DEF Down
<1>1. DoneFor(k)' = {i \in DOMAIN feed : RowChange(k, i) /\ feed[i].end <= confirmed}
  BY <1>a, <1>b DEF DoneFor, RowChange, Change, HasRecord
<1>2. R(k)!UpTo(confirmed) = {i \in DOMAIN feed : RowChange(k, i) /\ feed[i].end <= confirmed}
  BY RowChanges DEF R!UpTo
<1> QED BY <1>a, <1>1, <1>2 DEF R!Restart

\* A new process gets what is not confirmed again.
LEMMA RowRestart ==
  ASSUME IInv, NEW k \in Keys, Restart
  PROVE  UNCHANGED R(k)!vars
<1>a. UNCHANGED <<feed, confirmed, topic>> /\ cursor' = 0 /\ startLsn' = confirmed
  BY DEF Restart, Open
<1>b. ~ up
  BY Zenon DEF Restart
<1>c. up'
  BY Zenon DEF Restart
<1>1. DoneFor(k) = {i \in DOMAIN feed : RowChange(k, i) /\ feed[i].end <= confirmed}
  BY <1>b DEF DoneFor, RowChange
<1>2. ASSUME NEW i \in DOMAIN feed, RowChange(k, i)
      PROVE  i \in DoneFor(k)' <=> feed[i].end <= confirmed
  <2>1. i \in Nat /\ i > 0 /\ feed[i].end > 0
    BY <1>2, FeedElement DEF RowChange, Change, IInv, TypeOK
  <2>2. Skipped(feed[i])' <=> feed[i].end <= confirmed
    BY <1>a, <2>1 DEF Skipped
  <2>3. ~ (i <= cursor')
    BY <1>a, <2>1
  <2>4. i \in DoneFor(k)' <=> Skipped(feed[i])'
    BY <1>2, <1>a, <1>c, <2>3 DEF DoneFor, RowChange, Change, HasRecord
  <2> QED BY <2>2, <2>4
<1>3. \A i \in DoneFor(k)' : i \in DOMAIN feed /\ RowChange(k, i)
  BY <1>a DEF DoneFor, RowChange, Change, HasRecord
<1>4. DoneFor(k)' = DoneFor(k)
  BY <1>1, <1>2, <1>3
<1> QED BY <1>a, <1>4, RowStutter

\* Every step, seen from a row all of whose records have a key.
LEMMA RowNext ==
  ASSUME IInv, IInv', Next, NEW k \in Keys, k \notin unkeyed'
  PROVE  [R(k)!RetryNext]_(R(k)!vars)
<1>1. CASE SinkStep
  <2>a. up /\ up' /\ UNCHANGED <<sinkVars, topic, unkeyed, up, countVars>>
    BY <1>1 DEF SinkStep
  <2>b. UNCHANGED <<pendingCH, batch, appended, topic, unkeyed>>
    BY <2>a DEF sinkVars
  <2>1. CASE SinkReceive
    BY <2>a, <2>1, RowReceive
  <2>2. CASE SinkTimeout \/ SinkKeepalive \/ SinkSend
    <3>1. UNCHANGED <<feed, cursor, startLsn, prevMessage, messageCH>>
      BY <2>2 DEF SinkTimeout, SinkKeepalive, SinkSend
    <3>2. RowBatch(k)' = RowBatch(k)
      BY <2>b, <3>1 DEF RowBatch
    <3>3. confirmed' = confirmed \/ Covered(confirmed')
      BY <2>2 DEF SinkTimeout, SinkKeepalive, SinkSend, Confirm, IInv, PositionsCovered
    <3> QED BY <2>a, <2>b, <3>1, <3>2, <3>3, RowStatus
  <2> QED BY <1>1, <2>1, <2>2 DEF SinkStep
<1>2. CASE Handler
  <2>1. k \notin unkeyed
    BY <1>2 DEF Handler, BuildKafkaKey
  <2> QED BY <1>2, <2>1, RowHandler
<1>3. CASE FlushStep
  BY <1>3, RowTake, RowFlush DEF FlushStep
<1>4. CASE AppendRecord \/ WriteFails
  BY <1>4, RowWriteStep
<1>8. CASE WriteBatch
  BY <1>8, RowFlush
<1>5. CASE GiveUp \/ Crash
  BY <1>5, RowDown DEF GiveUp, Crash, R!Next, R!RetryNext
<1>6. CASE AckStep
  BY <1>6, RowAck
<1>7. CASE Restart
  BY <1>7, RowRestart
<1> QED BY <1>1, <1>2, <1>3, <1>4, <1>5, <1>6, <1>7, <1>8 DEF Next

\* A consumer of the partition of a row's key sees the row's changes in commit
\* order and at least once, a failed batch again from its start: from the row every
\* step of the sink is a step of Replication or a repetition, as long as the primary
\* key could be read for all its records (main.go writeKafkaBatch, buildKafkaKey).
THEOREM KafkaPerRowOrder == Spec => PerRowOrder
<1>1. IInv /\ IInv' /\ [Next]_vars =>
        [\A k \in Keys : k \notin unkeyed' => [R(k)!RetryNext]_(R(k)!vars)]_vars
  BY RowNext
<1> QED BY <1>1, KafkaInvariant, PTL DEF Spec, PerRowOrder
=============================================================================
