------------------------------- MODULE Kafka --------------------------------
(***************************************************************************)
(* The Kafka sink of example/kafka/main.go behind the replication stream:  *)
(* Handler makes a record of every row change and queues it with its Ack,  *)
(* flushWorker writes batches of records and then calls the last Ack.      *)
(*                                                                         *)
(* Kafka is external.  A write of a batch appends its records one by one,  *)
(* to each partition in their order: some, or all, may be appended when    *)
(* the write fails, but nothing is appended after that.  Of a partition we *)
(* keep, per row, the change of its last record, which is what a consumer  *)
(* that has read up to here knows of the row.                              *)
(***************************************************************************)
EXTENDS Stream, SequencesExt, FiniteSetsExt

CONSTANTS
  SkipKeys,           \* rows of the heartbeat table
  Partitions,
  PartitionOf,        \* kafka.Hash: the partition of a record with a key
  FlushBatchSize,     \* 500
  PendingQueueSize,   \* 4096
  KafkaRetryCount,    \* 5
  MaxWriteFailures,   \* bound: writes that fail
  MaxLookupFailures,  \* bound: failed queries for the primary key
  MaxCrashes          \* bound: how often the process dies

ASSUME KafkaSizes ==
  FlushBatchSize \in Nat \ {0} /\ PendingQueueSize \in Nat \ {0} /\ KafkaRetryCount \in Nat \ {0}
ASSUME KafkaBounds ==
  MaxWriteFailures \in Nat /\ MaxLookupFailures \in Nat /\ MaxCrashes \in Nat
ASSUME KafkaKeys == SkipKeys \subseteq Keys /\ PartitionOf \in [Keys -> Partitions]

VARIABLES
  primaryKeyCache,  \* what is known of the table's primary key
  pendingCH,        \* channel from Handler to flushWorker
  batch,            \* records collected, with the Ack's position and the key
  lastAck,          \* the Ack to call after the batch, or NoMessage
  flushPC,          \* "collect", "write", "ack", "send"
  attempt,          \* of writeKafkaBatch
  topic,            \* per partition and row the change of the last record
  placement,        \* the partition of each record of the batch that is written
  appended,         \* the records of it that the current attempt has appended
  unkeyed,          \* rows of which a record without a key was made
  up, crashes, writeFailures, lookupFailures

sinkVars == <<primaryKeyCache, pendingCH, batch, lastAck, flushPC, attempt, placement, appended>>
countVars == <<crashes, writeFailures, lookupFailures>>
vars == <<streamVars, sinkVars, topic, unkeyed, up, countVars>>

\* pendingMessage: keyed tells whether buildKafkaKey found a key.
PendingMessage == [idx : Nat \ {0}, lsn : Nat, keyed : BOOLEAN]

TypeOK ==
  /\ StreamTypeOK
  /\ primaryKeyCache \in {"unknown", "columns", "empty"}
  /\ pendingCH \in Seq(PendingMessage) /\ Len(pendingCH) <= PendingQueueSize
  /\ batch \in Seq(PendingMessage) /\ Len(batch) <= FlushBatchSize
  /\ lastAck \in Message \cup {NoMessage}
  /\ flushPC \in {"collect", "write", "ack", "send"}
  /\ attempt \in 1 .. KafkaRetryCount + 1
  /\ topic \in [Partitions -> [Keys -> Nat]]
  /\ placement \in Seq(Partitions)
  /\ appended \subseteq DOMAIN batch
  /\ unkeyed \subseteq Keys
  /\ up \in BOOLEAN
  /\ crashes \in 0 .. MaxCrashes
  /\ writeFailures \in 0 .. MaxWriteFailures
  /\ lookupFailures \in 0 .. MaxLookupFailures

SinkMemoryInit ==
  /\ primaryKeyCache = "unknown"
  /\ pendingCH = << >>
  /\ batch = << >>
  /\ lastAck = NoMessage
  /\ flushPC = "collect"
  /\ attempt = 1
  /\ placement = << >>
  /\ appended = {}

Init ==
  /\ StreamInit
  /\ SinkMemoryInit
  /\ topic = [p \in Partitions |-> [k \in Keys |-> 0]]
  /\ unkeyed = {}
  /\ up = TRUE
  /\ crashes = 0 /\ writeFailures = 0 /\ lookupFailures = 0

-----------------------------------------------------------------------------
(* Handler, called by process.                                             *)

\* Something to write: a row change outside the heartbeat table.
HasRecord(i) == feed[i].tag = "dml" /\ feed[i].key \notin SkipKeys

\* buildKafkaKey: the primary key comes from the cache or from a query.  When the
\* query fails, the record has no key.  Nothing is cached if Query says so; an error
\* while rows are read is not looked at, and a key without columns is cached.
BuildKafkaKey(i, keyed) ==
  IF ~ HasRecord(i)
    THEN keyed = FALSE /\ UNCHANGED <<primaryKeyCache, unkeyed, lookupFailures>>
    ELSE /\ \/ /\ primaryKeyCache # "unknown"
               /\ keyed = (primaryKeyCache = "columns")
               /\ UNCHANGED <<primaryKeyCache, lookupFailures>>
            \/ /\ primaryKeyCache = "unknown" /\ keyed
               /\ primaryKeyCache' = "columns"
               /\ UNCHANGED lookupFailures
            \/ /\ primaryKeyCache = "unknown" /\ ~ keyed
               /\ lookupFailures < MaxLookupFailures
               /\ lookupFailures' = lookupFailures + 1
               /\ primaryKeyCache' \in {"unknown", "empty"}
         /\ unkeyed' = IF keyed THEN unkeyed ELSE unkeyed \cup {feed[i].key}

\* Mutant: what needs no record is acknowledged at once.
HandlerAcksDirectly ==
  LET m == Head(messageCH)
  IN /\ messageCH # << >>
     /\ Len(pendingCH) < PendingQueueSize
     /\ messageCH' = Tail(messageCH)
     /\ \E keyed \in BOOLEAN :
          /\ BuildKafkaKey(m.idx, keyed)
          /\ IF HasRecord(m.idx)
               THEN /\ pendingCH' = Append(pendingCH, [idx |-> m.idx, lsn |-> m.lsn, keyed |-> keyed])
                    /\ UNCHANGED lastXLogPos
               ELSE UpdateXLogPos(m.lsn) /\ UNCHANGED pendingCH
     /\ UNCHANGED <<batch, lastAck, flushPC, attempt, placement, appended, topic>>
     /\ UNCHANGED <<feed, cursor, startLsn, sinkPC, statusPos, prevMessage, confirmed,
                    up, crashes, writeFailures>>

\* Every message is queued, also one without a record (heartbeat, Relation): its
\* Ack has to wait for the messages before it.  A full queue blocks.
Handler ==
  LET m == Head(messageCH)
  IN /\ messageCH # << >>
     /\ Len(pendingCH) < PendingQueueSize
     /\ messageCH' = Tail(messageCH)
     /\ \E keyed \in BOOLEAN :
          /\ BuildKafkaKey(m.idx, keyed)
          /\ pendingCH' = Append(pendingCH, [idx |-> m.idx, lsn |-> m.lsn, keyed |-> keyed])
     /\ UNCHANGED <<batch, lastAck, flushPC, attempt, placement, appended, topic>>
     /\ UNCHANGED <<feed, cursor, startLsn, sinkPC, statusPos, prevMessage, lastXLogPos,
                    confirmed, up, crashes, writeFailures>>

-----------------------------------------------------------------------------
(* flushWorker.                                                            *)

\* Mutant: the balancer does not look at the key.
PlacementAny(b) == [DOMAIN b -> Partitions]

\* Where the balancer may put the records of a batch: round robin without a key.
Placement(b) ==
  {f \in [DOMAIN b -> Partitions] :
     \A n \in DOMAIN b : b[n].keyed => f[n] = PartitionOf[feed[b[n].idx].key]}

\* flush: a batch without records is acknowledged at once.
BeginFlush(b) ==
  /\ flushPC' = IF b = << >> THEN "ack" ELSE "write"
  /\ placement' \in Placement(b)

\* Mutant: the batch is flushed one record late.
TakeOneMore ==
  LET m == Head(pendingCH)
  IN /\ flushPC = "collect"
     /\ pendingCH # << >>
     /\ pendingCH' = Tail(pendingCH)
     /\ batch' = IF HasRecord(m.idx) THEN Append(batch, m) ELSE batch
     /\ lastAck' = [idx |-> m.idx, lsn |-> m.lsn]
     /\ IF Len(batch') > FlushBatchSize
          THEN BeginFlush(batch')
          ELSE UNCHANGED <<flushPC, placement>>
     /\ UNCHANGED <<primaryKeyCache, attempt, appended>>

\* One pending message; a full batch is flushed.
Take ==
  LET m == Head(pendingCH)
  IN /\ flushPC = "collect"
     /\ pendingCH # << >>
     /\ pendingCH' = Tail(pendingCH)
     /\ batch' = IF HasRecord(m.idx) THEN Append(batch, m) ELSE batch
     /\ lastAck' = [idx |-> m.idx, lsn |-> m.lsn]
     /\ IF Len(batch') >= FlushBatchSize
          THEN BeginFlush(batch')
          ELSE UNCHANGED <<flushPC, placement>>
     /\ UNCHANGED <<primaryKeyCache, attempt, appended>>

\* Mutant: a batch without records is not flushed.
TickRecordsOnly ==
  /\ flushPC = "collect"
  /\ batch # << >>
  /\ BeginFlush(batch)
  /\ UNCHANGED <<primaryKeyCache, pendingCH, batch, lastAck, attempt, appended>>

\* The ticker flushes when there is something to acknowledge.
Tick ==
  /\ flushPC = "collect"
  /\ lastAck # NoMessage
  /\ BeginFlush(batch)
  /\ UNCHANGED <<primaryKeyCache, pendingCH, batch, lastAck, attempt, appended>>

FlushStep ==
  /\ Take \/ Tick
  /\ UNCHANGED <<streamVars, topic, unkeyed, up, countVars>>

\* The next record of its partition is appended.
AppendRecord ==
  /\ flushPC = "write"
  /\ attempt <= KafkaRetryCount
  /\ \E n \in DOMAIN batch \ appended :
       /\ \A m \in 1 .. (n - 1) : placement[m] = placement[n] => m \in appended
       /\ topic' = [topic EXCEPT ![placement[n]][feed[batch[n].idx].key] = batch[n].idx]
       /\ appended' = appended \cup {n}
  /\ UNCHANGED <<streamVars, primaryKeyCache, pendingCH, batch, lastAck, flushPC, attempt,
                 placement, unkeyed, up, countVars>>

\* WriteMessages returns nil: all records are appended.
WriteBatch ==
  /\ flushPC = "write"
  /\ attempt <= KafkaRetryCount
  /\ appended = DOMAIN batch
  /\ flushPC' = "ack" /\ attempt' = 1 /\ placement' = << >>
  /\ UNCHANGED <<streamVars, primaryKeyCache, pendingCH, batch, lastAck, appended, topic,
                 unkeyed, up, countVars>>

\* The process is gone with all it had in memory.
Down ==
  /\ StreamDown
  /\ primaryKeyCache' = "unknown"
  /\ pendingCH' = << >> /\ batch' = << >> /\ lastAck' = NoMessage
  /\ flushPC' = "collect" /\ attempt' = 1 /\ placement' = << >> /\ appended' = {}
  /\ up' = FALSE

\* WriteMessages returns an error, whatever has been appended; after a pause the
\* whole batch is written again, behind what is there.
WriteFails ==
  /\ flushPC = "write"
  /\ attempt <= KafkaRetryCount
  /\ writeFailures < MaxWriteFailures
  /\ writeFailures' = writeFailures + 1
  /\ attempt' = attempt + 1
  /\ placement' \in Placement(batch)
  /\ appended' = {}
  /\ UNCHANGED <<streamVars, primaryKeyCache, pendingCH, batch, lastAck, flushPC, topic, unkeyed,
                 up, crashes, lookupFailures>>

\* os.Exit after the last attempt: nothing of the batch is acknowledged.
GiveUp ==
  /\ flushPC = "write"
  /\ attempt > KafkaRetryCount
  /\ Down
  /\ UNCHANGED <<topic, unkeyed, countVars>>

\* lastAck, first half.
AckUpdate ==
  /\ flushPC = "ack"
  /\ UpdateXLogPos(lastAck.lsn)
  /\ flushPC' = "send"
  /\ UNCHANGED <<primaryKeyCache, pendingCH, batch, lastAck, attempt, placement, appended, confirmed>>

\* Second half: the status update is sent, or fails, which is only logged.
AckSend ==
  /\ flushPC = "send"
  /\ \/ confirmed' = Confirm(lastXLogPos)
     \/ UNCHANGED confirmed
  /\ batch' = << >> /\ lastAck' = NoMessage
  /\ flushPC' = "collect" /\ appended' = {}
  /\ UNCHANGED <<primaryKeyCache, pendingCH, attempt, placement, lastXLogPos>>

AckStep ==
  /\ AckUpdate \/ AckSend
  /\ UNCHANGED <<feed, cursor, startLsn, sinkPC, statusPos, prevMessage, messageCH,
                 topic, unkeyed, up, countVars>>

-----------------------------------------------------------------------------

SinkStep ==
  /\ up
  /\ SinkReceive \/ SinkTimeout \/ SinkKeepalive \/ SinkSend
  /\ UNCHANGED <<sinkVars, topic, unkeyed, up, countVars>>

\* The process dies: a kill, a panic of the sink, os.Exit of Handler.
Crash ==
  /\ up
  /\ crashes < MaxCrashes
  /\ Down
  /\ crashes' = crashes + 1
  /\ UNCHANGED <<topic, unkeyed, writeFailures, lookupFailures>>

Restart ==
  /\ ~ up
  /\ Open
  /\ up' = TRUE
  /\ UNCHANGED <<sinkVars, topic, unkeyed, countVars>>

Next ==
  \/ SinkStep \/ Handler \/ FlushStep \/ AppendRecord \/ WriteBatch \/ WriteFails \/ GiveUp
  \/ AckStep \/ Crash \/ Restart

Spec == Init /\ [][Next]_vars

\* As for the PostgreSQL sink; a write is not failed for ever, and the position
\* an Ack could not send is sent by the sink when its deadline passes.
Fairness ==
  /\ SF_vars(up /\ SinkReceive /\ UNCHANGED <<sinkVars, topic, unkeyed, up, countVars>>)
  /\ WF_vars(up /\ SinkTimeout /\ UNCHANGED <<sinkVars, topic, unkeyed, up, countVars>>)
  /\ WF_vars(up /\ SinkSend /\ UNCHANGED <<sinkVars, topic, unkeyed, up, countVars>>)
  /\ WF_vars(Handler)
  /\ WF_vars(FlushStep)
  /\ WF_vars(AppendRecord)
  /\ WF_vars(WriteBatch)
  /\ WF_vars(GiveUp)
  /\ WF_vars(AckStep)
  /\ WF_vars(Restart)

FairSpec == Spec /\ Fairness

-----------------------------------------------------------------------------
(* Properties.                                                             *)

Change(i) == HasRecord(i) /\ feed[i].end > 0

\* What the slot's confirmed position has passed is in the topic: of every such
\* change some partition holds the record or a later one of its row, also when
\* the Ack was that of a heartbeat row or a Relation, which flushWorker calls
\* without writing anything (main.go 41-43, 188-190).
ConfirmedStored ==
  \A i \in DOMAIN feed :
    Change(i) /\ feed[i].end <= confirmed =>
      \E p \in Partitions : topic[p][feed[i].key] >= i

\* The messages not yet in the topic, as far as row k is concerned: of the batch
\* those of its records that the current attempt has still to append.
PendingFor(k) ==
  ({prevMessage.idx} \ {0})
    \cup {m.idx : m \in Range(messageCH) \cup Range(pendingCH)}
    \cup {batch[n].idx : n \in {m \in DOMAIN batch \ appended : feed[batch[m].idx].key = k}}

DoneFor(k) ==
  {i \in DOMAIN feed :
     /\ Change(i) /\ feed[i].key = k
     /\ IF up THEN Skipped(feed[i]) \/ (i <= cursor /\ \A p \in PendingFor(k) : i < p)
              ELSE feed[i].end <= confirmed}

\* The records of one row on the partition of its key, as Replication.
R(k) == INSTANCE Replication WITH
          Logs <- Feeds, Keys <- {k},
          Relevant <- LAMBDA m : m.tag = "dml" /\ m.end > 0 /\ m.key = k /\ k \notin SkipKeys,
          log <- feed, done <- DoneFor(k),
          target <- [x \in {k} |-> topic[PartitionOf[k]][k]]

\* A consumer of one partition sees the changes of a row in commit order and at
\* least once, whatever is retried, written in part, or written again after a
\* crash: every step is one of Replication, or repeats a failed batch from its first
\* record on.  A row of which a record was written without a key, because the
\* primary key could not be read, is excepted.
PerRowOrder ==
  [][\A k \in Keys : k \notin unkeyed' => [R(k)!RetryNext]_(R(k)!vars)]_vars

\* In the end every change is in the topic and everything has been confirmed,
\* a transaction that changed only the heartbeat table too: that is what the
\* heartbeat is for.
TopicCatchesUp ==
  <>[](\A i \in DOMAIN feed :
         feed[i].tag = "dml" /\ feed[i].end > 0 =>
           /\ feed[i].end <= confirmed
           /\ feed[i].key \notin SkipKeys => \E p \in Partitions : topic[p][feed[i].key] >= i)
=============================================================================
