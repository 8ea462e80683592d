------------------------------ MODULE KafkaInv ------------------------------
(***************************************************************************)
(* Kafka behind a server that sends whole transactions in commit order,    *)
(* and the inductive invariant from which ConfirmedStored and PerRowOrder  *)
(* follow.                                                                 *)
(***************************************************************************)
EXTENDS Kafka, CommitOrder

-----------------------------------------------------------------------------
(* What is between the stream and the topic.                               *)

\* The batch until it is written.
BatchIdx == IF flushPC \in {"ack", "send"} THEN {} ELSE Idx(batch)

\* Received but not yet in the topic.
Pending == BatchIdx \cup Idx(pendingCH) \cup InStream

\* Some partition holds change i or a later one of its row.
Stored(i) == \E p \in Partitions : topic[p][feed[i].key] >= i

\* All changes that LSN l covers are in the topic, for good: no pending record
\* is older than they are.
Covered(l) ==
  \A i \in DOMAIN feed :
    Change(i) /\ feed[i].end <= l =>
      /\ Stored(i)
      /\ \A p \in Pending : i < p
      /\ i <= cursor \/ Skipped(feed[i])

-----------------------------------------------------------------------------
(* The parts of the inductive invariant.                                   *)

QueueOK ==
  /\ \A n \in DOMAIN batch : Received(batch[n]) /\ HasRecord(batch[n].idx)
  /\ \A n \in DOMAIN pendingCH : MessageOK(pendingCH[n])

\* Order is kept at every hop.
OrderOK ==
  /\ Sorted(batch) /\ Sorted(pendingCH)
  /\ Before(Idx(batch), Idx(pendingCH) \cup InStream)
  /\ Before(Idx(pendingCH), InStream)

\* The Ack flushWorker keeps is that of the last message it took, and there is
\* one whenever there is something to flush.
LastAckOK ==
  /\ lastAck # NoMessage =>
       /\ MessageOK(lastAck)
       /\ \A p \in Idx(batch) : p <= lastAck.idx
       /\ Before({lastAck.idx}, Idx(pendingCH) \cup InStream)
  /\ batch # << >> \/ flushPC # "collect" => lastAck # NoMessage

FlushOK ==
  /\ flushPC = "write" => batch # << >>
  /\ flushPC = "collect" => Len(batch) < FlushBatchSize /\ appended = {}
  /\ flushPC = "write" => placement \in Placement(batch)
  /\ flushPC \in {"ack", "send"} => appended = DOMAIN batch

\* Nothing received is forgotten.
Complete ==
  up => \A i \in 1 .. cursor :
          Change(i) /\ ~ Skipped(feed[i]) =>
            \/ i \in Pending
            \/ Stored(i) /\ \A p \in Pending : i < p

PositionsCovered ==
  Covered(startLsn) /\ Covered(confirmed) /\ Covered(lastXLogPos) /\ Covered(statusPos)

\* unkeyed knows the rows of all records without a key.
UnkeyedOK ==
  /\ \A n \in DOMAIN batch : batch[n].keyed \/ feed[batch[n].idx].key \in unkeyed
  /\ \A n \in DOMAIN pendingCH :
       HasRecord(pendingCH[n].idx) /\ ~ pendingCH[n].keyed =>
         feed[pendingCH[n].idx].key \in unkeyed

\* What the current attempt has appended to a partition are the first of its records
\* there, and the last of them that is about a row is the row's last.
AppendedOK ==
  flushPC = "write" =>
    \A n \in appended :
      /\ \A m \in 1 .. (n - 1) : placement[m] = placement[n] => m \in appended
      /\ \E m \in appended :
           /\ placement[m] = placement[n] /\ feed[batch[m].idx].key = feed[batch[n].idx].key
           /\ n <= m /\ topic[placement[n]][feed[batch[n].idx].key] = batch[m].idx

\* While the process is down nothing is in memory.
DownOK ==
  ~ up => /\ prevMessage = NoMessage
          /\ messageCH = << >> /\ pendingCH = << >> /\ batch = << >>
          /\ lastAck = NoMessage /\ flushPC = "collect" /\ appended = {}
          /\ lastXLogPos = 0 /\ statusPos = 0

IInv ==
  /\ TypeOK
  /\ StreamOK
  /\ QueueOK
  /\ OrderOK
  /\ LastAckOK
  /\ FlushOK
  /\ Complete
  /\ PositionsCovered
  /\ UnkeyedOK
  /\ AppendedOK
  /\ DownOK
=============================================================================
