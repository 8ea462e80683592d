---------------------------- MODULE PipelineInv -----------------------------
(***************************************************************************)
(* Pipeline behind a server that sends whole transactions in commit order, *)
(* and the inductive invariant from which ConfirmedReflected and           *)
(* InOrderApply follow.                                                    *)
(***************************************************************************)
EXTENDS Pipeline, CommitOrder

-----------------------------------------------------------------------------
(* What is between the sink and the target.                                *)

\* The batch until it is committed.
BatchIdx == IF producePC \in {"ack", "send"} THEN {} ELSE Idx(queue)

\* Received but not yet in the target.
Pending == BatchIdx \cup Idx(messages) \cup InStream

\* All changes that LSN l covers are in the target, for good: nothing pending
\* can take them back.
Covered(l) ==
  \A i \in DOMAIN feed :
    Change(i) /\ feed[i].end <= l =>
      /\ Reflected(i)
      /\ \A p \in Pending : i < p
      /\ i <= cursor \/ Skipped(feed[i])

-----------------------------------------------------------------------------
(* The parts of the inductive invariant.                                   *)

MessagesOK ==
  /\ \A n \in DOMAIN queue : MessageOK(queue[n])
  /\ \A n \in DOMAIN messages : MessageOK(messages[n])

OnlyChangesQueued ==
  /\ \A n \in DOMAIN queue : feed[queue[n].idx].tag = "dml"
  /\ \A n \in DOMAIN messages : feed[messages[n].idx].tag = "dml"

\* Order is kept at every hop.
OrderOK ==
  /\ Sorted(queue) /\ Sorted(messages)
  /\ Before(Idx(queue), Idx(messages) \cup InStream)
  /\ Before(Idx(messages), InStream)

\* Nothing received is forgotten.
Complete ==
  up => \A i \in 1 .. cursor :
          Change(i) /\ ~ Skipped(feed[i]) =>
            \/ i \in Pending
            \/ Reflected(i) /\ \A p \in Pending : i < p

PositionsCovered ==
  Covered(startLsn) /\ Covered(confirmed) /\ Covered(lastXLogPos) /\ Covered(statusPos)

BatchOK ==
  /\ producePC # "collect" => queue # << >>
  /\ producePC = "collect" => Len(queue) < ChunkSize
  /\ producePC = "exec" =>
       /\ execPos <= Len(queue) + 1
       /\ \A k \in Keys :
            \/ staged[k] = target[k]
            \/ \E m \in 1 .. (execPos - 1) :
                 feed[queue[m].idx].key = k /\ staged[k] = queue[m].idx
       /\ \A m \in 1 .. (execPos - 1) :
            feed[queue[m].idx].key \notin SkipKeys =>
              staged[feed[queue[m].idx].key] >= queue[m].idx

\* While the process is down nothing is in memory.
DownOK ==
  ~ up => /\ prevMessage = NoMessage
          /\ messageCH = << >> /\ messages = << >> /\ queue = << >>
          /\ producePC = "collect"
          /\ lastXLogPos = 0 /\ statusPos = 0

IInv ==
  /\ TypeOK
  /\ StreamOK
  /\ MessagesOK
  /\ OnlyChangesQueued
  /\ OrderOK
  /\ Complete
  /\ PositionsCovered
  /\ BatchOK
  /\ DownOK
=============================================================================
