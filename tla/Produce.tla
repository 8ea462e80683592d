------------------------------ MODULE Produce -------------------------------
(***************************************************************************)
(* The listener of example/postgresql/main.go: FilteredMapper puts every   *)
(* row change on the channel `messages', Produce collects them into a      *)
(* batch, writes the batch in one implicit transaction of the target       *)
(* database and acknowledges the last change of the batch.                 *)
(*                                                                         *)
(* A row of the target is the feed index of the change that wrote it last  *)
(* (0: none yet): an upsert or a delete replaces the whole row.            *)
(***************************************************************************)
EXTENDS Stream

CONSTANTS
  SkipKeys,   \* rows of the heartbeat table that --target-table leaves out
  ChunkSize   \* --chunksize: capacity of messages and size of a batch

ASSUME ChunkSizeAssumption == ChunkSize \in Nat \ {0}
ASSUME SkipKeysAssumption == SkipKeys \subseteq Keys

VARIABLES
  messages,    \* channel from the listener to Produce
  queue,       \* the batch being collected
  producePC,   \* "collect", "exec", "ack", "send"
  execPos,     \* next query of the batch whose result is read
  staged,      \* rows as the open batch transaction sees them
  target       \* committed rows of the target database

produceVars == <<messages, queue, producePC, execPos, staged, target>>

ProduceTypeOK ==
  /\ messages \in Seq(Message)
  /\ Len(messages) <= ChunkSize
  /\ queue \in Seq(Message)
  /\ Len(queue) <= ChunkSize
  /\ producePC \in {"collect", "exec", "ack", "send"}
  /\ execPos \in Nat \ {0}
  /\ staged \in [Keys -> Nat]
  /\ target \in [Keys -> Nat]

ProduceInit ==
  /\ messages = << >>
  /\ queue = << >>
  /\ producePC = "collect"
  /\ execPos = 1
  /\ staged = [k \in Keys |-> 0]
  /\ target = [k \in Keys |-> 0]

-----------------------------------------------------------------------------

\* One turn of process: the listener takes the message.  FilteredMapper queues
\* the row changes (those of SkipKeys as placeholders) and has no case for a
\* Relation, whose Ack is never called.
Listen ==
  /\ messageCH # << >>
  /\ messageCH' = Tail(messageCH)
  /\ IF feed[Head(messageCH).idx].tag = "dml"
       THEN /\ Len(messages) < ChunkSize
            /\ messages' = Append(messages, Head(messageCH))
       ELSE UNCHANGED messages
  /\ UNCHANGED <<queue, producePC, execPos, staged, target>>

\* Starts a flush: SendBatch of the queued queries.
BeginFlush ==
  /\ producePC' = "exec"
  /\ execPos' = 1
  /\ staged' = target

\* Mutant: a batch is flushed one event late.
CollectOneMore ==
  /\ producePC = "collect"
  /\ messages # << >>
  /\ messages' = Tail(messages)
  /\ queue' = Append(queue, Head(messages))
  /\ IF Len(queue') > ChunkSize
       THEN BeginFlush
       ELSE UNCHANGED <<producePC, execPos, staged>>
  /\ UNCHANGED target

\* Produce takes one event; a full batch is flushed at once.
Collect ==
  /\ producePC = "collect"
  /\ messages # << >>
  /\ messages' = Tail(messages)
  /\ queue' = Append(queue, Head(messages))
  /\ IF Len(queue') >= ChunkSize
       THEN BeginFlush
       ELSE UNCHANGED <<producePC, execPos, staged>>
  /\ UNCHANGED target

\* The CDC timer or the idle ticker flushes a batch that is not full.
TimerFlush ==
  /\ producePC = "collect"
  /\ queue # << >>
  /\ BeginFlush
  /\ UNCHANGED <<messages, queue, target>>

\* br.Exec: the result of one query, inside the batch's implicit transaction.
\* A placeholder has no query.
Exec ==
  /\ producePC = "exec"
  /\ execPos <= Len(queue)
  /\ LET k == feed[queue[execPos].idx].key
     IN staged' = IF k \in SkipKeys
                    THEN staged
                    ELSE [staged EXCEPT ![k] = queue[execPos].idx]
  /\ execPos' = execPos + 1
  /\ UNCHANGED <<messages, queue, producePC, target>>

\* Mutant: the batch is closed before all its results were read.
CloseBatchEarly ==
  /\ producePC = "exec"
  /\ execPos >= Len(queue)
  /\ target' = staged
  /\ producePC' = "ack"
  /\ UNCHANGED <<messages, queue, execPos, staged>>

\* br.Close returns nil: the batch is committed.
CloseBatch ==
  /\ producePC = "exec"
  /\ execPos > Len(queue)
  /\ target' = staged
  /\ producePC' = "ack"
  /\ UNCHANGED <<messages, queue, execPos, staged>>

\* The Ack of the last item of the batch, first half.
AckUpdate ==
  /\ producePC = "ack"
  /\ UpdateXLogPos(queue[Len(queue)].lsn)
  /\ producePC' = "send"
  /\ UNCHANGED <<messages, queue, execPos, staged, target>>

\* Second half: LoadXLogPos again and SendStandbyStatusUpdate; the batch is done.
AckSend ==
  /\ producePC = "send"
  /\ confirmed' = Confirm(lastXLogPos)
  /\ queue' = << >>
  /\ producePC' = "collect"
  /\ UNCHANGED <<messages, execPos, staged, target>>

\* The process dies; an open batch transaction is rolled back.
ProduceDown ==
  /\ messages' = << >>
  /\ queue' = << >>
  /\ producePC' = "collect"
  /\ execPos' = 1
  /\ staged' = target
  /\ UNCHANGED target
=============================================================================
