----------------------------- MODULE Migration ------------------------------
(***************************************************************************)
(* A whole migration by instances of example/postgresql/main.go: the rows  *)
(* of the snapshot's chunks go through Produce into the target, then one   *)
(* instance streams the changes (or, with --snapshot=only, all of them end *)
(* when their rows are written).                                           *)
(*                                                                         *)
(* The statements of the coordinator and the claims are module Connector's; *)
(* here a job is exported, a chunk claimed and read, and the end of        *)
(* Execute found, in one step each.  `messages' and the batch of Produce   *)
(* are one buffer of which a flush takes a prefix (full batch, CDC timer,  *)
(* idle ticker).                                                           *)
(***************************************************************************)
EXTENDS RowImage, Sequences, FiniteSetsExt

CONSTANTS
  Instances, Nobody,
  ChunkRows,    \* the keys of each chunk, in the order they are read
  Scenarios,    \* what the source does
  ChunkSize,    \* --chunksize: the size of a batch
  BufferSize,   \* messages and the batch together
  MaxCrashes    \* bound: how often processes die

\* The operations of the source, in order, and --snapshot=only.
Ops == [op : {"insert", "update", "delete"}, key : Keys, to : Keys, toasted : BOOLEAN]
Scenario == [ops : Seq(Ops), only : BOOLEAN]

\* Events after which the program does not make up for the rows concerned:
\*   rowsLost     a process died with rows of completed chunks in its memory;
\*   replaced     a second job exported other rows than the first, of which some
\*                had been read;
\*   overwritten  a batch with changes put a row of the snapshot over a newer one, or
\*                deleted a row that another instance has still to write;
\*   skipped      a stream opened at the LSN of the job although an earlier one had
\*                gone back behind it.
Mishaps == {"rowsLost", "replaced", "overwritten", "skipped"}

ASSUME ScenariosAssumption == Scenarios \subseteq Scenario
ASSUME NobodyAssumption == Nobody \notin Instances
ASSUME SizesAssumption == ChunkSize \in Nat \ {0} /\ BufferSize \in Nat \ {0}
ASSUME MaxCrashesAssumption == MaxCrashes \in Nat
ASSUME ChunkRowsAssumption == ChunkRows \in Seq(Seq(Keys))

VARIABLES
  scenario,
  source,      \* the source table
  log,         \* the messages of its changes; the position of one is its index
  job,         \* state, LSN, the table as exported, who holds the lock
  chunks,      \* per chunk "pending", "completed", or the instance that claimed it
  confirmed,   \* the slot's position, or NoSlot
  streamer,    \* who streams from the slot
  target,
  inst,        \* what each process keeps in memory
  crashes,
  rewound,     \* a stream has begun before the LSN of the job
  mishaps      \* the events of Mishaps that have happened

history == <<rewound, mishaps>>
vars == <<scenario, source, log, job, chunks, confirmed, streamer, target, inst, crashes, history>>

NoSlot == -1
Chunks == DOMAIN ChunkRows

\* An item of Produce: a row of a chunk, or the message at a position of the log.
SnapshotItem(c, k) == [source |-> "snapshot", chunk |-> c, data |-> FullTuple(k, job.view[k]), pos |-> 0]
CdcItem(p) == [source |-> "cdc", chunk |-> 0, data |-> NoTuple, pos |-> p]

PCs == {"down", "start", "elect", "export", "work", "wait", "stream", "close", "done"}
Fresh == [pc |-> "start", chunk |-> 0, rows |-> << >>, buffer |-> << >>, phase |-> "collect",
          size |-> 0, fromSnapshot |-> FALSE, pos |-> 0]

Item == [source : {"snapshot", "cdc"}, chunk : {0} \cup Chunks, data : Tuple, pos : Nat]

Job == [state : {"none", "preparing", "open", "completed"}, lsn : Nat, view : Tables,
        coordinator : Instances \cup {Nobody}]

Instance ==
  [pc : PCs,
   chunk : {0} \cup Chunks,               \* chunk claimed, or 0
   rows : Seq(Item),                      \* its rows not yet handed to the channel
   buffer : Seq(Item),
   phase : {"collect", "replay", "ack"},
   size : 0 .. ChunkSize,                 \* items of the batch replayed or to be acknowledged
   fromSnapshot : BOOLEAN,                \* openFromSnapshotLSN
   pos : Nat]                             \* position received last

TypeOK ==
  /\ scenario \in Scenarios
  /\ source \in Tables /\ target \in Tables
  /\ log \in Seq(Message)
  /\ job \in Job /\ job.lsn <= Len(log)
  /\ chunks \in [Chunks -> {"pending", "completed"} \cup Instances]
  /\ confirmed \in {NoSlot} \cup (0 .. Len(log))
  /\ streamer \in Instances \cup {Nobody}
  /\ inst \in [Instances -> Instance]
  /\ \A i \in Instances : Len(inst[i].buffer) <= BufferSize /\ inst[i].pos <= Len(log)
  /\ crashes \in 0 .. MaxCrashes
  /\ rewound \in BOOLEAN /\ mishaps \subseteq Mishaps

Init ==
  /\ scenario \in Scenarios
  /\ source = [k \in Keys |-> [v |-> 1, t |-> 1]]
  /\ log = << >>
  /\ job = [state |-> "none", lsn |-> 0, view |-> source, coordinator |-> Nobody]
  /\ chunks = [c \in Chunks |-> "pending"]
  /\ confirmed = NoSlot
  /\ streamer = Nobody
  /\ target = [k \in Keys |-> Absent]
  /\ inst = [i \in Instances |-> Fresh]
  /\ crashes = 0
  /\ rewound = FALSE
  /\ mishaps = {}

At(i, p) == inst[i].pc = p

\* The values the change at a position writes; those of the first rows are 1.
ValueAt(pos) == pos + 1
PositionOf(val) == val - 1

\* The statement affects a row, and violates no primary key.
Legal(o) ==
  IF o.op = "insert"
    THEN source[o.key] = Absent
    ELSE /\ source[o.key] # Absent
         /\ o.op = "update" => o.to = o.key \/ source[o.to] = Absent

\* A transaction of one change commits at the source.
SourceCommit ==
  LET n   == Len(log) + 1
      o   == scenario.ops[n]
      old == source[o.key]
      row == [v |-> ValueAt(n), t |-> IF o.op = "update" /\ o.toasted THEN old.t ELSE ValueAt(n)]
  IN /\ n <= Len(scenario.ops)
     /\ Legal(o)
     /\ source' = CASE o.op = "delete" -> [source EXCEPT ![o.key] = Absent]
                    [] o.op = "insert" -> [source EXCEPT ![o.key] = row]
                    [] o.op = "update" -> SourceAfter(source, o.key, o.to, row)
     /\ log' = Append(log, CASE o.op = "delete" -> DeleteMessage(o.key, old)
                             [] o.op = "insert" -> InsertMessage(o.key, row)
                             [] o.op = "update" -> UpdateMessage(o.key, old, o.to, row, o.toasted))
     /\ UNCHANGED <<scenario, job, chunks, confirmed, streamer, target, inst, crashes, history>>

-----------------------------------------------------------------------------
(* Start: the snapshot.                                                    *)

\* Start with a completed job: --snapshot=only has nothing to do, otherwise the
\* slot is there and nothing is waited for.
StartCompleted(i) ==
  /\ At(i, "start")
  /\ job.state = "completed"
  /\ inst' = [inst EXCEPT ![i].pc = IF scenario.only THEN "close" ELSE "wait"]
  /\ UNCHANGED <<scenario, source, log, job, chunks, confirmed, streamer, target, crashes, history>>

\* Otherwise a snapshot is taken, after slot.Create.
CreateSlot(i) ==
  /\ At(i, "start")
  /\ job.state # "completed"
  /\ confirmed' = IF scenario.only \/ confirmed # NoSlot THEN confirmed ELSE Len(log)
  /\ inst' = [inst EXCEPT ![i].pc = "elect"]
  /\ UNCHANGED <<scenario, source, log, job, chunks, streamer, target, crashes, history>>

\* Mutant: a new job is made although the coordinator of the old one is alive.
ElectWithoutLock(i) ==
  /\ At(i, "elect")
  /\ job.state # "completed"
  /\ job' = [job EXCEPT !.state = "preparing", !.lsn = Len(log), !.coordinator = i]
  /\ chunks' = [c \in Chunks |-> "pending"]
  /\ inst' = [inst EXCEPT ![i].pc = "export"]
  /\ UNCHANGED <<scenario, source, log, confirmed, streamer, target, crashes, history>>

\* The instance that gets the coordinator's lock, which a dead process does not hold,
\* captures the LSN and deletes what there is of an open job.
Elect(i) ==
  /\ At(i, "elect")
  /\ job.state # "completed"
  /\ job.coordinator = Nobody
  /\ job' = [job EXCEPT !.state = "preparing", !.lsn = Len(log), !.coordinator = i]
  /\ chunks' = [c \in Chunks |-> "pending"]
  /\ inst' = [inst EXCEPT ![i].pc = "export"]
  /\ UNCHANGED <<scenario, source, log, confirmed, streamer, target, crashes, history>>

\* The job was completed meanwhile: its chunk rows are in the way and Start ends.
ElectTooLate(i) ==
  /\ At(i, "elect")
  /\ job.state = "completed"
  /\ job.coordinator = Nobody
  /\ inst' = [inst EXCEPT ![i] = [Fresh EXCEPT !.pc = "down"]]
  /\ UNCHANGED <<scenario, source, log, job, chunks, confirmed, streamer, target, crashes, history>>

\* No row has been read or written.
Untouched ==
  /\ \A k \in Keys : target[k] = Absent
  /\ \A i \in Instances : inst[i].rows = << >> /\ inst[i].buffer = << >>

\* The snapshot is exported, and the rows of the chunks and of the job inserted.
ExportSnapshot(i) ==
  /\ At(i, "export")
  /\ job' = [job EXCEPT !.state = "open", !.view = source]
  /\ inst' = [inst EXCEPT ![i].pc = "work", ![i].fromSnapshot = TRUE]
  /\ mishaps' = mishaps \cup IF job.view = source \/ Untouched THEN {} ELSE {"replaced"}
  /\ UNCHANGED <<scenario, source, log, chunks, confirmed, streamer, target, crashes, rewound>>

\* waitForCoordinator: the job is there.
Join(i) ==
  /\ At(i, "elect")
  /\ job.state \in {"open", "completed"}
  /\ job.coordinator # Nobody
  /\ inst' = [inst EXCEPT ![i].pc = "work", ![i].fromSnapshot = TRUE]
  /\ UNCHANGED <<scenario, source, log, job, chunks, confirmed, streamer, target, crashes, history>>

\* processChunk: the rows of chunk c in the exported snapshot, in the order of its keys.
RowsOf(c) ==
  LET read[n \in 0 .. Len(ChunkRows[c])] ==
        IF n = 0 THEN << >>
        ELSE IF job.view[ChunkRows[c][n]] = Absent THEN read[n - 1]
        ELSE Append(read[n - 1], SnapshotItem(c, ChunkRows[c][n]))
  IN read[Len(ChunkRows[c])]

\* The transaction that exports the snapshot ends when the coordinator leaves Execute,
\* with --snapshot=only when the job is completed or its process exits.
Exporting ==
  /\ job.state = "open" /\ job.coordinator # Nobody
  /\ At(job.coordinator, "work") \/ At(job.coordinator, "close")

\* A chunk that is pending, or whose claim has expired, is claimed and read under the
\* exported snapshot.
ClaimChunk(i) ==
  /\ At(i, "work")
  /\ inst[i].chunk = 0
  /\ Exporting
  /\ \E c \in Chunks :
       /\ chunks[c] = "pending" \/ (chunks[c] \in Instances /\ inst[chunks[c]].chunk # c)
       /\ chunks' = [chunks EXCEPT ![c] = i]
       /\ inst' = [inst EXCEPT ![i].chunk = c, ![i].rows = RowsOf(c)]
  /\ UNCHANGED <<scenario, source, log, job, confirmed, streamer, target, crashes, history>>

\* handleSnapshot: a row goes into the channel, which may be full.
HandleSnapshot(i) ==
  /\ inst[i].rows # << >>
  /\ Len(inst[i].buffer) < BufferSize
  /\ inst' = [inst EXCEPT ![i].buffer = Append(@, Head(inst[i].rows)), ![i].rows = Tail(@)]
  /\ UNCHANGED <<scenario, source, log, job, chunks, confirmed, streamer, target, crashes, history>>

\* The chunk is completed when its rows are in the channel.
MarkChunkCompleted(i) ==
  /\ inst[i].chunk # 0
  /\ inst[i].rows = << >>
  /\ chunks' = IF chunks[inst[i].chunk] = i
                 THEN [chunks EXCEPT ![inst[i].chunk] = "completed"]
                 ELSE chunks
  /\ inst' = [inst EXCEPT ![i].chunk = 0]
  /\ UNCHANGED <<scenario, source, log, job, confirmed, streamer, target, crashes, history>>

\* Execute ends when nothing is pending, or there is no job: others may still read
\* their chunks.  The job is completed if all chunks are, and then the lock is given
\* back.  With --snapshot=only Start returns and main closes the channel.
FinishSnapshot(i) ==
  /\ At(i, "work")
  /\ inst[i].chunk = 0
  /\ job.state = "preparing" \/ \A c \in Chunks : chunks[c] # "pending"
  /\ job' = IF job.state # "preparing" /\ \A c \in Chunks : chunks[c] = "completed"
              THEN [job EXCEPT !.state = "completed", !.coordinator = IF @ = i THEN Nobody ELSE @]
              ELSE job
  /\ inst' = [inst EXCEPT ![i].pc = IF scenario.only THEN "close" ELSE "wait"]
  /\ UNCHANGED <<scenario, source, log, chunks, confirmed, streamer, target, crashes, history>>

\* Mutant: main does not wait for Produce.
ProduceDoneAtOnce(i) ==
  /\ At(i, "close")
  /\ inst' = [inst EXCEPT ![i].pc = "done", ![i].buffer = << >>, ![i].phase = "collect"]
  /\ job' = [job EXCEPT !.coordinator = IF @ = i THEN Nobody ELSE @]
  /\ UNCHANGED <<scenario, source, log, chunks, confirmed, streamer, target, crashes, history>>

\* The closed channel has been drained and the last batch written: produceDone.  The
\* process exits.
ProduceDone(i) ==
  /\ At(i, "close")
  /\ inst[i].buffer = << >>
  /\ inst' = [inst EXCEPT ![i].pc = "done"]
  /\ job' = [job EXCEPT !.coordinator = IF @ = i THEN Nobody ELSE @]
  /\ UNCHANGED <<scenario, source, log, chunks, confirmed, streamer, target, crashes, history>>

-----------------------------------------------------------------------------
(* Start: the stream.                                                      *)

SnapshotRowsIn(i) == {n \in DOMAIN inst[i].buffer : inst[i].buffer[n].source = "snapshot"}

\* The slot is free: START_REPLICATION from the LSN of the job, when it is completed,
\* or from the slot's.  Whether the other instances have written their rows is not
\* known: the 60 seconds may be too short, and are not waited for by every instance.
OpenStream(i) ==
  /\ At(i, "wait")
  /\ streamer = Nobody
  /\ inst[i].fromSnapshot => job.state = "completed"
  /\ LET ahead == inst[i].fromSnapshot /\ confirmed < job.lsn
     IN /\ inst' = [inst EXCEPT ![i].pc = "stream", ![i].pos = IF ahead THEN job.lsn ELSE confirmed]
        /\ rewound' = (rewound \/ (~ ahead /\ confirmed < job.lsn))
        /\ mishaps' = mishaps \cup IF ahead /\ rewound THEN {"skipped"} ELSE {}
  /\ streamer' = i
  /\ UNCHANGED <<scenario, source, log, job, chunks, confirmed, target, crashes>>

\* FilteredMapper: the next change goes into the channel.
Receive(i) ==
  /\ At(i, "stream")
  /\ inst[i].pos < Len(log)
  /\ Len(inst[i].buffer) < BufferSize
  /\ inst' = [inst EXCEPT ![i].pos = @ + 1, ![i].buffer = Append(@, CdcItem(inst[i].pos + 1))]
  /\ UNCHANGED <<scenario, source, log, job, chunks, confirmed, streamer, target, crashes, history>>

-----------------------------------------------------------------------------
(* Produce: flushBatch.                                                    *)

AllSnapshot(items) == \A n \in DOMAIN items : items[n].source = "snapshot"

\* COPY fails with 23505 on a row that is there, or twice in the batch.
Conflict(items) ==
  \/ \E n \in DOMAIN items : target[items[n].data["id"]] # Absent
  \/ \E m, n \in DOMAIN items : m # n /\ items[m].data["id"] = items[n].data["id"]

\* How many items a flush may find collected.
BatchSizes(i) == {n \in DOMAIN inst[i].buffer : n <= ChunkSize}

Drop(i, n) == SubSeq(inst[i].buffer, n + 1, Len(inst[i].buffer))

\* The statement for an item; a row of the snapshot that is there already is kept or
\* replaced.
Write(tab, it, keep) ==
  IF it.source = "cdc" THEN Execute(tab, log[it.pos])
  ELSE IF keep THEN InsertDoNothing(tab, it.data)
  ELSE Upsert(tab, it.data)

\* The table after the first n statements of the batch of process i, for every n.
Written(i, keep) ==
  LET tab[n \in 0 .. Len(inst[i].buffer)] ==
        IF n = 0 THEN target ELSE Write(tab[n - 1], inst[i].buffer[n], keep)
  IN tab

\* flushBatchSnapshotCopy, in a transaction; the Ack of a row of the snapshot does
\* nothing.  After a conflict the batch is replayed.
FlushSnapshotCopy(i) ==
  /\ inst[i].phase = "collect"
  /\ \E n \in BatchSizes(i) :
       LET items == SubSeq(inst[i].buffer, 1, n)
       IN /\ AllSnapshot(items)
          /\ IF Conflict(items)
               THEN /\ inst' = [inst EXCEPT ![i].phase = "replay", ![i].size = n]
                    /\ UNCHANGED target
               ELSE /\ target' = Written(i, FALSE)[n]
                    /\ inst' = [inst EXCEPT ![i].buffer = Drop(i, n)]
  /\ UNCHANGED <<scenario, source, log, job, chunks, confirmed, streamer, crashes, history>>

\* flushBatchSnapshotDoNothing, in a transaction of its own.
FlushSnapshotDoNothing(i) ==
  /\ inst[i].phase = "replay"
  /\ target' = Written(i, TRUE)[inst[i].size]
  /\ inst' = [inst EXCEPT ![i].phase = "collect", ![i].size = 0,
                          ![i].buffer = Drop(i, inst[i].size)]
  /\ UNCHANGED <<scenario, source, log, job, chunks, confirmed, streamer, crashes, history>>

\* Writing n items of process i replaces a row by an older one of the snapshot, or
\* deletes one that another process has still to write.
Overwrites(i, n) ==
  \E m \in 1 .. n :
    LET it == inst[i].buffer[m]
    IN IF it.source = "snapshot"
         THEN target[it.data["id"]] # Absent /\ target[it.data["id"]].v > it.data["v"]
         ELSE /\ log[it.pos].op = "delete"
              /\ \E x \in Instances \ {i} : \E late \in {inst[x].rows, inst[x].buffer} :
                   \E y \in DOMAIN late :
                     late[y].source = "snapshot" /\ late[y].data["id"] = Decoded(log[it.pos])["id"]

\* flushBatchGeneric: rows of the snapshot are upserted too.
FlushGeneric(i) ==
  /\ inst[i].phase = "collect"
  /\ \E n \in BatchSizes(i) :
       LET items == SubSeq(inst[i].buffer, 1, n)
       IN /\ ~ AllSnapshot(items)
          /\ target' = Written(i, FALSE)[n]
          /\ inst' = [inst EXCEPT ![i].phase = "ack", ![i].size = n]
          /\ mishaps' = mishaps \cup IF Overwrites(i, n) THEN {"overwritten"} ELSE {}
  /\ UNCHANGED <<scenario, source, log, job, chunks, confirmed, streamer, crashes, rewound>>

\* The changes in the batch of process i.
CdcIn(i) == {n \in 1 .. inst[i].size : inst[i].buffer[n].source = "cdc"}

\* Mutant: the position received last is acknowledged.
AckBatchReceived(i) ==
  /\ inst[i].phase = "ack"
  /\ confirmed' = inst[i].pos
  /\ inst' = [inst EXCEPT ![i].phase = "collect", ![i].size = 0,
                          ![i].buffer = Drop(i, inst[i].size)]
  /\ UNCHANGED <<scenario, source, log, job, chunks, streamer, target, crashes, history>>

\* Mutant: the position after the last change is acknowledged.
AckBatchNext(i) ==
  /\ inst[i].phase = "ack"
  /\ confirmed' = inst[i].buffer[Max(CdcIn(i))].pos + 1
  /\ inst' = [inst EXCEPT ![i].phase = "collect", ![i].size = 0,
                          ![i].buffer = Drop(i, inst[i].size)]
  /\ UNCHANGED <<scenario, source, log, job, chunks, streamer, target, crashes, history>>

\* The Ack of the last change of the batch.
AckBatch(i) ==
  /\ inst[i].phase = "ack"
  /\ confirmed' = inst[i].buffer[Max(CdcIn(i))].pos
  /\ inst' = [inst EXCEPT ![i].phase = "collect", ![i].size = 0,
                          ![i].buffer = Drop(i, inst[i].size)]
  /\ UNCHANGED <<scenario, source, log, job, chunks, streamer, target, crashes, history>>

-----------------------------------------------------------------------------

\* Its memory is lost; a claim of it expires.
Crash(i) ==
  /\ inst[i].pc \notin {"down", "done"}
  /\ crashes < MaxCrashes
  /\ crashes' = crashes + 1
  /\ inst' = [inst EXCEPT ![i] = [Fresh EXCEPT !.pc = "down"]]
  /\ streamer' = IF streamer = i THEN Nobody ELSE streamer
  /\ job' = [job EXCEPT !.coordinator = IF @ = i THEN Nobody ELSE @]
  /\ mishaps' = mishaps \cup
       IF \E n \in SnapshotRowsIn(i) : chunks[inst[i].buffer[n].chunk] = "completed"
         THEN {"rowsLost"} ELSE {}
  /\ UNCHANGED <<scenario, source, log, chunks, confirmed, target, rewound>>

Restart(i) ==
  /\ At(i, "down")
  /\ inst' = [inst EXCEPT ![i] = Fresh]
  /\ UNCHANGED <<scenario, source, log, job, chunks, confirmed, streamer, target, crashes, history>>

SnapshotStep(i) ==
  \/ StartCompleted(i) \/ CreateSlot(i) \/ Elect(i) \/ ElectTooLate(i) \/ ExportSnapshot(i)
  \/ Join(i) \/ ClaimChunk(i)
  \/ HandleSnapshot(i) \/ MarkChunkCompleted(i) \/ FinishSnapshot(i) \/ ProduceDone(i)

StreamStep(i) == OpenStream(i) \/ Receive(i)

ProduceStep(i) ==
  \/ FlushSnapshotCopy(i) \/ FlushSnapshotDoNothing(i) \/ FlushGeneric(i) \/ AckBatch(i)

Next ==
  \/ SourceCommit
  \/ \E i \in Instances :
       \/ SnapshotStep(i) \/ StreamStep(i) \/ ProduceStep(i) \/ Crash(i) \/ Restart(i)

Spec == Init /\ [][Next]_vars

\* The goroutines of a process run when they can, and one that died is started again.
\* A process that waits for the slot may wait for ever, but somebody opens a free one.
\* The source need not perform all operations of its scenario.
Fairness ==
  \A i \in Instances :
    /\ WF_vars(SnapshotStep(i)) /\ WF_vars(StreamStep(i)) /\ WF_vars(ProduceStep(i))
    /\ WF_vars(Restart(i))

FairSpec == Spec /\ Fairness

-----------------------------------------------------------------------------
(* Properties.                                                             *)

\* Keys that an update renamed: the sink never deletes their old rows.
Renamed == {scenario.ops[n].key : n \in {m \in DOMAIN scenario.ops :
                                           scenario.ops[m].key # scenario.ops[m].to}}

\* Where the migration has to end: the source, or the exported snapshot of it.
Goal == IF scenario.only THEN job.view ELSE source

\* If the job is completed and no mishap happens, the target ends up as the source,
\* or with --snapshot=only as the exported snapshot: whoever reads the chunks, leaves
\* Execute early or dies, with CDC running into rows the snapshot still has to write,
\* chunks delivered twice, batches delivered again after a crash, and unchanged TOAST
\* values.  Only the old row of a key that an update renamed may be left over.
Converges ==
  <>(job.state = "completed") /\ [](mishaps = {}) =>
    <>[](\A k \in Keys : target[k] = Goal[k] \/ (k \in Renamed /\ Goal[k] = Absent))

\* Neither of the two mishaps that concern the order of snapshot and stream.
InOrder == mishaps \cap {"replaced", "skipped"} = {}

Cdc(i, n) == n \in DOMAIN inst[i].buffer /\ inst[i].buffer[n].source = "cdc"
PosAt(i, n) == inst[i].buffer[n].pos

\* The positions whose changes the stream has still to bring, when e items of the
\* streamer's buffer have been executed.
ComingAfter(i, e) ==
  {p \in Nat : At(i, "stream") =>
     \/ inst[i].pos < p
     \/ \E n \in DOMAIN inst[i].buffer : e < n /\ Cdc(i, n) /\ PosAt(i, n) = p}

Executed(i) == IF inst[i].phase = "ack" THEN inst[i].size ELSE 0

\* The change at p will come: it is not confirmed, the streamer has not executed it,
\* and a stream that opens at the LSN of the job begins before it.
Coming(p) ==
  /\ confirmed < p
  /\ rewound \/ job.lsn < p
  /\ \A i \in Instances : p \in ComingAfter(i, Executed(i))

\* The row that ON CONFLICT DO NOTHING keeps is not older than the row of the
\* snapshot it is kept from, or the stream has still to bring the change it lacks
\* (flushBatchSnapshotMultiRow: the existing row must be kept), unless a second job
\* or a second stream has got the rows out of order.
KeptRowIsCurrent ==
  InOrder =>
    \A i \in Instances :
      inst[i].phase = "replay" =>
        \A n \in 1 .. inst[i].size :
          LET data == inst[i].buffer[n].data
          IN target[data["id"]] # Absent /\ target[data["id"]].v < data["v"] =>
               Coming(PositionOf(data["v"]))

-----------------------------------------------------------------------------
(* Why a kept row is current.                                              *)

\* What a statement about one row needs.
FullRow(d) ==
  DOMAIN d = Columns /\ d["id"] \in Keys /\ d["v"] \in Nat /\ d["t"] \in Nat

\* Every message of the log has a whole row, thanks to REPLICA IDENTITY FULL, and a
\* change writes the value of its position.
LogOK ==
  \A p \in DOMAIN log :
    /\ FullRow(Decoded(log[p]))
    /\ log[p].op # "delete" => Decoded(log[p])["v"] = ValueAt(p)

\* What is on its way to the target can be written; only a streaming process has
\* changes.
ItemsOK(i) ==
  /\ \A n \in DOMAIN inst[i].rows : inst[i].rows[n].source = "snapshot" /\ FullRow(inst[i].rows[n].data)
  /\ \A n \in DOMAIN inst[i].buffer :
       LET it == inst[i].buffer[n]
       IN IF it.source = "snapshot" THEN FullRow(it.data)
                                    ELSE it.pos \in DOMAIN log /\ At(i, "stream")

\* The batch that is replayed or acknowledged is still in the buffer.
BatchOK(i) ==
  /\ inst[i].phase # "collect" => inst[i].size \in 1 .. Len(inst[i].buffer)
  /\ inst[i].phase = "replay" => CdcIn(i) = {}
  /\ inst[i].phase = "ack" => CdcIn(i) # {}

\* The slot is there when a stream may open, which is after the snapshot.
SlotOK ==
  /\ scenario.only => confirmed = NoSlot
  /\ ~ scenario.only /\ job.state # "none" => confirmed # NoSlot
  /\ \A i \in Instances :
       /\ At(i, "elect") /\ ~ scenario.only => confirmed # NoSlot
       /\ At(i, "wait") => ~ scenario.only /\ (job.state = "completed" \/ inst[i].fromSnapshot)
       /\ At(i, "stream") => ~ scenario.only /\ job.state = "completed"
       /\ At(i, "export") => job.coordinator = i /\ job.state = "preparing"
       /\ At(i, "work") => inst[i].fromSnapshot /\ job.state # "none"

ShapeInv == LogOK /\ SlotOK /\ \A i \in Instances : ItemsOK(i) /\ BatchOK(i)

\* Before the job is completed only rows of its snapshot are written.
JobOK(tab) ==
  job.state # "completed" =>
    \A k \in Keys : tab[k] = Absent \/ (job.view[k] # Absent /\ tab[k].v = job.view[k].v)

\* A row shows the change that wrote it last.
ShowsLast(tab) ==
  \A k \in Keys : tab[k] # Absent =>
    LET p == PositionOf(tab[k].v)
    IN /\ p \in 0 .. Len(log)
       /\ p > 0 => log[p].op # "delete" /\ Decoded(log[p])["id"] = k

\* A row of the snapshot on its way is that of the job's snapshot.
OfView(it) ==
  it.source = "snapshot" =>
    LET row == job.view[it.data["id"]] IN row # Absent /\ it.data["v"] = row.v

ViewOK(i) ==
  /\ \A n \in DOMAIN inst[i].rows : OfView(inst[i].rows[n])
  /\ \A n \in DOMAIN inst[i].buffer : OfView(inst[i].buffer[n])

\* The changes the streamer has are not confirmed, after the LSN of the job if no
\* stream went back behind it, in order and without gaps up to the last one received.
StreamOK(i) ==
  /\ At(i, "stream") => /\ streamer = i /\ confirmed <= inst[i].pos
                        /\ rewound \/ job.lsn <= inst[i].pos
  /\ \A n \in DOMAIN inst[i].buffer : Cdc(i, n) =>
       /\ confirmed < PosAt(i, n) /\ PosAt(i, n) <= inst[i].pos
       /\ rewound \/ job.lsn < PosAt(i, n)
       /\ \A m \in DOMAIN inst[i].buffer : Cdc(i, m) /\ n < m => PosAt(i, n) < PosAt(i, m)
       /\ \A q \in (PosAt(i, n) + 1) .. inst[i].pos :
            \E m \in DOMAIN inst[i].buffer : n < m /\ Cdc(i, m) /\ PosAt(i, m) = q

\* A row that is older than the exported one lacks a change that will come.
Lacking(tab, k) == tab[k] # Absent /\ job.view[k] # Absent /\ tab[k].v < job.view[k].v

CurrentOK ==
  \A k \in Keys : Lacking(target, k) => Coming(PositionOf(job.view[k].v))

CurrentInv ==
  /\ JobOK(target)
  /\ ShowsLast(source) /\ ShowsLast(job.view)
  /\ \A i \in Instances : ViewOK(i) /\ StreamOK(i)
  /\ CurrentOK

MigrationInv == ShapeInv /\ (InOrder => CurrentInv)
=============================================================================
