------------------------------ MODULE Snapshot ------------------------------
(***************************************************************************)
(* The snapshotter of pq/snapshot: instances of the program share the rows *)
(* of cdc_snapshot_job and cdc_snapshot_chunks.  The one that gets the     *)
(* advisory lock is the coordinator: it captures the LSN, exports a        *)
(* snapshot, creates the chunk rows and the job row.  Every instance then  *)
(* claims chunks and reads them under the exported snapshot, until there   *)
(* is none left to claim.                                                  *)
(*                                                                         *)
(* Each SQL statement on the metadata is one step.  The rows of a table    *)
(* are left out: a chunk is delivered under a snapshot or it is not.       *)
(***************************************************************************)
EXTENDS Integers, FiniteSets

CONSTANTS
  Instances,    \* processes that run the connector for one slot
  NumChunks,    \* chunks of the job, each inserted by a statement of its own
  MaxExports,   \* bound: exported snapshots that are in use at a time
  MaxAttempts,  \* attempts of retryOperation: 3 in prepareSnapshotAndSlot
  MaxRetries,   \* attempts of Execute: 5 in executeSnapshotWithRetry
  LiveExpiry,   \* the claim of a process that still runs may expire
  Nobody        \* no instance

ASSUME NumChunksAssumption == NumChunks \in Nat \ {0}
ASSUME ExportsAssumption == MaxExports \in Nat \ {0}
ASSUME AttemptsAssumption == MaxAttempts \in Nat \ {0} /\ MaxRetries \in Nat \ {0}
ASSUME ExpiryAssumption == LiveExpiry \in BOOLEAN
ASSUME NobodyAssumption == Nobody \notin Instances

VARIABLES
  inst,        \* what each process keeps in memory
  job,         \* the row of cdc_snapshot_job, or NoJob
  rows,        \* the rows of cdc_snapshot_chunks, or NoRow
  lock,        \* who holds the coordinator's advisory lock
  exporter,    \* whose open transaction exports the snapshot, or Nobody
  views,       \* the WAL position a snapshot was taken at
  delivered,   \* chunks handed to a listener under a snapshot
  asOf,        \* the latest WAL position a chunk was handed to a listener as of
  wal          \* the source's WAL position

snapshotVars == <<inst, job, rows, lock, exporter, views, delivered, asOf, wal>>

Chunks == 1 .. NumChunks
SnapshotIds == 1 .. MaxExports

\* Job: snapshot_id, snapshot_lsn, completed_chunks, completed.
Job == [snap : SnapshotIds, lsn : Nat, count : Nat, completed : BOOLEAN]
NoJob == [snap |-> 0, lsn |-> 0, count |-> 0, completed |-> FALSE]

\* Chunk: snap stands for the serial id, fresh for every row inserted.
Status == {"pending", "in_progress", "completed"}
Row == [snap : SnapshotIds, status : Status, by : Instances \cup {Nobody}]
NoRow == [snap |-> 0, status |-> "none", by |-> Nobody]

PCs == {"down", "start", "wipeChunks", "wipeJob", "slot", "createSlot",
        "slotOnly", "lock", "lsn", "load", "cleanChunks", "cleanJob", "export", "chunks", "saveJob",
        "waitJob", "waitChunks", "execute", "claim", "begin", "release", "read",
        "mark", "count", "finalize", "markJob", "close", "commit", "capture",
        "fetch", "open", "streaming"}

\* A process that has just been started.
Fresh == [pc |-> "start", lsn |-> 0, loaded |-> 0, chunk |-> 0, rowSnap |-> 0,
          attempt |-> 1, retry |-> 1, conn |-> 0, coordinator |-> FALSE,
          fromSnapshot |-> FALSE, finalized |-> FALSE]

Instance ==
  [pc : PCs,
   lsn : Nat,                         \* LSN captured, or fetched to open from
   loaded : SnapshotIds \cup {0},     \* snapshot_id of the job Execute loaded
   chunk : Chunks \cup {0},           \* chunk inserted next, or claimed
   rowSnap : SnapshotIds \cup {0},    \* with chunk: the id of the row claimed
   attempt : 1 .. MaxAttempts,
   retry : 1 .. MaxRetries,
   conn : SnapshotIds \cup {0},       \* snapshot of exportSnapshotConn
   coordinator : BOOLEAN,
   fromSnapshot : BOOLEAN,            \* openFromSnapshotLSN of the stream
   finalized : BOOLEAN]               \* the metadata connection was closed

SnapshotTypeOK ==
  /\ inst \in [Instances -> Instance]
  /\ job \in Job \cup {NoJob}
  /\ rows \in [Chunks -> Row \cup {NoRow}]
  /\ lock \in Instances \cup {Nobody}
  /\ exporter \in [SnapshotIds -> Instances \cup {Nobody}]
  /\ views \in [SnapshotIds -> Nat]
  /\ delivered \in [SnapshotIds -> SUBSET Chunks]
  /\ asOf \in [Chunks -> Nat]
  /\ wal \in Nat \ {0}

SnapshotInit ==
  /\ inst = [i \in Instances |-> Fresh]
  /\ job = NoJob
  /\ rows = [c \in Chunks |-> NoRow]
  /\ lock = Nobody
  /\ exporter = [s \in SnapshotIds |-> Nobody]
  /\ views = [s \in SnapshotIds |-> 0]
  /\ delivered = [s \in SnapshotIds |-> {}]
  /\ asOf = [c \in Chunks |-> 0]
  /\ wal = 1

At(i, p) == inst[i].pc = p
Goto(i, p) == inst' = [inst EXCEPT ![i].pc = p]

\* The process is gone, and with it its database sessions: the lock is free and
\* its exported snapshots can no longer be imported.
Exit(i) ==
  /\ inst' = [inst EXCEPT ![i] = [Fresh EXCEPT !.pc = "down"]]
  /\ lock' = IF lock = i THEN Nobody ELSE lock
  /\ exporter' = [s \in SnapshotIds |-> IF exporter[s] = i THEN Nobody ELSE exporter[s]]

\* Mutant: one attempt too many.
FailOneMore(i) ==
  IF inst[i].attempt <= MaxAttempts
    THEN /\ inst' = [inst EXCEPT ![i].pc = "slot", ![i].attempt = @ + 1,
                                 ![i].chunk = 0, ![i].rowSnap = 0]
         /\ UNCHANGED <<lock, exporter>>
    ELSE Exit(i)

\* retryOperation: Prepare or Execute failed; the last attempt ends Start.
Fail(i) ==
  IF inst[i].attempt < MaxAttempts
    THEN /\ inst' = [inst EXCEPT ![i].pc = "slot", ![i].attempt = @ + 1,
                                 ![i].chunk = 0, ![i].rowSnap = 0]
         /\ UNCHANGED <<lock, exporter>>
    ELSE Exit(i)

-----------------------------------------------------------------------------
(* Prepare: coordinator election and the job's metadata.                   *)

\* pg_try_advisory_lock: the session that has the lock gets it again.
TryAcquireCoordinatorLock(i) ==
  /\ At(i, "lock")
  /\ IF lock \in {Nobody, i}
       THEN lock' = i /\ Goto(i, "lsn")
       ELSE UNCHANGED lock /\ Goto(i, "waitJob")
  /\ UNCHANGED <<job, rows, exporter, views, delivered, asOf, wal>>

GetCurrentLSN(i) ==
  /\ At(i, "lsn")
  /\ inst' = [inst EXCEPT ![i].pc = "load", ![i].lsn = wal]
  /\ UNCHANGED <<job, rows, lock, exporter, views, delivered, asOf, wal>>

\* Mutant: the metadata of a crashed coordinator is kept.
LoadExistingKeeps(i) ==
  /\ At(i, "load")
  /\ Goto(i, "export")
  /\ UNCHANGED <<job, rows, lock, exporter, views, delivered, asOf, wal>>

\* Only an incomplete job is cleaned up.
LoadExisting(i) ==
  /\ At(i, "load")
  /\ Goto(i, IF job # NoJob /\ ~ job.completed THEN "cleanChunks" ELSE "export")
  /\ UNCHANGED <<job, rows, lock, exporter, views, delivered, asOf, wal>>

\* Mutant: the completed chunks of the job that is given up stay.
DeleteChunksUnfinished(i) ==
  /\ At(i, "cleanChunks") \/ At(i, "wipeChunks")
  /\ rows' = [c \in Chunks |-> IF rows[c].status = "completed" THEN rows[c] ELSE NoRow]
  /\ Goto(i, IF At(i, "cleanChunks") THEN "cleanJob" ELSE "wipeJob")
  /\ UNCHANGED <<job, lock, exporter, views, delivered, asOf, wal>>

\* cleanupJob, by the coordinator or by resnapshot: two statements.
DeleteChunks(i) ==
  /\ At(i, "cleanChunks") \/ At(i, "wipeChunks")
  /\ rows' = [c \in Chunks |-> NoRow]
  /\ Goto(i, IF At(i, "cleanChunks") THEN "cleanJob" ELSE "wipeJob")
  /\ UNCHANGED <<job, lock, exporter, views, delivered, asOf, wal>>

DeleteJob(i) ==
  /\ At(i, "cleanJob") \/ At(i, "wipeJob")
  /\ job' = NoJob
  /\ Goto(i, IF At(i, "cleanJob") THEN "export" ELSE "slot")
  /\ UNCHANGED <<rows, lock, exporter, views, delivered, asOf, wal>>

\* Snapshot ids are never reused by the server; the model reuses one that no
\* process and no row refers to.
Unused(s) ==
  /\ exporter[s] = Nobody
  /\ job.snap # s
  /\ \A c \in Chunks : rows[c].snap # s
  /\ \A i \in Instances : s \notin {inst[i].loaded, inst[i].rowSnap, inst[i].conn}

\* exportSnapshotTransaction: a new session, whatever exportSnapshotConn held.
\* It stays open.
ExportSnapshot(i) ==
  /\ At(i, "export")
  /\ \E s \in SnapshotIds :
       /\ Unused(s)
       /\ \A r \in SnapshotIds : Unused(r) => s <= r
       /\ exporter' = [exporter EXCEPT ![s] = i]
       /\ views' = [views EXCEPT ![s] = wal]
       /\ delivered' = [delivered EXCEPT ![s] = {}]
       /\ inst' = [inst EXCEPT ![i].pc = "chunks", ![i].conn = s, ![i].chunk = 1]
  /\ UNCHANGED <<job, rows, lock, asOf, wal>>

\* saveChunksBatch: a row that is already there violates the table's UNIQUE
\* constraint.
InsertChunk(i) ==
  /\ At(i, "chunks")
  /\ LET c == inst[i].chunk
     IN IF rows[c] # NoRow
          THEN Fail(i) /\ UNCHANGED rows
          ELSE /\ rows' = [rows EXCEPT ![c] = [snap |-> inst[i].conn,
                                               status |-> "pending", by |-> Nobody]]
               /\ inst' = [inst EXCEPT ![i].pc = IF c = NumChunks THEN "saveJob" ELSE @,
                                       ![i].chunk = IF c = NumChunks THEN 0 ELSE @ + 1]
               /\ UNCHANGED <<lock, exporter>>
  /\ UNCHANGED <<job, views, delivered, asOf, wal>>

\* Mutant: the LSN is captured when the job is saved.
SaveJobLateLsn(i) ==
  /\ At(i, "saveJob")
  /\ IF job # NoJob
       THEN Fail(i) /\ UNCHANGED job
       ELSE /\ job' = [snap |-> inst[i].conn, lsn |-> wal, count |-> 0,
                       completed |-> FALSE]
            /\ inst' = [inst EXCEPT ![i].pc = "execute", ![i].lsn = 0, ![i].retry = 1,
                                    ![i].coordinator = TRUE, ![i].fromSnapshot = TRUE]
            /\ UNCHANGED <<lock, exporter>>
  /\ UNCHANGED <<rows, views, delivered, asOf, wal>>

\* saveJob ends Prepare; the stream will open from the job's LSN.
SaveJob(i) ==
  /\ At(i, "saveJob")
  /\ IF job # NoJob
       THEN Fail(i) /\ UNCHANGED job
       ELSE /\ job' = [snap |-> inst[i].conn, lsn |-> inst[i].lsn, count |-> 0,
                       completed |-> FALSE]
            /\ inst' = [inst EXCEPT ![i].pc = "execute", ![i].lsn = 0, ![i].retry = 1,
                                    ![i].coordinator = TRUE, ![i].fromSnapshot = TRUE]
            /\ UNCHANGED <<lock, exporter>>
  /\ UNCHANGED <<rows, views, delivered, asOf, wal>>

\* waitForCoordinator: the job first, then its chunks; from the start again if
\* either is missing.
WaitForJob(i) ==
  /\ At(i, "waitJob")
  /\ job # NoJob
  /\ Goto(i, "waitChunks")
  /\ UNCHANGED <<job, rows, lock, exporter, views, delivered, asOf, wal>>

HasChunksReady(i) ==
  /\ At(i, "waitChunks")
  /\ IF \E c \in Chunks : rows[c] # NoRow
       THEN inst' = [inst EXCEPT ![i].pc = "execute", ![i].retry = 1,
                                 ![i].coordinator = FALSE, ![i].fromSnapshot = TRUE]
       ELSE Goto(i, "waitJob")
  /\ UNCHANGED <<job, rows, lock, exporter, views, delivered, asOf, wal>>

\* The five minutes are over.
WaitTimeout(i) ==
  /\ At(i, "waitJob")
  /\ Fail(i)
  /\ UNCHANGED <<job, rows, views, delivered, asOf, wal>>

-----------------------------------------------------------------------------
(* Execute: the worker's loop.                                             *)

\* The job is loaded once; without it Execute fails.
LoadJob(i) ==
  /\ At(i, "execute")
  /\ IF job = NoJob
       THEN Fail(i)
       ELSE /\ inst' = [inst EXCEPT ![i].pc = "claim", ![i].loaded = job.snap]
            /\ UNCHANGED <<lock, exporter>>
  /\ UNCHANGED <<job, rows, views, delivered, asOf, wal>>

\* A claim stays fresh while its owner works on the chunk and its heartbeat
\* comes through.
Working(i, c) ==
  /\ inst[i].chunk = c
  /\ inst[i].rowSnap = rows[c].snap
  /\ inst[i].pc \in {"begin", "read", "mark", "release"}

Expired(c) ==
  /\ rows[c].status = "in_progress"
  /\ LiveExpiry \/ ~ Working(rows[c].by, c)

\* claimNextChunk: pending, or in progress with an old heartbeat (the order by
\* chunk_index is left open).
ClaimNextChunk(i) ==
  /\ At(i, "claim")
  /\ \E c \in Chunks :
       /\ rows[c].status = "pending" \/ Expired(c)
       /\ rows' = [rows EXCEPT ![c].status = "in_progress", ![c].by = i]
       /\ inst' = [inst EXCEPT ![i].pc = "begin", ![i].chunk = c,
                               ![i].rowSnap = rows[c].snap]
  /\ UNCHANGED <<job, lock, exporter, views, delivered, asOf, wal>>

\* Nothing pending, and no claim old enough: the loop ends.
NoMoreChunks(i) ==
  /\ At(i, "claim")
  /\ \A c \in Chunks : rows[c].status # "pending"
  /\ inst' = [inst EXCEPT ![i].pc = "finalize", ![i].chunk = 0, ![i].rowSnap = 0]
  /\ UNCHANGED <<job, rows, lock, exporter, views, delivered, asOf, wal>>

\* Mutant: the error of SET TRANSACTION SNAPSHOT is dropped.
SetTransactionSnapshotUnchecked(i) ==
  /\ At(i, "begin")
  /\ Goto(i, "read")
  /\ UNCHANGED <<job, rows, lock, exporter, views, delivered, asOf, wal>>

\* SET TRANSACTION SNAPSHOT fails unless the exporting transaction is open.
SetTransactionSnapshot(i) ==
  /\ At(i, "begin")
  /\ Goto(i, IF exporter[inst[i].loaded] # Nobody THEN "read" ELSE "release")
  /\ UNCHANGED <<job, rows, lock, exporter, views, delivered, asOf, wal>>

\* processChunk: the chunk's rows go to the listener.
ProcessChunk(i) ==
  /\ At(i, "read")
  /\ delivered' = [delivered EXCEPT ![inst[i].loaded] = @ \cup {inst[i].chunk}]
  /\ asOf' = [asOf EXCEPT ![inst[i].chunk] =
                IF @ < views[inst[i].loaded] THEN views[inst[i].loaded] ELSE @]
  /\ Goto(i, "mark")
  /\ UNCHANGED <<job, rows, lock, exporter, views, wal>>

\* The row this process claimed is still there.
RowThere(i) == rows[inst[i].chunk].snap = inst[i].rowSnap

\* markChunkCompleted, first statement: whoever has claimed the row meanwhile.
MarkChunkCompleted(i) ==
  /\ At(i, "mark")
  /\ rows' = IF RowThere(i)
               THEN [rows EXCEPT ![inst[i].chunk].status = "completed"]
               ELSE rows
  /\ inst' = [inst EXCEPT ![i].pc = "count", ![i].chunk = 0, ![i].rowSnap = 0]
  /\ UNCHANGED <<job, lock, exporter, views, delivered, asOf, wal>>

\* Second statement: whichever job has the slot's name.
CountChunk(i) ==
  /\ At(i, "count")
  /\ job' = IF job = NoJob THEN job ELSE [job EXCEPT !.count = @ + 1]
  /\ Goto(i, "claim")
  /\ UNCHANGED <<rows, lock, exporter, views, delivered, asOf, wal>>

\* handleInvalidSnapshot: the chunk goes back and Execute starts again, five
\* times; then log.Fatal.
ReleaseChunk(i) ==
  /\ At(i, "release")
  /\ rows' = IF RowThere(i)
               THEN [rows EXCEPT ![inst[i].chunk].status = "pending",
                                 ![inst[i].chunk].by = Nobody]
               ELSE rows
  /\ IF inst[i].retry < MaxRetries
       THEN /\ inst' = [inst EXCEPT ![i].pc = "execute", ![i].retry = @ + 1,
                                    ![i].chunk = 0, ![i].rowSnap = 0, ![i].loaded = 0]
            /\ UNCHANGED <<lock, exporter>>
       ELSE Exit(i)
  /\ UNCHANGED <<job, views, delivered, asOf, wal>>

-----------------------------------------------------------------------------
(* finalizeSnapshot.                                                       *)

\* Execute returns without an error in either case.
CheckJobCompleted(i) ==
  /\ At(i, "finalize")
  /\ LET there == {c \in Chunks : rows[c] # NoRow}
     IN inst' = [inst EXCEPT
          ![i].pc = IF there # {} /\ \A c \in there : rows[c].status = "completed"
                      THEN "markJob" ELSE "commit",
          ![i].loaded = 0]
  /\ UNCHANGED <<job, rows, lock, exporter, views, delivered, asOf, wal>>

MarkJobAsCompleted(i) ==
  /\ At(i, "markJob")
  /\ job' = IF job = NoJob THEN job ELSE [job EXCEPT !.completed = TRUE]
  /\ Goto(i, "close")
  /\ UNCHANGED <<rows, lock, exporter, views, delivered, asOf, wal>>

\* The transaction exportSnapshotConn holds ends.
CommitExport(i) ==
  exporter' = IF inst[i].conn = 0 THEN exporter
                                  ELSE [exporter EXCEPT ![inst[i].conn] = Nobody]

\* closeAllConnections: the lock goes with the metadata connection.
CloseAllConnections(i) ==
  /\ At(i, "close")
  /\ CommitExport(i)
  /\ lock' = IF lock = i THEN Nobody ELSE lock
  /\ inst' = [inst EXCEPT ![i].pc = "commit", ![i].conn = 0, ![i].finalized = TRUE]
  /\ UNCHANGED <<job, rows, views, delivered, asOf, wal>>
=============================================================================
