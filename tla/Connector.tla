------------------------------ MODULE Connector -----------------------------
(***************************************************************************)
(* Connector.Start of connector.go on several instances of the program:    *)
(* the replication slot is created, the snapshot is taken (module          *)
(* Snapshot), and one instance after the other waits for the slot and      *)
(* opens the stream from the LSN of the job.                               *)
(***************************************************************************)
EXTENDS Snapshot

CONSTANTS
  Resnapshot,    \* what snapshot.resnapshot may be when a process is started
  CrashPoints,   \* where a process may die
  ErrorPoints,   \* where a statement may fail for good
  MaxWal,        \* bound: the source's WAL positions
  MaxCrashes,    \* bound: how often processes die
  MaxErrors      \* bound: how often statements fail

ASSUME ResnapshotAssumption == Resnapshot \subseteq BOOLEAN
ASSUME PointsAssumption == CrashPoints \subseteq PCs /\ ErrorPoints \subseteq PCs
ASSUME BoundsAssumption == MaxWal \in Nat /\ MaxCrashes \in Nat /\ MaxErrors \in Nat

VARIABLES
  slotLsn,     \* the position the slot was created at, 0 if there is none
  slotOwner,   \* who streams from the slot
  crashes,
  errors

slotVars == <<slotLsn, slotOwner>>
vars == <<snapshotVars, slotVars, crashes, errors>>

TypeOK ==
  /\ SnapshotTypeOK
  /\ slotLsn \in Nat
  /\ slotOwner \in Instances \cup {Nobody}
  /\ crashes \in 0 .. MaxCrashes
  /\ errors \in 0 .. MaxErrors

Init ==
  /\ SnapshotInit
  /\ slotLsn = 0
  /\ slotOwner = Nobody
  /\ crashes = 0
  /\ errors = 0

-----------------------------------------------------------------------------

\* shouldTakeSnapshot.  A Start that begins again after the snapshotter closed
\* its metadata connection dies on the nil connection.
ShouldTakeSnapshot(i) ==
  /\ At(i, "start")
  /\ IF inst[i].finalized
       THEN Exit(i)
       ELSE /\ \E resnapshot \in Resnapshot :
                 inst' = [inst EXCEPT ![i].attempt = 1,
                   ![i].pc = IF resnapshot THEN "wipeChunks"
                             ELSE IF job = NoJob \/ ~ job.completed THEN "slot"
                             ELSE "slotOnly"]
            /\ UNCHANGED <<lock, exporter>>
  /\ UNCHANGED <<job, rows, views, delivered, asOf, wal, slotVars>>

\* slot.Create, before Prepare or without it, asks for the slot and keeps the one
\* that is there.  Beside a completed job there always is one.
SlotInfo(i) ==
  /\ At(i, "slot") \/ At(i, "slotOnly")
  /\ Goto(i, IF At(i, "slotOnly") THEN "capture"
             ELSE IF slotLsn = 0 THEN "createSlot" ELSE "lock")
  /\ UNCHANGED <<job, rows, lock, exporter, views, delivered, asOf, wal, slotVars>>

\* CREATE_REPLICATION_SLOT fails when another instance was faster.
CreateSlot(i) ==
  /\ At(i, "createSlot")
  /\ IF slotLsn # 0
       THEN Fail(i) /\ UNCHANGED slotLsn
       ELSE slotLsn' = wal /\ Goto(i, "lock") /\ UNCHANGED <<lock, exporter>>
  /\ UNCHANGED <<job, rows, views, delivered, asOf, wal, slotOwner>>

\* CommitTransaction, by the coordinator, when Execute has returned.
CommitTransaction(i) ==
  /\ At(i, "commit")
  /\ IF inst[i].coordinator
       THEN /\ CommitExport(i)
            /\ inst' = [inst EXCEPT ![i].pc = "capture", ![i].conn = 0]
       ELSE UNCHANGED exporter /\ Goto(i, "capture")
  /\ UNCHANGED <<job, rows, lock, views, delivered, asOf, wal, slotVars>>

\* CaptureSlot sees the slot inactive.
CaptureSlot(i) ==
  /\ At(i, "capture")
  /\ slotOwner = Nobody
  /\ inst' = [inst EXCEPT ![i].pc = IF inst[i].fromSnapshot THEN "fetch" ELSE "open",
                          ![i].lsn = slotLsn]
  /\ UNCHANGED <<job, rows, lock, exporter, views, delivered, asOf, wal, slotVars>>

\* Mutant: the LSN is taken from a job that is not completed.
FetchSnapshotLSNEarly(i) ==
  /\ At(i, "fetch")
  /\ job # NoJob
  /\ inst' = [inst EXCEPT ![i].pc = "open", ![i].lsn = job.lsn]
  /\ UNCHANGED <<lock, exporter, job, rows, views, delivered, asOf, wal, slotVars>>

\* fetchSnapshotLSN asks until the job is completed; without a job Start ends.
FetchSnapshotLSN(i) ==
  /\ At(i, "fetch")
  /\ \/ /\ job = NoJob
        /\ Exit(i)
     \/ /\ job # NoJob
        /\ job.completed
        /\ inst' = [inst EXCEPT ![i].pc = "open", ![i].lsn = job.lsn]
        /\ UNCHANGED <<lock, exporter>>
  /\ UNCHANGED <<job, rows, views, delivered, asOf, wal, slotVars>>

\* START_REPLICATION, or ErrorSlotInUse and Start from the beginning.
OpenStream(i) ==
  /\ At(i, "open")
  /\ IF slotOwner = Nobody
       THEN slotOwner' = i /\ Goto(i, "streaming")
       ELSE UNCHANGED slotOwner /\ Goto(i, "start")
  /\ UNCHANGED <<job, rows, lock, exporter, views, delivered, asOf, wal, slotLsn>>

-----------------------------------------------------------------------------

Prepare(i) ==
  \/ TryAcquireCoordinatorLock(i) \/ GetCurrentLSN(i) \/ LoadExisting(i)
  \/ DeleteChunks(i) \/ DeleteJob(i) \/ ExportSnapshot(i) \/ InsertChunk(i)
  \/ SaveJob(i) \/ WaitForJob(i) \/ HasChunksReady(i)

Execute(i) ==
  \/ LoadJob(i) \/ ClaimNextChunk(i) \/ NoMoreChunks(i)
  \/ SetTransactionSnapshot(i) \/ ProcessChunk(i) \/ MarkChunkCompleted(i)
  \/ CountChunk(i) \/ ReleaseChunk(i) \/ CheckJobCompleted(i)
  \/ MarkJobAsCompleted(i) \/ CloseAllConnections(i)

Start(i) ==
  \/ ShouldTakeSnapshot(i) \/ SlotInfo(i) \/ CreateSlot(i) \/ CommitTransaction(i)
  \/ CaptureSlot(i) \/ FetchSnapshotLSN(i) \/ OpenStream(i)

Step(i) ==
  /\ \/ Start(i)
     \/ (Prepare(i) \/ Execute(i)) /\ UNCHANGED slotVars
  /\ UNCHANGED <<crashes, errors>>

Timeout(i) == WaitTimeout(i) /\ UNCHANGED <<slotVars, crashes, errors>>

Crash(i) ==
  /\ inst[i].pc \in CrashPoints
  /\ crashes < MaxCrashes
  /\ crashes' = crashes + 1
  /\ Exit(i)
  /\ slotOwner' = IF slotOwner = i THEN Nobody ELSE slotOwner
  /\ UNCHANGED <<job, rows, views, delivered, asOf, wal, slotLsn, errors>>

\* A statement fails and retryDBOperation does not help.  While a chunk is read
\* that is logged and the next one is claimed.  shouldTakeSnapshot, which loads the
\* job or deletes its metadata, takes a snapshot then.  Elsewhere Prepare or Execute
\* fails.
DBError(i) ==
  /\ inst[i].pc \in ErrorPoints
  /\ errors < MaxErrors
  /\ errors' = errors + 1
  /\ CASE At(i, "read") -> Goto(i, "claim") /\ UNCHANGED <<lock, exporter>>
       [] inst[i].pc \in {"start", "wipeChunks", "wipeJob"} ->
            /\ At(i, "start") => FALSE \in Resnapshot /\ ~ inst[i].finalized
            /\ inst' = [inst EXCEPT ![i].pc = "slot", ![i].attempt = 1]
            /\ UNCHANGED <<lock, exporter>>
       [] OTHER -> Fail(i)
  /\ UNCHANGED <<job, rows, views, delivered, asOf, wal, slotVars, crashes>>

Restart(i) ==
  /\ At(i, "down")
  /\ Goto(i, "start")
  /\ UNCHANGED <<job, rows, lock, exporter, views, delivered, asOf, wal, slotVars,
                 crashes, errors>>

\* Transactions commit at the source.
SourceCommit ==
  /\ wal < MaxWal
  /\ wal' = wal + 1
  /\ UNCHANGED <<inst, job, rows, lock, exporter, views, delivered, asOf, slotVars,
                 crashes, errors>>

Next ==
  \/ \E i \in Instances : Step(i) \/ Timeout(i) \/ Crash(i) \/ DBError(i) \/ Restart(i)
  \/ SourceCommit

Spec == Init /\ [][Next]_vars

\* A process that can go on does, and one that died is started again.  Nothing
\* is assumed of timeouts, failures and the source.
Fairness == \A i \in Instances : WF_vars(Step(i)) /\ WF_vars(Restart(i))

FairSpec == Spec /\ Fairness

-----------------------------------------------------------------------------
(* Properties.                                                             *)

\* What a chunk row says is so: a chunk marked completed was delivered under the
\* snapshot of its own job, never under the one of a job that was given up
\* (worker.go executeInTransaction, markChunkCompleted).
CompletedChunksRead ==
  \A c \in Chunks :
    rows[c].status = "completed" => c \in delivered[rows[c].snap]

\* All chunk rows belong to one snapshot, that of the job still open if there is
\* one: two coordinators never mix their metadata (setupJob, initializeCoordinator).
OneJobAtATime ==
  \A c \in Chunks : rows[c] # NoRow =>
    /\ \A d \in Chunks : rows[d] # NoRow => rows[d].snap = rows[c].snap
    /\ job # NoJob /\ ~ job.completed => job.snap = rows[c].snap

\* No gap between snapshot and stream: when a stream opens at an LSN, the slot
\* has kept the WAL from there on, and every chunk has been delivered as of that
\* LSN or later (prepareSnapshotAndSlot, fetchSnapshotLSN).
NoGap ==
  [][\A i \in Instances :
       ~ At(i, "streaming") /\ inst'[i].pc = "streaming" =>
         /\ 0 < slotLsn /\ slotLsn <= inst[i].lsn
         /\ \A c \in Chunks : inst[i].lsn <= asOf[c]]_vars

\* The snapshot is completed in the end.
SnapshotCompletes == <>(job # NoJob /\ job.completed)

-----------------------------------------------------------------------------
(* Why there is no gap.                                                    *)

\* Nobody saves a job while another process, which has checked the chunks, is about
\* to mark whatever job there is: the two statements of finalizeSnapshot are not
\* torn apart by a restarted coordinator.
Unraced == \A i, j \in Instances : At(i, "markJob") => ~ At(j, "saveJob")

\* Where a process makes a new job, with the LSN it has captured.
Making == {"load", "cleanChunks", "cleanJob", "export", "chunks", "saveJob"}

\* Where a process is in Execute, or about to end the exporting transaction.
Serving == {"execute", "claim", "begin", "release", "read", "mark", "count",
            "finalize", "markJob", "close", "commit"}

\* All chunks have been handed to a listener as of l or later.
ReadSince(l) == \A c \in Chunks : l <= asOf[c]

\* The slot is there before the LSN is captured, and the LSN is captured before the
\* snapshot is exported.
LsnOK ==
  /\ slotLsn <= wal
  /\ \A i \in Instances :
       /\ inst[i].pc \in {"lock", "lsn"} \cup Making => 0 < slotLsn
       /\ inst[i].pc \in Making => slotLsn <= inst[i].lsn /\ inst[i].lsn <= wal
       /\ inst[i].pc \in {"chunks", "saveJob"} => inst[i].lsn <= views[inst[i].conn]
  /\ job # NoJob => 0 < slotLsn /\ slotLsn <= job.lsn /\ job.lsn <= views[job.snap]

\* A job that is open has all its chunk rows, or none any more.
RowsOK ==
  /\ \A i \in Instances :
       /\ At(i, "chunks") => \A c \in 1 .. (inst[i].chunk - 1) : rows[c].snap = inst[i].conn
       /\ At(i, "saveJob") => \A c \in Chunks : rows[c].snap = inst[i].conn
  /\ job # NoJob /\ ~ job.completed =>
       \/ \A c \in Chunks : rows[c] = NoRow
       \/ \A c \in Chunks : rows[c].snap = job.snap

\* What was delivered under a snapshot was delivered as of its position.
DeliveredOK == \A s \in SnapshotIds : \A c \in delivered[s] : views[s] <= asOf[c]

\* Chunks are read when the job is completed, or about to be.
ReadOK ==
  /\ job # NoJob /\ job.completed => ReadSince(job.lsn)
  /\ \A i \in Instances : At(i, "markJob") /\ job # NoJob => ReadSince(job.lsn)

\* Where a stream opens: at the LSN of a completed job, or at the slot's if the job
\* was completed before Start.
OpenOK ==
  \A i \in Instances :
    /\ At(i, "slotOnly") => 0 < slotLsn /\ ReadSince(slotLsn)
    /\ At(i, "capture") /\ ~ inst[i].fromSnapshot => 0 < slotLsn /\ ReadSince(slotLsn)
    /\ inst[i].pc \in Serving => inst[i].fromSnapshot
    /\ At(i, "open") => 0 < slotLsn /\ slotLsn <= inst[i].lsn /\ ReadSince(inst[i].lsn)

GapInv == LsnOK /\ RowsOK /\ DeliveredOK /\ ReadOK /\ OpenOK
=============================================================================
