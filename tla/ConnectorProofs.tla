-------------------------- MODULE ConnectorProofs ---------------------------
(***************************************************************************)
(* The snapshot's metadata, for any number of instances and chunks.        *)
(***************************************************************************)
EXTENDS Connector, TLAPS

\* Where a process has claimed a chunk.
Holding == {"begin", "release", "read", "mark"}

\* What a process has in hand where it needs it.
PointsOK ==
  \A i \in Instances :
    /\ inst[i].pc \in Holding => inst[i].chunk \in Chunks /\ inst[i].rowSnap \in SnapshotIds
    /\ inst[i].pc \in Holding \cup {"claim", "count"} => inst[i].loaded \in SnapshotIds
    /\ At(i, "chunks") => inst[i].chunk \in Chunks
    /\ inst[i].pc \in {"chunks", "saveJob"} => inst[i].conn \in SnapshotIds

TInv == TypeOK /\ PointsOK

-----------------------------------------------------------------------------

\* The parts of the type invariant that concern the processes and sessions.
ProcessesOK ==
  /\ inst \in [Instances -> Instance]
  /\ lock \in Instances \cup {Nobody}
  /\ exporter \in [SnapshotIds -> Instances \cup {Nobody}]
  /\ PointsOK

LEMMA MoveOK ==
  ASSUME ProcessesOK, NEW i \in Instances, NEW s \in Instance,
         s.pc \in Holding => s.chunk \in Chunks /\ s.rowSnap \in SnapshotIds,
         s.pc \in Holding \cup {"claim", "count"} => s.loaded \in SnapshotIds,
         s.pc = "chunks" => s.chunk \in Chunks,
         s.pc \in {"chunks", "saveJob"} => s.conn \in SnapshotIds,
         inst' = [inst EXCEPT ![i] = s],
         lock' \in Instances \cup {Nobody},
         exporter' \in [SnapshotIds -> Instances \cup {Nobody}]
  PROVE  ProcessesOK'
BY DEF ProcessesOK, PointsOK, At

\* Program points that ask for nothing.
Plain == PCs \ (Holding \cup {"claim", "count", "chunks", "saveJob"})

LEMMA GotoOK ==
  ASSUME ProcessesOK, NEW i \in Instances, NEW p \in Plain, Goto(i, p),
         lock' \in Instances \cup {Nobody},
         exporter' \in [SnapshotIds -> Instances \cup {Nobody}]
  PROVE  ProcessesOK'
<1> DEFINE s == [inst[i] EXCEPT !.pc = p]
<1>1. s \in Instance /\ s.pc \in Plain
  BY DEF ProcessesOK, Instance, Plain
<1>2. inst' = [inst EXCEPT ![i] = s]
  BY DEF Goto, ProcessesOK
<1> HIDE DEF s
<1> QED BY <1>1, <1>2, MoveOK DEF Plain

LEMMA ExitOK ==
  ASSUME ProcessesOK, NEW i \in Instances, Exit(i)
  PROVE  ProcessesOK'
<1> DEFINE s == [Fresh EXCEPT !.pc = "down"]
<1>0. 1 \in 1 .. MaxAttempts /\ 1 \in 1 .. MaxRetries
  BY AttemptsAssumption
<1>a. Fresh \in Instance
  BY <1>0 DEF Fresh, Instance, PCs
<1>1. s \in Instance /\ s.pc = "down"
  BY <1>a DEF Instance, PCs
<1>2. inst' = [inst EXCEPT ![i] = s]
  BY DEF Exit
<1>3. lock' \in Instances \cup {Nobody} /\ exporter' \in [SnapshotIds -> Instances \cup {Nobody}]
  BY DEF Exit, ProcessesOK
<1> HIDE DEF s
<1> QED BY <1>1, <1>2, <1>3, MoveOK DEF Holding

LEMMA FailOK ==
  ASSUME ProcessesOK, NEW i \in Instances, Fail(i)
  PROVE  ProcessesOK'
<1>1. CASE inst[i].attempt < MaxAttempts
  <2> DEFINE s == [inst[i] EXCEPT !.pc = "slot", !.attempt = @ + 1, !.chunk = 0, !.rowSnap = 0]
  <2>0. inst[i] \in Instance /\ inst[i].attempt + 1 \in 1 .. MaxAttempts
    BY <1>1, AttemptsAssumption DEF ProcessesOK, Instance
  <2>1. s \in Instance /\ s.pc = "slot"
    BY <2>0 DEF Instance, PCs
  <2>2. inst' = [inst EXCEPT ![i] = s] /\ UNCHANGED <<lock, exporter>>
    BY <1>1 DEF Fail, ProcessesOK
  <2> HIDE DEF s
  <2> QED BY <2>1, <2>2, MoveOK DEF Holding, ProcessesOK
<1>2. CASE ~(inst[i].attempt < MaxAttempts)
  BY <1>2, ExitOK DEF Fail
<1> QED BY <1>1, <1>2

\* The rest of it.
DataOK ==
  /\ job \in Job \cup {NoJob}
  /\ rows \in [Chunks -> Row \cup {NoRow}]
  /\ views \in [SnapshotIds -> Nat]
  /\ delivered \in [SnapshotIds -> SUBSET Chunks]
  /\ asOf \in [Chunks -> Nat]
  /\ wal \in Nat \ {0}
  /\ slotLsn \in Nat
  /\ slotOwner \in Instances \cup {Nobody}
  /\ crashes \in 0 .. MaxCrashes
  /\ errors \in 0 .. MaxErrors

LEMMA TypeParts == TInv <=> ProcessesOK /\ DataOK
BY DEF TInv, TypeOK, SnapshotTypeOK, ProcessesOK, DataOK

LEMMA PlainPoints ==
  {"down", "start", "wipeChunks", "wipeJob", "slot", "createSlot", "slotOnly", "lock",
   "lsn", "load", "cleanChunks", "cleanJob", "export", "waitJob", "waitChunks", "execute", "finalize",
   "markJob", "close", "commit", "capture", "fetch", "open", "streaming"} \subseteq Plain
BY DEF Plain, PCs, Holding

LEMMA ProcessesPrepare ==
  ASSUME TInv, NEW i \in Instances, Prepare(i) \/ WaitTimeout(i)
  PROVE  ProcessesOK'
<1>0. ProcessesOK /\ DataOK
  BY TypeParts
<1>a. inst[i] \in Instance
  BY <1>0 DEF ProcessesOK
<1> USE PlainPoints
<1>1. CASE TryAcquireCoordinatorLock(i)
  BY <1>0, <1>1, GotoOK DEF TryAcquireCoordinatorLock, ProcessesOK
<1>2. CASE GetCurrentLSN(i)
  <2> DEFINE s == [inst[i] EXCEPT !.pc = "load", !.lsn = wal]
  <2>1. s \in Instance /\ s.pc = "load"
    BY <1>0, <1>a, <1>2 DEF GetCurrentLSN, DataOK, Instance, PCs
  <2>2. inst' = [inst EXCEPT ![i] = s] /\ UNCHANGED <<lock, exporter>>
    BY <1>0, <1>2 DEF GetCurrentLSN, ProcessesOK
  <2> HIDE DEF s
  <2> QED BY <1>0, <2>1, <2>2, MoveOK DEF Holding, ProcessesOK
<1>3. CASE LoadExisting(i)
  BY <1>0, <1>3, GotoOK DEF LoadExisting, ProcessesOK
<1>4. CASE DeleteChunks(i)
  BY <1>0, <1>4, GotoOK DEF DeleteChunks, ProcessesOK
<1>5. CASE DeleteJob(i)
  BY <1>0, <1>5, GotoOK DEF DeleteJob, ProcessesOK
<1>6. CASE ExportSnapshot(i)
  <2>1. PICK x \in SnapshotIds :
          /\ exporter' = [exporter EXCEPT ![x] = i]
          /\ inst' = [inst EXCEPT ![i].pc = "chunks", ![i].conn = x, ![i].chunk = 1]
    BY <1>6 DEF ExportSnapshot
  <2> DEFINE s == [inst[i] EXCEPT !.pc = "chunks", !.conn = x, !.chunk = 1]
  <2>2. 1 \in Chunks
    BY NumChunksAssumption DEF Chunks
  <2>3. s \in Instance /\ s.pc = "chunks" /\ s.chunk \in Chunks /\ s.conn \in SnapshotIds
    BY <1>a, <2>2 DEF Instance, PCs
  <2>4. inst' = [inst EXCEPT ![i] = s] /\ lock' = lock
        /\ exporter' \in [SnapshotIds -> Instances \cup {Nobody}]
    BY <1>0, <1>6, <2>1 DEF ExportSnapshot, ProcessesOK
  <2> HIDE DEF s
  <2> QED BY <1>0, <2>3, <2>4, MoveOK DEF Holding, ProcessesOK
<1>7. CASE InsertChunk(i)
  <2> DEFINE c == inst[i].chunk
             s == [inst[i] EXCEPT !.pc = IF c = NumChunks THEN "saveJob" ELSE @,
                                  !.chunk = IF c = NumChunks THEN 0 ELSE @ + 1]
  <2>1. CASE rows[c] # NoRow
    BY <1>0, <1>7, <2>1, FailOK DEF InsertChunk
  <2>2. CASE rows[c] = NoRow
    <3>1. inst[i].pc = "chunks" /\ c \in Chunks /\ inst[i].conn \in SnapshotIds
      BY <1>0, <1>7 DEF InsertChunk, ProcessesOK, PointsOK, At
    <3>2. c # NumChunks => c + 1 \in Chunks
      BY <3>1, NumChunksAssumption DEF Chunks
    <3>3. s \in Instance /\ s.conn \in SnapshotIds
          /\ (s.pc = "saveJob" \/ (s.pc = "chunks" /\ s.chunk \in Chunks))
      BY <1>a, <3>1, <3>2 DEF Instance, PCs
    <3>4. inst' = [inst EXCEPT ![i] = s] /\ UNCHANGED <<lock, exporter>>
      BY <1>0, <1>7, <2>2 DEF InsertChunk, ProcessesOK
    <3> HIDE DEF s
    <3> QED BY <1>0, <3>3, <3>4, MoveOK DEF Holding, ProcessesOK
  <2> QED BY <2>1, <2>2
<1>8. CASE SaveJob(i)
  <2> DEFINE s == [inst[i] EXCEPT !.pc = "execute", !.lsn = 0, !.retry = 1,
                                  !.coordinator = TRUE, !.fromSnapshot = TRUE]
  <2>1. CASE job # NoJob
    BY <1>0, <1>8, <2>1, FailOK DEF SaveJob
  <2>2. CASE job = NoJob
    <3>0. 1 \in 1 .. MaxRetries
      BY AttemptsAssumption
    <3>1. s \in Instance /\ s.pc = "execute"
      BY <1>a, <3>0 DEF Instance, PCs
    <3>2. inst' = [inst EXCEPT ![i] = s] /\ UNCHANGED <<lock, exporter>>
      BY <1>0, <1>8, <2>2 DEF SaveJob, ProcessesOK
    <3> HIDE DEF s
    <3> QED BY <1>0, <3>1, <3>2, MoveOK DEF Holding, ProcessesOK
  <2> QED BY <2>1, <2>2
<1>9. CASE WaitForJob(i)
  BY <1>0, <1>9, GotoOK DEF WaitForJob, ProcessesOK
<1>10. CASE HasChunksReady(i)
  <2> DEFINE s == [inst[i] EXCEPT !.pc = "execute", !.retry = 1,
                                  !.coordinator = FALSE, !.fromSnapshot = TRUE]
  <2>1. CASE \E c \in Chunks : rows[c] # NoRow
    <3>0. 1 \in 1 .. MaxRetries
      BY AttemptsAssumption
    <3>1. s \in Instance /\ s.pc = "execute"
      BY <1>a, <3>0 DEF Instance, PCs
    <3>2. inst' = [inst EXCEPT ![i] = s] /\ UNCHANGED <<lock, exporter>>
      BY <1>0, <1>10, <2>1 DEF HasChunksReady, ProcessesOK
    <3> HIDE DEF s
    <3> QED BY <1>0, <3>1, <3>2, MoveOK DEF Holding, ProcessesOK
  <2>2. CASE ~ \E c \in Chunks : rows[c] # NoRow
    BY <1>0, <1>10, <2>2, GotoOK DEF HasChunksReady, ProcessesOK
  <2> QED BY <2>1, <2>2
<1>11. CASE WaitTimeout(i)
  BY <1>0, <1>11, FailOK DEF WaitTimeout
<1> QED
  BY <1>1, <1>2, <1>3, <1>4, <1>5, <1>6, <1>7, <1>8, <1>9, <1>10, <1>11 DEF Prepare

LEMMA ProcessesExecute ==
  ASSUME TInv, NEW i \in Instances, Execute(i)
  PROVE  ProcessesOK'
<1>0. ProcessesOK /\ DataOK
  BY TypeParts
<1>a. inst[i] \in Instance
  BY <1>0 DEF ProcessesOK
<1>b. inst[i].pc \in Holding => inst[i].chunk \in Chunks /\ inst[i].rowSnap \in SnapshotIds
  BY <1>0 DEF ProcessesOK, PointsOK
<1>c. inst[i].pc \in Holding \cup {"claim", "count"} => inst[i].loaded \in SnapshotIds
  BY <1>0 DEF ProcessesOK, PointsOK
<1> USE PlainPoints
<1>1. CASE LoadJob(i)
  <2> DEFINE s == [inst[i] EXCEPT !.pc = "claim", !.loaded = job.snap]
  <2>1. CASE job = NoJob
    BY <1>0, <1>1, <2>1, FailOK DEF LoadJob
  <2>2. CASE job # NoJob
    <3>0. job.snap \in SnapshotIds
      BY <1>0, <2>2 DEF DataOK, Job
    <3>1. s \in Instance /\ s.pc = "claim" /\ s.loaded \in SnapshotIds
      BY <1>a, <3>0 DEF Instance, PCs
    <3>2. inst' = [inst EXCEPT ![i] = s] /\ UNCHANGED <<lock, exporter>>
      BY <1>0, <1>1, <2>2 DEF LoadJob, ProcessesOK
    <3> HIDE DEF s
    <3> QED BY <1>0, <3>1, <3>2, MoveOK DEF Holding, ProcessesOK
  <2> QED BY <2>1, <2>2
<1>2. CASE ClaimNextChunk(i)
  <2>1. PICK c \in Chunks :
          /\ rows[c].status = "pending" \/ Expired(c)
          /\ inst' = [inst EXCEPT ![i].pc = "begin", ![i].chunk = c, ![i].rowSnap = rows[c].snap]
    BY <1>2 DEF ClaimNextChunk
  <2> DEFINE s == [inst[i] EXCEPT !.pc = "begin", !.chunk = c, !.rowSnap = rows[c].snap]
  <2>2. rows[c].snap \in SnapshotIds
    BY <1>0, <2>1 DEF DataOK, Row, NoRow, Expired
  <2>3. inst[i].loaded \in SnapshotIds
    BY <1>2, <1>c DEF ClaimNextChunk, At
  <2>4. /\ s \in Instance /\ s.pc = "begin" /\ s.chunk \in Chunks
        /\ s.rowSnap \in SnapshotIds /\ s.loaded \in SnapshotIds
    BY <1>a, <2>2, <2>3 DEF Instance, PCs
  <2>5. inst' = [inst EXCEPT ![i] = s] /\ UNCHANGED <<lock, exporter>>
    BY <1>0, <1>2, <2>1 DEF ClaimNextChunk, ProcessesOK
  <2> HIDE DEF s
  <2> QED BY <1>0, <2>4, <2>5, MoveOK DEF Holding, ProcessesOK
<1>3. CASE NoMoreChunks(i)
  <2> DEFINE s == [inst[i] EXCEPT !.pc = "finalize", !.chunk = 0, !.rowSnap = 0]
  <2>1. s \in Instance /\ s.pc = "finalize"
    BY <1>a DEF Instance, PCs
  <2>2. inst' = [inst EXCEPT ![i] = s] /\ UNCHANGED <<lock, exporter>>
    BY <1>0, <1>3 DEF NoMoreChunks, ProcessesOK
  <2> HIDE DEF s
  <2> QED BY <1>0, <2>1, <2>2, MoveOK DEF Holding, ProcessesOK
<1>4. CASE SetTransactionSnapshot(i) \/ ProcessChunk(i)
  <2>1. PICK p \in {"read", "release", "mark"} : Goto(i, p)
    BY <1>4 DEF SetTransactionSnapshot, ProcessChunk
  <2> DEFINE s == [inst[i] EXCEPT !.pc = p]
  <2>2. /\ s \in Instance /\ s.pc \in Holding /\ s.chunk \in Chunks
        /\ s.rowSnap \in SnapshotIds /\ s.loaded \in SnapshotIds
    BY <1>a, <1>b, <1>c, <1>4 DEF Instance, PCs, Holding, SetTransactionSnapshot, ProcessChunk, At
  <2>3. inst' = [inst EXCEPT ![i] = s] /\ UNCHANGED <<lock, exporter>>
    BY <1>0, <1>4, <2>1 DEF SetTransactionSnapshot, ProcessChunk, Goto, ProcessesOK
  <2> HIDE DEF s
  <2> QED BY <1>0, <2>2, <2>3, MoveOK DEF Holding, ProcessesOK
<1>5. CASE MarkChunkCompleted(i)
  <2> DEFINE s == [inst[i] EXCEPT !.pc = "count", !.chunk = 0, !.rowSnap = 0]
  <2>1. s \in Instance /\ s.pc = "count" /\ s.loaded \in SnapshotIds
    BY <1>a, <1>c, <1>5 DEF Instance, PCs, Holding, MarkChunkCompleted, At
  <2>2. inst' = [inst EXCEPT ![i] = s] /\ UNCHANGED <<lock, exporter>>
    BY <1>0, <1>5 DEF MarkChunkCompleted, ProcessesOK
  <2> HIDE DEF s
  <2> QED BY <1>0, <2>1, <2>2, MoveOK DEF Holding, ProcessesOK
<1>6. CASE CountChunk(i)
  <2> DEFINE s == [inst[i] EXCEPT !.pc = "claim"]
  <2>1. s \in Instance /\ s.pc = "claim" /\ s.loaded \in SnapshotIds
    BY <1>a, <1>c, <1>6 DEF Instance, PCs, CountChunk, At
  <2>2. inst' = [inst EXCEPT ![i] = s] /\ UNCHANGED <<lock, exporter>>
    BY <1>0, <1>6 DEF CountChunk, Goto, ProcessesOK
  <2> HIDE DEF s
  <2> QED BY <1>0, <2>1, <2>2, MoveOK DEF Holding, ProcessesOK
<1>7. CASE ReleaseChunk(i)
  <2> DEFINE s == [inst[i] EXCEPT !.pc = "execute", !.retry = @ + 1,
                                  !.chunk = 0, !.rowSnap = 0, !.loaded = 0]
  <2>1. CASE inst[i].retry < MaxRetries
    <3>0. inst[i].retry + 1 \in 1 .. MaxRetries
      BY <1>a, <2>1, AttemptsAssumption DEF Instance
    <3>1. s \in Instance /\ s.pc = "execute"
      BY <1>a, <3>0 DEF Instance, PCs
    <3>2. inst' = [inst EXCEPT ![i] = s] /\ UNCHANGED <<lock, exporter>>
      BY <1>0, <1>7, <2>1 DEF ReleaseChunk, ProcessesOK
    <3> HIDE DEF s
    <3> QED BY <1>0, <3>1, <3>2, MoveOK DEF Holding, ProcessesOK
  <2>2. CASE ~(inst[i].retry < MaxRetries)
    BY <1>0, <1>7, <2>2, ExitOK DEF ReleaseChunk
  <2> QED BY <2>1, <2>2
<1>8. CASE CheckJobCompleted(i)
  <2>1. PICK p \in {"markJob", "commit"} : inst' = [inst EXCEPT ![i].pc = p, ![i].loaded = 0]
    BY <1>8 DEF CheckJobCompleted
  <2> DEFINE s == [inst[i] EXCEPT !.pc = p, !.loaded = 0]
  <2>2. s \in Instance /\ s.pc \in {"markJob", "commit"}
    BY <1>a DEF Instance, PCs
  <2>3. inst' = [inst EXCEPT ![i] = s] /\ UNCHANGED <<lock, exporter>>
    BY <1>0, <1>8, <2>1 DEF CheckJobCompleted, ProcessesOK
  <2> HIDE DEF s
  <2> QED BY <1>0, <2>2, <2>3, MoveOK DEF Holding, ProcessesOK
<1>9. CASE MarkJobAsCompleted(i)
  BY <1>0, <1>9, GotoOK DEF MarkJobAsCompleted, ProcessesOK
<1>10. CASE CloseAllConnections(i)
  <2> DEFINE s == [inst[i] EXCEPT !.pc = "commit", !.conn = 0, !.finalized = TRUE]
  <2>1. s \in Instance /\ s.pc = "commit"
    BY <1>a DEF Instance, PCs
  <2>2. /\ inst' = [inst EXCEPT ![i] = s]
        /\ lock' \in Instances \cup {Nobody}
        /\ exporter' \in [SnapshotIds -> Instances \cup {Nobody}]
    BY <1>0, <1>10 DEF CloseAllConnections, CommitExport, ProcessesOK
  <2> HIDE DEF s
  <2> QED BY <1>0, <2>1, <2>2, MoveOK DEF Holding, ProcessesOK
<1> QED
  BY <1>1, <1>2, <1>3, <1>4, <1>5, <1>6, <1>7, <1>8, <1>9, <1>10 DEF Execute

LEMMA ProcessesStart ==
  ASSUME TInv, NEW i \in Instances, Start(i)
  PROVE  ProcessesOK'
<1>0. ProcessesOK /\ DataOK
  BY TypeParts
<1>a. inst[i] \in Instance
  BY <1>0 DEF ProcessesOK
<1> USE PlainPoints
<1>1. CASE ShouldTakeSnapshot(i)
  <2>1. CASE inst[i].finalized
    BY <1>0, <1>1, <2>1, ExitOK DEF ShouldTakeSnapshot
  <2>2. CASE ~ inst[i].finalized
    <3>1. PICK p \in {"wipeChunks", "slot", "slotOnly"} :
            inst' = [inst EXCEPT ![i].attempt = 1, ![i].pc = p]
      BY <1>1, <2>2 DEF ShouldTakeSnapshot
    <3> DEFINE s == [inst[i] EXCEPT !.attempt = 1, !.pc = p]
    <3>2. 1 \in 1 .. MaxAttempts
      BY AttemptsAssumption
    <3>3. s \in Instance /\ s.pc \in {"wipeChunks", "slot", "slotOnly"}
      BY <1>a, <3>2 DEF Instance, PCs
    <3>4. inst' = [inst EXCEPT ![i] = s] /\ UNCHANGED <<lock, exporter>>
      BY <1>0, <1>1, <2>2, <3>1 DEF ShouldTakeSnapshot, ProcessesOK
    <3> HIDE DEF s
    <3> QED BY <1>0, <3>3, <3>4, MoveOK DEF Holding, ProcessesOK
  <2> QED BY <2>1, <2>2
<1>2. CASE SlotInfo(i)
  BY <1>0, <1>2, GotoOK DEF SlotInfo, ProcessesOK
<1>2a. CASE CreateSlot(i)
  <2>1. CASE slotLsn = 0
    BY <1>0, <1>2a, <2>1, GotoOK DEF CreateSlot, ProcessesOK
  <2>2. CASE slotLsn # 0
    BY <1>0, <1>2a, <2>2, FailOK DEF CreateSlot
  <2> QED BY <2>1, <2>2
<1>3. CASE CommitTransaction(i)
  <2> DEFINE s == [inst[i] EXCEPT !.pc = "capture", !.conn = 0]
  <2>1. CASE inst[i].coordinator
    <3>1. s \in Instance /\ s.pc = "capture"
      BY <1>a DEF Instance, PCs
    <3>2. /\ inst' = [inst EXCEPT ![i] = s] /\ lock' = lock
          /\ exporter' \in [SnapshotIds -> Instances \cup {Nobody}]
      BY <1>0, <1>3, <2>1 DEF CommitTransaction, CommitExport, ProcessesOK
    <3> HIDE DEF s
    <3> QED BY <1>0, <3>1, <3>2, MoveOK DEF Holding, ProcessesOK
  <2>2. CASE ~ inst[i].coordinator
    BY <1>0, <1>3, <2>2, GotoOK DEF CommitTransaction, ProcessesOK
  <2> QED BY <2>1, <2>2
<1>4. CASE CaptureSlot(i) \/ (FetchSnapshotLSN(i) /\ ~ Exit(i))
  <2>1. PICK p \in {"fetch", "open"}, l \in Nat : inst' = [inst EXCEPT ![i].pc = p, ![i].lsn = l]
    BY <1>0, <1>4 DEF CaptureSlot, FetchSnapshotLSN, DataOK, Job
  <2> DEFINE s == [inst[i] EXCEPT !.pc = p, !.lsn = l]
  <2>2. s \in Instance /\ s.pc \in {"fetch", "open"}
    BY <1>a DEF Instance, PCs
  <2>3. inst' = [inst EXCEPT ![i] = s] /\ UNCHANGED <<lock, exporter>>
    BY <1>0, <1>4, <2>1 DEF CaptureSlot, FetchSnapshotLSN, ProcessesOK
  <2> HIDE DEF s
  <2> QED BY <1>0, <2>2, <2>3, MoveOK DEF Holding, ProcessesOK
<1>5. CASE FetchSnapshotLSN(i) /\ Exit(i)
  BY <1>0, <1>5, ExitOK
<1>6. CASE OpenStream(i)
  BY <1>0, <1>6, GotoOK DEF OpenStream, ProcessesOK
<1> QED BY <1>1, <1>2, <1>2a, <1>3, <1>4, <1>5, <1>6 DEF Start

\* A statement on the chunk rows changes the state of a row, not its generation.
RowsKept ==
  \A c \in Chunks : rows'[c].snap = rows[c].snap /\ rows'[c] \in Row \cup {NoRow}

LEMMA RowsStep ==
  ASSUME TInv, NEW i \in Instances, ClaimNextChunk(i) \/ MarkChunkCompleted(i) \/ ReleaseChunk(i)
  PROVE  RowsKept /\ rows' \in [Chunks -> Row \cup {NoRow}]
<1>0. ProcessesOK /\ DataOK
  BY TypeParts
<1>1. CASE ClaimNextChunk(i)
  <2>1. PICK c \in Chunks :
          /\ rows[c].status = "pending" \/ Expired(c)
          /\ rows' = [rows EXCEPT ![c].status = "in_progress", ![c].by = i]
    BY <1>1 DEF ClaimNextChunk
  <2>2. rows[c] \in Row
    BY <1>0, <2>1 DEF DataOK, NoRow, Expired
  <2>3. [rows[c] EXCEPT !.status = "in_progress", !.by = i] \in Row
    BY <2>2 DEF Row, Status
  <2> QED BY <1>0, <2>1, <2>2, <2>3 DEF RowsKept, DataOK, Row
<1>2. CASE (MarkChunkCompleted(i) \/ ReleaseChunk(i)) /\ RowThere(i)
  <2> DEFINE c == inst[i].chunk
  <2>1. c \in Chunks /\ inst[i].rowSnap \in SnapshotIds
    BY <1>0, <1>2 DEF MarkChunkCompleted, ReleaseChunk, At, ProcessesOK, PointsOK, Holding
  <2>2. rows[c] \in Row
    BY <1>0, <1>2, <2>1, ExportsAssumption DEF RowThere, DataOK, NoRow, SnapshotIds
  <2>3. PICK x \in Status, y \in Instances \cup {Nobody} :
          rows' = [rows EXCEPT ![c].status = x, ![c].by = y]
    <3>1. CASE MarkChunkCompleted(i)
      <4>1. rows' = [rows EXCEPT ![c].status = "completed"]
        BY <1>2, <3>1 DEF MarkChunkCompleted
      <4>2. rows' = [rows EXCEPT ![c].status = "completed", ![c].by = rows[c].by]
        BY <1>0, <2>1, <2>2, <4>1 DEF Row, DataOK
      <4> QED BY <2>2, <4>2 DEF Row, Status
    <3>2. CASE ReleaseChunk(i)
      BY <1>2, <3>2 DEF ReleaseChunk, Status
    <3> QED BY <1>2, <3>1, <3>2
  <2>4. [rows[c] EXCEPT !.status = x, !.by = y] \in Row
    BY <2>2 DEF Row
  <2> QED BY <1>0, <2>1, <2>2, <2>3, <2>4 DEF RowsKept, DataOK, Row
<1>3. CASE (MarkChunkCompleted(i) \/ ReleaseChunk(i)) /\ ~ RowThere(i)
  BY <1>0, <1>3 DEF MarkChunkCompleted, ReleaseChunk, RowsKept, DataOK
<1> QED BY <1>1, <1>2, <1>3

LEMMA DataStep ==
  ASSUME TInv, NEW i \in Instances, Step(i) \/ Timeout(i)
  PROVE  DataOK'
<1>0. ProcessesOK /\ DataOK
  BY TypeParts
<1>1. CASE InsertChunk(i) /\ UNCHANGED <<slotVars, crashes, errors>>
  <2>1. inst[i].chunk \in Chunks /\ inst[i].conn \in SnapshotIds
    BY <1>0, <1>1 DEF InsertChunk, ProcessesOK, PointsOK, At
  <2>2. [snap |-> inst[i].conn, status |-> "pending", by |-> Nobody] \in Row
    BY <2>1 DEF Row, Status
  <2> QED BY <1>0, <1>1, <2>1, <2>2 DEF InsertChunk, DataOK, slotVars
<1>2. CASE SaveJob(i) /\ UNCHANGED <<slotVars, crashes, errors>>
  <2>1. inst[i].lsn \in Nat /\ inst[i].conn \in SnapshotIds
    BY <1>0, <1>2 DEF SaveJob, ProcessesOK, PointsOK, At, Instance
  <2>2. [snap |-> inst[i].conn, lsn |-> inst[i].lsn, count |-> 0, completed |-> FALSE] \in Job
    BY <2>1 DEF Job
  <2> QED BY <1>0, <1>2, <2>2 DEF SaveJob, DataOK, slotVars
<1>3. CASE (CountChunk(i) \/ MarkJobAsCompleted(i)) /\ UNCHANGED <<slotVars, crashes, errors>>
  <2>1. CASE job = NoJob
    BY <1>0, <1>3, <2>1 DEF CountChunk, MarkJobAsCompleted, DataOK, slotVars
  <2>2. CASE job # NoJob
    <3>1. job \in Job
      BY <1>0, <2>2 DEF DataOK
    <3>a. job.count + 1 \in Nat
      BY <3>1 DEF Job
    <3>b. [job EXCEPT !.count = job.count + 1] \in Job
      BY <3>1, <3>a DEF Job
    <3>2. [job EXCEPT !.count = @ + 1] \in Job /\ [job EXCEPT !.completed = TRUE] \in Job
      BY <3>1, <3>b DEF Job
    <3> QED BY <1>0, <1>3, <2>2, <3>2 DEF CountChunk, MarkJobAsCompleted, DataOK, slotVars
  <2> QED BY <2>1, <2>2
<1>4. CASE (ClaimNextChunk(i) \/ MarkChunkCompleted(i) \/ ReleaseChunk(i))
           /\ UNCHANGED <<slotVars, crashes, errors>>
  BY <1>0, <1>4, RowsStep DEF ClaimNextChunk, MarkChunkCompleted, ReleaseChunk, DataOK, slotVars
<1>5. CASE ProcessChunk(i) /\ UNCHANGED <<slotVars, crashes, errors>>
  <2>1. inst[i].chunk \in Chunks /\ inst[i].loaded \in SnapshotIds
    BY <1>0, <1>5 DEF ProcessChunk, ProcessesOK, PointsOK, At, Holding
  <2> QED BY <1>0, <1>5, <2>1 DEF ProcessChunk, DataOK, slotVars
<1>6. CASE (ExportSnapshot(i) \/ DeleteChunks(i) \/ DeleteJob(i))
           /\ UNCHANGED <<slotVars, crashes, errors>>
  BY <1>0, <1>6 DEF ExportSnapshot, DeleteChunks, DeleteJob, DataOK, slotVars
<1>7. CASE UNCHANGED <<job, rows, views, delivered, asOf, wal, slotVars, crashes, errors>>
  BY <1>0, <1>7 DEF DataOK, slotVars
<1>8. CASE (CreateSlot(i) \/ OpenStream(i)) /\ UNCHANGED <<crashes, errors>>
  BY <1>0, <1>8 DEF CreateSlot, OpenStream, DataOK
<1> QED
  BY <1>1, <1>2, <1>3, <1>4, <1>5, <1>6, <1>7, <1>8
  DEF Step, Timeout, Start, Prepare, Execute, WaitTimeout, TryAcquireCoordinatorLock, GetCurrentLSN,
      LoadExisting, WaitForJob, HasChunksReady, LoadJob, NoMoreChunks, SetTransactionSnapshot,
      CheckJobCompleted, CloseAllConnections, ShouldTakeSnapshot, CommitTransaction, CaptureSlot,
      FetchSnapshotLSN, SlotInfo

LEMMA TypeInit == Init => TInv
<1> SUFFICES ASSUME Init PROVE TInv
  OBVIOUS
<1>1. 1 \in 1 .. MaxAttempts /\ 1 \in 1 .. MaxRetries
  BY AttemptsAssumption
<1>2. Fresh \in Instance /\ Fresh.pc = "start"
  BY <1>1 DEF Fresh, Instance, PCs
<1>3. ProcessesOK
  BY <1>2 DEF Init, SnapshotInit, ProcessesOK, PointsOK, At, Holding
<1>4. DataOK
  BY BoundsAssumption DEF Init, SnapshotInit, DataOK
<1> QED BY <1>3, <1>4, TypeParts

LEMMA TypeStep == TInv /\ [Next]_vars => TInv'
<1> SUFFICES ASSUME TInv, [Next]_vars PROVE TInv'
  OBVIOUS
<1>0. ProcessesOK /\ DataOK
  BY TypeParts
<1>a. ProcessesOK' /\ DataOK' => TInv'
  BY DEF TInv, TypeOK, SnapshotTypeOK, ProcessesOK, DataOK
<1> USE PlainPoints
<1>1. ASSUME NEW i \in Instances, Step(i) \/ Timeout(i) PROVE TInv'
  <2>1. ProcessesOK'
    BY <1>1, ProcessesStart, ProcessesPrepare, ProcessesExecute DEF Step, Timeout
  <2> QED BY <1>1, <1>a, <2>1, DataStep
<1>2. ASSUME NEW i \in Instances, Crash(i) PROVE TInv'
  <2>1. ProcessesOK'
    BY <1>0, <1>2, ExitOK DEF Crash
  <2>2. DataOK'
    BY <1>0, <1>2, BoundsAssumption DEF Crash, DataOK
  <2> QED BY <1>a, <2>1, <2>2
<1>3. ASSUME NEW i \in Instances, DBError(i) PROVE TInv'
  <2>1. DataOK'
    BY <1>0, <1>3, BoundsAssumption DEF DBError, DataOK, slotVars
  <2>2. CASE At(i, "read")
    <3> DEFINE s == [inst[i] EXCEPT !.pc = "claim"]
    <3>1. inst[i] \in Instance /\ inst[i].loaded \in SnapshotIds
      BY <1>0, <2>2 DEF ProcessesOK, PointsOK, At, Holding
    <3>2. s \in Instance /\ s.pc = "claim" /\ s.loaded \in SnapshotIds
      BY <3>1 DEF Instance, PCs
    <3>3. inst' = [inst EXCEPT ![i] = s] /\ UNCHANGED <<lock, exporter>>
      BY <1>0, <1>3, <2>2 DEF DBError, Goto, At, ProcessesOK
    <3> HIDE DEF s
    <3>4. ProcessesOK'
      BY <1>0, <3>2, <3>3, MoveOK DEF Holding, ProcessesOK
    <3> QED BY <1>a, <2>1, <3>4
  <2>3. CASE inst[i].pc \in {"start", "wipeChunks", "wipeJob"}
    <3> DEFINE s == [inst[i] EXCEPT !.pc = "slot", !.attempt = 1]
    <3>1. inst' = [inst EXCEPT ![i] = s] /\ UNCHANGED <<lock, exporter>>
      BY <1>0, <1>3, <2>3 DEF DBError, ProcessesOK, At
    <3>2. 1 \in 1 .. MaxAttempts
      BY AttemptsAssumption
    <3>3. s \in Instance /\ s.pc = "slot"
      <4>1. inst[i] \in Instance
        BY <1>0 DEF ProcessesOK
      <4> QED BY <3>2, <4>1 DEF Instance, PCs
    <3> HIDE DEF s
    <3>4. ProcessesOK'
      BY <1>0, <3>1, <3>3, MoveOK DEF Holding, ProcessesOK
    <3> QED BY <1>a, <2>1, <3>4
  <2>4. CASE inst[i].pc \notin {"read", "start", "wipeChunks", "wipeJob"}
    BY <1>0, <1>3, <1>a, <2>1, <2>4, FailOK DEF DBError, At
  <2> QED BY <2>2, <2>3, <2>4 DEF At
<1>4. ASSUME NEW i \in Instances, Restart(i) PROVE TInv'
  <2>1. ProcessesOK'
    BY <1>0, <1>4, GotoOK DEF Restart, ProcessesOK
  <2>2. DataOK'
    BY <1>0, <1>4 DEF Restart, DataOK, slotVars
  <2> QED BY <1>a, <2>1, <2>2
<1>5. CASE SourceCommit
  BY <1>0, <1>5, <1>a DEF SourceCommit, ProcessesOK, PointsOK, At, DataOK, slotVars
<1>6. CASE UNCHANGED vars
  BY <1>0, <1>6, <1>a DEF vars, snapshotVars, slotVars, ProcessesOK, PointsOK, At, DataOK
<1> QED BY <1>1, <1>2, <1>3, <1>4, <1>5, <1>6 DEF Next

-----------------------------------------------------------------------------
(* One coordinator at a time, and one generation of metadata.              *)

\* Where the coordinator writes the metadata.
Owning == {"lsn", "load", "cleanChunks", "cleanJob", "export", "chunks", "saveJob"}

\* Only the holder of the lock is there.
OwnerInv ==
  \A i \in Instances :
    /\ inst[i].pc \in Owning => lock = i
    /\ inst[i].pc \notin {"wipeChunks", "wipeJob"}

\* All chunk rows have the generation of the first one, which is that of an open
\* job, or of the job the coordinator is making.
JobInv ==
  /\ \A c \in Chunks : rows[c].snap # 0 => rows[c].snap = rows[1].snap
  /\ job.snap # 0 /\ ~ job.completed => \A c \in Chunks : rows[c].snap \in {0, job.snap}
  /\ \A i \in Instances :
       /\ inst[i].pc \in {"export", "chunks", "saveJob"} => job.snap = 0 \/ job.completed
       /\ At(i, "cleanJob") => \A c \in Chunks : rows[c].snap = 0
       /\ At(i, "saveJob") \/ (At(i, "chunks") /\ inst[i].chunk # 1) => rows[1].snap = inst[i].conn

\* A step after which process i is not about to write metadata, and that wrote
\* none itself.
Quiet(i) ==
  /\ \A j \in Instances \ {i} : inst'[j] = inst[j]
  /\ inst'[i].pc \notin Owning \cup {"wipeChunks", "wipeJob"}
  /\ lock' = lock \/ lock = i
  /\ job'.snap = job.snap /\ (job.completed => job'.completed)
  /\ \A c \in Chunks : rows'[c].snap = rows[c].snap

LEMMA FirstChunk == 1 \in Chunks
BY NumChunksAssumption DEF Chunks

LEMMA QuietKeeps ==
  ASSUME OwnerInv, JobInv, NEW i \in Instances, Quiet(i)
  PROVE  OwnerInv' /\ JobInv'
BY FirstChunk DEF OwnerInv, JobInv, Quiet, At, Owning

LEMMA ExitQuiet ==
  ASSUME TInv, NEW i \in Instances, Exit(i)
  PROVE  /\ \A j \in Instances \ {i} : inst'[j] = inst[j]
         /\ inst'[i].pc = "down"
         /\ lock' = lock \/ lock = i
BY DEF TInv, TypeOK, SnapshotTypeOK, Exit, Fresh

LEMMA FailQuiet ==
  ASSUME TInv, NEW i \in Instances, Fail(i)
  PROVE  /\ \A j \in Instances \ {i} : inst'[j] = inst[j]
         /\ inst'[i].pc \in {"slot", "down"}
         /\ lock' = lock \/ lock = i
<1>1. CASE inst[i].attempt < MaxAttempts
  BY <1>1 DEF TInv, TypeOK, SnapshotTypeOK, Instance, Fail
<1>2. CASE ~(inst[i].attempt < MaxAttempts)
  BY <1>2, ExitQuiet DEF Fail
<1> QED BY <1>1, <1>2

\* What DBError does: the next chunk, a snapshot, or Fail.
LEMMA ErrorMoves ==
  ASSUME TInv, NEW i \in Instances, DBError(i)
  PROVE  \/ At(i, "read") /\ Goto(i, "claim") /\ UNCHANGED <<lock, exporter>>
         \/ /\ inst[i].pc \in {"start", "wipeChunks", "wipeJob"} /\ UNCHANGED <<lock, exporter>>
            /\ inst'[i].pc = "slot" /\ inst'[i].conn = inst[i].conn /\ inst'[i].loaded = inst[i].loaded
            /\ \A j \in Instances \ {i} : inst'[j] = inst[j]
         \/ inst[i].pc # "read" /\ Fail(i)
<1>a. inst \in [Instances -> Instance] /\ inst[i] \in Instance
  BY DEF TInv, TypeOK, SnapshotTypeOK
<1>1. CASE At(i, "read")
  BY <1>1 DEF DBError, At
<1>2. CASE inst[i].pc \in {"start", "wipeChunks", "wipeJob"}
  <2>1. inst' = [inst EXCEPT ![i].pc = "slot", ![i].attempt = 1] /\ UNCHANGED <<lock, exporter>>
    BY <1>2 DEF DBError, At
  <2> QED BY <1>a, <1>2, <2>1 DEF Instance
<1>3. CASE inst[i].pc \notin {"read", "start", "wipeChunks", "wipeJob"}
  BY <1>3 DEF DBError, At
<1> QED BY <1>1, <1>2, <1>3 DEF At

\* The steps that write no metadata, or only the state of a chunk or the job's
\* count and completion.
LEMMA ExecuteQuiet ==
  ASSUME TInv, NEW i \in Instances, Execute(i)
  PROVE  Quiet(i)
<1> USE DEF Quiet, Owning
<1>a. inst \in [Instances -> Instance] /\ inst[i] \in Instance
  BY DEF TInv, TypeOK, SnapshotTypeOK
<1>b. job \in Job \cup {NoJob}
  BY DEF TInv, TypeOK, SnapshotTypeOK
<1>1. CASE LoadJob(i)
  BY <1>1, <1>a, FailQuiet DEF LoadJob, Instance
<1>2. CASE ClaimNextChunk(i)
  <2>1. RowsKept
    BY <1>2, RowsStep
  <2>2. PICK c \in Chunks :
          inst' = [inst EXCEPT ![i].pc = "begin", ![i].chunk = c, ![i].rowSnap = rows[c].snap]
    BY <1>2 DEF ClaimNextChunk
  <2>3. inst'[i].pc = "begin" /\ \A j \in Instances \ {i} : inst'[j] = inst[j]
    BY <1>a, <2>2 DEF Instance
  <2>4. UNCHANGED <<job, lock>>
    BY <1>2 DEF ClaimNextChunk
  <2> QED BY <2>1, <2>3, <2>4 DEF RowsKept
<1>3. CASE NoMoreChunks(i)
  BY <1>3, <1>a DEF NoMoreChunks, Instance
<1>4. CASE SetTransactionSnapshot(i) \/ ProcessChunk(i)
  BY <1>4, <1>a DEF SetTransactionSnapshot, ProcessChunk, Goto, Instance
<1>5. CASE MarkChunkCompleted(i)
  <2>1. RowsKept
    BY <1>5, RowsStep
  <2> QED BY <1>5, <1>a, <2>1 DEF MarkChunkCompleted, RowsKept, Instance
<1>6. CASE CountChunk(i) \/ MarkJobAsCompleted(i)
  <2>1. job'.snap = job.snap /\ (job.completed => job'.completed)
    BY <1>6, <1>b DEF CountChunk, MarkJobAsCompleted, Job
  <2> QED BY <1>6, <1>a, <2>1 DEF CountChunk, MarkJobAsCompleted, Goto, Instance
<1>7. CASE ReleaseChunk(i)
  <2>1. RowsKept
    BY <1>7, RowsStep
  <2>2. CASE inst[i].retry < MaxRetries
    BY <1>7, <1>a, <2>1, <2>2 DEF ReleaseChunk, RowsKept, Instance
  <2>3. CASE ~(inst[i].retry < MaxRetries)
    <3>1. Exit(i) /\ job' = job
      BY <1>7, <2>3 DEF ReleaseChunk
    <3> QED BY <2>1, <3>1, ExitQuiet DEF RowsKept
  <2> QED BY <2>2, <2>3
<1>8. CASE CheckJobCompleted(i)
  BY <1>8, <1>a DEF CheckJobCompleted, Instance
<1>9. CASE CloseAllConnections(i)
  BY <1>9, <1>a DEF CloseAllConnections, Instance
<1> QED BY <1>1, <1>2, <1>3, <1>4, <1>5, <1>6, <1>7, <1>8, <1>9 DEF Execute

LEMMA StartQuiet ==
  ASSUME TInv, TRUE \notin Resnapshot, NEW i \in Instances, Start(i)
  PROVE  Quiet(i)
<1> USE DEF Quiet, Owning
<1>a. inst \in [Instances -> Instance] /\ inst[i] \in Instance
  BY DEF TInv, TypeOK, SnapshotTypeOK
<1>1. CASE ShouldTakeSnapshot(i)
  <2>1. UNCHANGED <<job, rows>>
    BY <1>1 DEF ShouldTakeSnapshot
  <2>2. CASE inst[i].finalized
    BY <1>1, <2>1, <2>2, ExitQuiet DEF ShouldTakeSnapshot
  <2>3. CASE ~ inst[i].finalized
    <3>1. PICK p \in {"slot", "slotOnly"} : inst' = [inst EXCEPT ![i].attempt = 1, ![i].pc = p]
      BY <1>1, <2>3, ResnapshotAssumption DEF ShouldTakeSnapshot
    <3>2. lock' = lock
      BY <1>1, <2>3 DEF ShouldTakeSnapshot
    <3>3. inst'[i].pc = p /\ \A j \in Instances \ {i} : inst'[j] = inst[j]
      BY <1>a, <3>1 DEF Instance
    <3> QED BY <2>1, <3>2, <3>3
  <2> QED BY <2>2, <2>3
<1>2. CASE SlotInfo(i)
  BY <1>2, <1>a DEF SlotInfo, Goto, Instance
<1>2a. CASE CreateSlot(i)
  BY <1>2a, <1>a, FailQuiet DEF CreateSlot, Goto, Instance
<1>3. CASE CommitTransaction(i)
  BY <1>3, <1>a DEF CommitTransaction, Goto, Instance
<1>4. CASE CaptureSlot(i)
  BY <1>4, <1>a DEF CaptureSlot, Instance
<1>5. CASE FetchSnapshotLSN(i)
  BY <1>5, <1>a, ExitQuiet DEF FetchSnapshotLSN, Instance
<1>6. CASE OpenStream(i)
  BY <1>6, <1>a DEF OpenStream, Goto, Instance
<1> QED BY <1>1, <1>2, <1>2a, <1>3, <1>4, <1>5, <1>6 DEF Start

\* Prepare: the coordinator's statements one by one.
LEMMA PrepareKeeps ==
  ASSUME TInv, OwnerInv, JobInv, NEW i \in Instances, Prepare(i) \/ WaitTimeout(i)
  PROVE  OwnerInv' /\ JobInv'
<1>a. inst \in [Instances -> Instance] /\ inst[i] \in Instance
  BY DEF TInv, TypeOK, SnapshotTypeOK
<1>b. job \in Job \cup {NoJob} /\ rows \in [Chunks -> Row \cup {NoRow}]
  BY DEF TInv, TypeOK, SnapshotTypeOK
<1>c. inst[i].pc \in Owning => \A j \in Instances \ {i} : inst[j].pc \notin Owning
  BY DEF OwnerInv
<1> USE FirstChunk
<1>1. CASE TryAcquireCoordinatorLock(i)
  <2>1. /\ \A j \in Instances \ {i} : inst'[j] = inst[j]
        /\ \/ lock' = i /\ lock \in {Nobody, i} /\ inst'[i].pc = "lsn"
           \/ lock' = lock /\ inst'[i].pc = "waitJob"
    BY <1>1, <1>a DEF TryAcquireCoordinatorLock, Goto, Instance
  <2> QED BY <1>1, <2>1, NobodyAssumption DEF TryAcquireCoordinatorLock, OwnerInv, JobInv, At, Owning
<1>2. CASE GetCurrentLSN(i)
  <2>1. inst[i].pc = "lsn" /\ inst'[i].pc = "load" /\ \A j \in Instances \ {i} : inst'[j] = inst[j]
    BY <1>2, <1>a DEF GetCurrentLSN, At, Instance
  <2> QED BY <1>2, <2>1 DEF GetCurrentLSN, OwnerInv, JobInv, At, Owning
<1>3. CASE LoadExisting(i)
  <2>1. /\ inst[i].pc = "load" /\ \A j \in Instances \ {i} : inst'[j] = inst[j]
        /\ inst'[i].pc = IF job # NoJob /\ ~ job.completed THEN "cleanChunks" ELSE "export"
    BY <1>3, <1>a DEF LoadExisting, Goto, At, Instance
  <2>2. job = NoJob => job.snap = 0
    BY DEF NoJob
  <2> QED BY <1>3, <2>1, <2>2 DEF LoadExisting, OwnerInv, JobInv, At, Owning
<1>4. CASE DeleteChunks(i)
  <2>1. /\ inst[i].pc = "cleanChunks" /\ inst'[i].pc = "cleanJob"
        /\ \A j \in Instances \ {i} : inst'[j] = inst[j]
    BY <1>4, <1>a DEF DeleteChunks, OwnerInv, Goto, At, Instance
  <2>2. \A c \in Chunks : rows'[c].snap = 0
    BY <1>4 DEF DeleteChunks, NoRow
  <2> QED BY <1>4, <1>c, <2>1, <2>2 DEF DeleteChunks, OwnerInv, JobInv, At, Owning
<1>5. CASE DeleteJob(i)
  <2>1. /\ inst[i].pc = "cleanJob" /\ inst'[i].pc = "export"
        /\ \A j \in Instances \ {i} : inst'[j] = inst[j]
    BY <1>5, <1>a DEF DeleteJob, OwnerInv, Goto, At, Instance
  <2>2. job'.snap = 0
    BY <1>5 DEF DeleteJob, NoJob
  <2> QED BY <1>5, <1>c, <2>1, <2>2 DEF DeleteJob, OwnerInv, JobInv, At, Owning
<1>6. CASE ExportSnapshot(i)
  <2>1. /\ inst[i].pc = "export" /\ inst'[i].pc = "chunks" /\ inst'[i].chunk = 1
        /\ \A j \in Instances \ {i} : inst'[j] = inst[j]
    BY <1>6, <1>a DEF ExportSnapshot, At, Instance
  <2>2. UNCHANGED <<job, rows, lock>>
    BY <1>6 DEF ExportSnapshot
  <2> QED BY <2>1, <2>2 DEF OwnerInv, JobInv, At, Owning
<1>7. CASE InsertChunk(i)
  <2> DEFINE c == inst[i].chunk
  <2>0. inst[i].pc = "chunks" /\ c \in Chunks
    BY <1>7 DEF InsertChunk, At, TInv, PointsOK
  <2>1. CASE rows[c] # NoRow
    <3>1. Quiet(i)
      BY <1>7, <2>1, FailQuiet DEF InsertChunk, Quiet, Owning
    <3> QED BY <3>1, QuietKeeps
  <2>2. CASE rows[c] = NoRow
    <3>1. rows' = [rows EXCEPT ![c] = [snap |-> inst[i].conn, status |-> "pending", by |-> Nobody]]
      BY <1>7, <2>2 DEF InsertChunk
    <3>2. rows'[c].snap = inst[i].conn /\ \A d \in Chunks \ {c} : rows'[d] = rows[d]
      BY <1>b, <2>0, <3>1
    <3>3. rows[c].snap = 0
      BY <2>2 DEF NoRow
    <3>4. \A d \in Chunks : rows'[d].snap \in {0, inst[i].conn}
      BY <2>0, <3>2, <3>3 DEF JobInv, At
    <3>5. rows'[1].snap = inst[i].conn
      BY <2>0, <3>2 DEF JobInv, At
    <3>6. /\ inst'[i].pc \in {"chunks", "saveJob"} /\ inst'[i].conn = inst[i].conn
          /\ \A j \in Instances \ {i} : inst'[j] = inst[j]
      BY <1>7, <1>a, <2>0, <2>2 DEF InsertChunk, Instance
    <3>7. UNCHANGED <<job, lock>>
      BY <1>7, <2>2 DEF InsertChunk
    <3> HIDE DEF c
    <3>8. OwnerInv'
      BY <2>0, <3>6, <3>7 DEF OwnerInv, Owning
    <3>9. job.snap = 0 \/ job.completed
      BY <2>0 DEF JobInv
    <3>10. \A j \in Instances \ {i} : inst[j].pc \notin Owning
      BY <1>c, <2>0 DEF Owning
    <3> QED BY <3>4, <3>5, <3>6, <3>7, <3>8, <3>9, <3>10 DEF JobInv, At, Owning
  <2> QED BY <2>1, <2>2
<1>8. CASE SaveJob(i)
  <2>1. CASE job # NoJob
    <3>1. Quiet(i)
      BY <1>8, <2>1, FailQuiet DEF SaveJob, Quiet, Owning
    <3> QED BY <3>1, QuietKeeps
  <2>2. CASE job = NoJob
    <3>1. /\ inst[i].pc = "saveJob" /\ inst'[i].pc = "execute"
          /\ \A j \in Instances \ {i} : inst'[j] = inst[j]
      BY <1>8, <1>a, <2>2 DEF SaveJob, At, Instance
    <3>2. job'.snap = inst[i].conn /\ job'.completed = FALSE /\ UNCHANGED <<rows, lock>>
      BY <1>8, <2>2 DEF SaveJob
    <3>3. \A c \in Chunks : rows[c].snap \in {0, inst[i].conn}
      BY <3>1 DEF JobInv, At
    <3>4. \A j \in Instances \ {i} : inst[j].pc \notin Owning
      BY <1>c, <3>1 DEF Owning
    <3> QED BY <3>1, <3>2, <3>3, <3>4 DEF OwnerInv, JobInv, At, Owning
  <2> QED BY <2>1, <2>2
<1>9. CASE WaitForJob(i) \/ HasChunksReady(i)
  <2>1. Quiet(i)
    BY <1>9, <1>a DEF WaitForJob, HasChunksReady, Goto, Quiet, Owning, Instance
  <2> QED BY <2>1, QuietKeeps
<1>10. CASE WaitTimeout(i)
  <2>1. Quiet(i)
    BY <1>10, FailQuiet DEF WaitTimeout, Quiet, Owning
  <2> QED BY <2>1, QuietKeeps
<1> QED BY <1>1, <1>2, <1>3, <1>4, <1>5, <1>6, <1>7, <1>8, <1>9, <1>10 DEF Prepare

LEMMA JobStep ==
  ASSUME TRUE \notin Resnapshot
  PROVE  TInv /\ OwnerInv /\ JobInv /\ [Next]_vars => OwnerInv' /\ JobInv'
<1> SUFFICES ASSUME TInv, OwnerInv, JobInv, [Next]_vars PROVE OwnerInv' /\ JobInv'
  OBVIOUS
<1>a. inst \in [Instances -> Instance] /\ \A i \in Instances : inst[i] \in Instance
  BY DEF TInv, TypeOK, SnapshotTypeOK
<1>1. ASSUME NEW i \in Instances, Step(i) \/ Timeout(i) PROVE OwnerInv' /\ JobInv'
  BY <1>1, ExecuteQuiet, StartQuiet, PrepareKeeps, QuietKeeps DEF Step, Timeout
<1>2. ASSUME NEW i \in Instances, Crash(i) PROVE OwnerInv' /\ JobInv'
  <2>1. Quiet(i)
    BY <1>2, ExitQuiet DEF Crash, Quiet, Owning
  <2> QED BY <2>1, QuietKeeps
<1>3. ASSUME NEW i \in Instances, DBError(i) PROVE OwnerInv' /\ JobInv'
  <2>1. Quiet(i)
    <3>1. UNCHANGED <<job, rows>>
      BY <1>3 DEF DBError
    <3> QED BY <1>3, <1>a, <3>1, FailQuiet, ErrorMoves DEF Goto, At, Quiet, Owning, Instance
  <2> QED BY <2>1, QuietKeeps
<1>4. ASSUME NEW i \in Instances, Restart(i) PROVE OwnerInv' /\ JobInv'
  <2>1. Quiet(i)
    BY <1>4, <1>a DEF Restart, Goto, Quiet, Owning, Instance
  <2> QED BY <2>1, QuietKeeps
<1>5. CASE SourceCommit \/ UNCHANGED vars
  BY <1>5 DEF SourceCommit, vars, snapshotVars, OwnerInv, JobInv, At
<1> QED BY <1>1, <1>2, <1>3, <1>4, <1>5 DEF Next

LEMMA JobInit == TInv /\ Init => OwnerInv /\ JobInv
BY FirstChunk DEF Init, SnapshotInit, Fresh, NoRow, NoJob, OwnerInv, JobInv, At, Owning

LEMMA JobImplies == TInv /\ JobInv => OneJobAtATime
<1> SUFFICES ASSUME TInv, JobInv, NEW c \in Chunks, rows[c] # NoRow
             PROVE  /\ \A d \in Chunks : rows[d] # NoRow => rows[d].snap = rows[c].snap
                    /\ job # NoJob /\ ~ job.completed => job.snap = rows[c].snap
  BY DEF OneJobAtATime
<1>1. \A d \in Chunks : rows[d] # NoRow => rows[d].snap # 0
  BY DEF TInv, TypeOK, SnapshotTypeOK, Row, SnapshotIds
<1>2. job # NoJob => job.snap # 0
  BY DEF TInv, TypeOK, SnapshotTypeOK, Job, SnapshotIds
<1> QED BY <1>1, <1>2, FirstChunk DEF JobInv

-----------------------------------------------------------------------------
(* What is read under a snapshot is the job's.                             *)

Referenced(s) == job.snap = s \/ \E i \in Instances : inst[i].loaded = s

\* While a snapshot that the job or a worker knows can be imported, its exporter is
\* still the coordinator, so that the job and all rows are of that snapshot.
ExportInv ==
  \A x \in Instances, s \in SnapshotIds : exporter[s] = x /\ Referenced(s) =>
    /\ lock = x
    /\ inst[x].conn = s /\ inst[x].coordinator /\ inst[x].pc \in Serving
    /\ job.snap = s
    /\ \A c \in Chunks : rows[c].snap \in {0, s}

\* The snapshot of exportSnapshotConn is the process's own, and open while the
\* metadata is written.
ConnInv ==
  \A i \in Instances :
    /\ \A j \in Instances \ {i} : inst[i].conn # 0 => inst[j].conn # inst[i].conn
    /\ inst[i].pc \in {"chunks", "saveJob"} => exporter[inst[i].conn] = i

\* A worker reads the chunk of a row under the snapshot of that row.
WorkInv ==
  \A i \in Instances :
    /\ At(i, "begin") /\ exporter[inst[i].loaded] # Nobody => inst[i].rowSnap = inst[i].loaded
    /\ inst[i].pc \in {"read", "mark"} => inst[i].rowSnap = inst[i].loaded
    /\ At(i, "mark") => inst[i].chunk \in delivered[inst[i].loaded]

ReadInv == ExportInv /\ ConnInv /\ WorkInv /\ CompletedChunksRead

\* A step of process i that creates no reference to a snapshot and completes no
\* chunk.  If the process gives up being the coordinator its snapshot is closed.
Calm(i) ==
  /\ \A j \in Instances \ {i} : inst'[j] = inst[j]
  /\ inst'[i].pc \notin {"chunks", "saveJob", "begin", "read", "mark"}
  /\ inst'[i].conn \in {0, inst[i].conn}
  /\ inst'[i].loaded \in {0, inst[i].loaded, job.snap}
  /\ job'.snap = job.snap \/ (job'.snap = 0 /\ lock = i /\ inst[i].pc \notin Serving)
  /\ \A c \in Chunks : rows'[c] = rows[c] \/ (rows'[c].status # "completed"
                                              /\ rows'[c].snap \in {0, rows[c].snap})
  /\ delivered' = delivered
  /\ \A s \in SnapshotIds :
       exporter'[s] = exporter[s]
       \/ (exporter'[s] = Nobody /\ (exporter[s] = i \/ s = inst[i].conn))
  /\ \/ /\ lock' = lock \/ lock = Nobody
        /\ inst'[i].conn = inst[i].conn
        /\ inst[i].coordinator /\ inst[i].pc \in Serving /\ job.snap # 0 =>
             inst'[i].coordinator /\ inst'[i].pc \in Serving
     \/ /\ lock' = lock \/ lock = i
        /\ \A s \in SnapshotIds : s = inst[i].conn => exporter'[s] # i

LEMMA CalmKeeps ==
  ASSUME TInv, ReadInv, NEW i \in Instances, Calm(i)
  PROVE  ReadInv'
<1> USE NobodyAssumption
<1>a. 0 \notin SnapshotIds
  BY DEF SnapshotIds
<1>b. \A s \in SnapshotIds : Referenced(s)' => Referenced(s)
  BY <1>a DEF Referenced, Calm
<1>c. \A s \in SnapshotIds : exporter'[s] \in {Nobody, exporter[s]}
  BY DEF Calm
<1>1. ExportInv'
  <2> SUFFICES ASSUME NEW x \in Instances, NEW s \in SnapshotIds, exporter'[s] = x, Referenced(s)'
               PROVE  /\ lock' = x
                      /\ inst'[x].conn = s /\ inst'[x].coordinator /\ inst'[x].pc \in Serving
                      /\ job'.snap = s
                      /\ \A c \in Chunks : rows'[c].snap \in {0, s}
    BY DEF ExportInv
  <2>1. exporter[s] = x /\ Referenced(s)
    BY <1>b, <1>c
  <2>2. /\ lock = x
        /\ inst[x].conn = s /\ inst[x].coordinator /\ inst[x].pc \in Serving
        /\ job.snap = s
        /\ \A c \in Chunks : rows[c].snap \in {0, s}
    BY <2>1 DEF ReadInv, ExportInv
  <2>3. job'.snap = s /\ \A c \in Chunks : rows'[c].snap \in {0, s}
    BY <2>2 DEF Calm
  <2>4. lock' = x /\ inst'[x].conn = s /\ inst'[x].coordinator /\ inst'[x].pc \in Serving
    <3>1. CASE x = i
      BY <1>a, <2>2, <3>1 DEF Calm
    <3>2. CASE x # i
      BY <2>2, <3>2 DEF Calm
    <3> QED BY <3>1, <3>2
  <2> QED BY <2>3, <2>4
<1>2. ConnInv'
  <2>1. \A k \in Instances, j \in Instances : k # j /\ inst'[k].conn # 0 => inst'[j].conn # inst'[k].conn
    BY DEF Calm, ReadInv, ConnInv
  <2>2. ASSUME NEW k \in Instances, inst'[k].pc \in {"chunks", "saveJob"}
        PROVE  exporter'[inst'[k].conn] = k
    <3>1. k # i /\ inst'[k] = inst[k]
      BY <2>2 DEF Calm
    <3>2. inst[k].conn \in SnapshotIds /\ exporter[inst[k].conn] = k
      BY <2>2, <3>1 DEF ReadInv, ConnInv, TInv, PointsOK
    <3>3. inst[k].conn # inst[i].conn
      BY <1>a, <3>1, <3>2 DEF ReadInv, ConnInv
    <3> QED BY <3>1, <3>2, <3>3 DEF Calm
  <2> QED BY <2>1, <2>2 DEF ConnInv
<1>3. WorkInv'
  <2> SUFFICES ASSUME NEW k \in Instances, inst'[k].pc \in {"begin", "read", "mark"}
               PROVE  /\ At(k, "begin")' /\ exporter'[inst'[k].loaded] # Nobody => inst'[k].rowSnap = inst'[k].loaded
                      /\ inst'[k].pc \in {"read", "mark"} => inst'[k].rowSnap = inst'[k].loaded
                      /\ At(k, "mark")' => inst'[k].chunk \in delivered'[inst'[k].loaded]
    BY DEF WorkInv, At
  <2>1. inst'[k] = inst[k] /\ delivered' = delivered
    BY DEF Calm
  <2>2. inst[k].loaded \in SnapshotIds
    BY <2>1 DEF TInv, PointsOK, Holding
  <2>3. exporter'[inst'[k].loaded] # Nobody => exporter[inst[k].loaded] # Nobody
    BY <1>c, <2>1, <2>2
  <2> QED BY <2>1, <2>3 DEF ReadInv, WorkInv, At
<1>4. CompletedChunksRead'
  BY DEF Calm, ReadInv, CompletedChunksRead
<1> QED BY <1>1, <1>2, <1>3, <1>4 DEF ReadInv

LEMMA ExitCalm ==
  ASSUME TInv, ReadInv, NEW i \in Instances, Exit(i), UNCHANGED <<job, delivered>>,
         \A c \in Chunks : rows'[c] = rows[c] \/ (rows'[c].status # "completed"
                                                  /\ rows'[c].snap \in {0, rows[c].snap})
  PROVE  Calm(i)
<1>1. \A j \in Instances \ {i} : inst'[j] = inst[j]
  BY DEF TInv, TypeOK, SnapshotTypeOK, Exit
<1>2. inst'[i].pc = "down" /\ inst'[i].conn = 0 /\ inst'[i].loaded = 0
  BY DEF TInv, TypeOK, SnapshotTypeOK, Exit, Fresh
<1>3. \A s \in SnapshotIds : exporter'[s] = IF exporter[s] = i THEN Nobody ELSE exporter[s]
  BY DEF Exit
<1>4. lock' = lock \/ lock = i
  BY DEF Exit
<1> QED BY <1>1, <1>2, <1>3, <1>4, NobodyAssumption DEF Calm

\* After Fail process i is not in Execute, so it must not have been either.
LEMMA FailCalm ==
  ASSUME TInv, ReadInv, NEW i \in Instances, Fail(i), UNCHANGED <<job, rows, delivered>>,
         inst[i].pc \notin Serving \/ job = NoJob
  PROVE  Calm(i)
<1>1. CASE inst[i].attempt < MaxAttempts
  <2>1. /\ \A j \in Instances \ {i} : inst'[j] = inst[j]
        /\ inst'[i].pc = "slot" /\ inst'[i].conn = inst[i].conn /\ inst'[i].loaded = inst[i].loaded
        /\ UNCHANGED <<lock, exporter>>
    BY <1>1 DEF TInv, TypeOK, SnapshotTypeOK, Instance, Fail
  <2>2. job = NoJob => job.snap = 0
    BY DEF NoJob
  <2> QED BY <2>1, <2>2 DEF Calm
<1>2. CASE ~(inst[i].attempt < MaxAttempts)
  BY <1>2, ExitCalm DEF Fail
<1> QED BY <1>1, <1>2

LEMMA CommitCloses ==
  ASSUME TInv, NEW i \in Instances, CommitExport(i)
  PROVE  \A s \in SnapshotIds : exporter'[s] = IF s = inst[i].conn THEN Nobody ELSE exporter[s]
<1>1. inst[i].conn \in SnapshotIds \cup {0} /\ exporter \in [SnapshotIds -> Instances \cup {Nobody}]
  BY DEF TInv, TypeOK, SnapshotTypeOK, Instance
<1>2. 0 \notin SnapshotIds
  BY DEF SnapshotIds
<1> QED BY <1>1, <1>2 DEF CommitExport

\* The steps of Start are calm.
LEMMA StartCalm ==
  ASSUME TInv, ReadInv, TRUE \notin Resnapshot, NEW i \in Instances, Start(i)
  PROVE  Calm(i)
<1>a. inst \in [Instances -> Instance] /\ inst[i] \in Instance
      /\ exporter \in [SnapshotIds -> Instances \cup {Nobody}]
  BY DEF TInv, TypeOK, SnapshotTypeOK
<1>1. CASE ShouldTakeSnapshot(i)
  <2>1. UNCHANGED <<job, rows, delivered>> /\ inst[i].pc = "start"
    BY <1>1 DEF ShouldTakeSnapshot, At
  <2>2. CASE inst[i].finalized
    BY <1>1, <2>1, <2>2, ExitCalm DEF ShouldTakeSnapshot
  <2>3. CASE ~ inst[i].finalized
    <3>1. PICK p \in {"slot", "slotOnly"} : inst' = [inst EXCEPT ![i].attempt = 1, ![i].pc = p]
      BY <1>1, <2>3, ResnapshotAssumption DEF ShouldTakeSnapshot
    <3>2. UNCHANGED <<lock, exporter>>
      BY <1>1, <2>3 DEF ShouldTakeSnapshot
    <3>3. /\ inst'[i].pc = p /\ inst'[i].conn = inst[i].conn /\ inst'[i].loaded = inst[i].loaded
          /\ \A j \in Instances \ {i} : inst'[j] = inst[j]
      BY <1>a, <3>1 DEF Instance
    <3> QED BY <2>1, <3>2, <3>3 DEF Calm, Serving
  <2> QED BY <2>2, <2>3
<1>2. CASE SlotInfo(i)
  BY <1>2, <1>a DEF SlotInfo, Goto, At, Instance, Calm, Serving
<1>2a. CASE CreateSlot(i)
  <2>1. CASE slotLsn = 0
    BY <1>2a, <1>a, <2>1 DEF CreateSlot, Goto, At, Instance, Calm, Serving
  <2>2. CASE slotLsn # 0
    BY <1>2a, <2>2, FailCalm DEF CreateSlot, At, Serving
  <2> QED BY <2>1, <2>2
<1>3. CASE CommitTransaction(i)
  <2>1. UNCHANGED <<job, rows, lock, delivered>> /\ inst[i].pc = "commit"
    BY <1>3 DEF CommitTransaction, At
  <2>2. CASE inst[i].coordinator
    <3>1. /\ inst'[i].pc = "capture" /\ inst'[i].conn = 0 /\ inst'[i].loaded = inst[i].loaded
          /\ \A j \in Instances \ {i} : inst'[j] = inst[j]
      BY <1>3, <1>a, <2>2 DEF CommitTransaction, Instance
    <3>2. \A s \in SnapshotIds : exporter'[s] = IF s = inst[i].conn THEN Nobody ELSE exporter[s]
      BY <1>3, <2>2, CommitCloses DEF CommitTransaction
    <3> QED BY <2>1, <3>1, <3>2, NobodyAssumption DEF Calm
  <2>3. CASE ~ inst[i].coordinator
    <3>1. /\ inst'[i].pc = "capture" /\ inst'[i].conn = inst[i].conn /\ inst'[i].loaded = inst[i].loaded
          /\ \A j \in Instances \ {i} : inst'[j] = inst[j]
          /\ exporter' = exporter
      BY <1>3, <1>a, <2>3 DEF CommitTransaction, Goto, Instance
    <3> QED BY <2>1, <2>3, <3>1 DEF Calm
  <2> QED BY <2>2, <2>3
<1>4. CASE CaptureSlot(i)
  BY <1>4, <1>a DEF CaptureSlot, At, Instance, Calm, Serving
<1>5. CASE FetchSnapshotLSN(i)
  <2>1. CASE Exit(i)
    BY <1>5, <2>1, ExitCalm DEF FetchSnapshotLSN
  <2>2. CASE ~ Exit(i)
    BY <1>5, <1>a, <2>2 DEF FetchSnapshotLSN, At, Instance, Calm, Serving
  <2> QED BY <2>1, <2>2
<1>6. CASE OpenStream(i)
  BY <1>6, <1>a DEF OpenStream, Goto, At, Instance, Calm, Serving
<1> QED BY <1>1, <1>2, <1>2a, <1>3, <1>4, <1>5, <1>6 DEF Start

\* Prepare: a snapshot that is exported anew is not referenced, and while the
\* coordinator writes the metadata none that is referenced can be imported.
LEMMA PrepareReads ==
  ASSUME TInv, OwnerInv, JobInv, ReadInv, NEW i \in Instances, Prepare(i) \/ WaitTimeout(i)
  PROVE  ReadInv'
<1>a. inst \in [Instances -> Instance] /\ inst[i] \in Instance
      /\ exporter \in [SnapshotIds -> Instances \cup {Nobody}]
      /\ delivered \in [SnapshotIds -> SUBSET Chunks]
  BY DEF TInv, TypeOK, SnapshotTypeOK
<1>b. job \in Job \cup {NoJob} /\ rows \in [Chunks -> Row \cup {NoRow}]
  BY DEF TInv, TypeOK, SnapshotTypeOK
<1>c. ASSUME inst[i].pc \in Owning
      PROVE  \A x \in Instances, s \in SnapshotIds : ~(exporter[s] = x /\ Referenced(s))
  BY <1>c DEF OwnerInv, ReadInv, ExportInv, Owning, Serving
<1>d. 0 \notin SnapshotIds
  BY DEF SnapshotIds
<1>1. CASE TryAcquireCoordinatorLock(i)
  <2>1. /\ \A j \in Instances \ {i} : inst'[j] = inst[j]
        /\ inst'[i].pc \in {"lsn", "waitJob"} /\ inst[i].pc = "lock"
        /\ inst'[i].conn = inst[i].conn /\ inst'[i].loaded = inst[i].loaded
        /\ lock' = lock \/ lock = Nobody
    BY <1>1, <1>a DEF TryAcquireCoordinatorLock, Goto, At, Instance
  <2>2. Calm(i)
    BY <1>1, <2>1 DEF TryAcquireCoordinatorLock, Calm, Serving
  <2> QED BY <2>2, CalmKeeps
<1>2. CASE GetCurrentLSN(i)
  <2>1. Calm(i)
    BY <1>2, <1>a DEF GetCurrentLSN, At, Instance, Calm, Serving
  <2> QED BY <2>1, CalmKeeps
<1>3. CASE LoadExisting(i)
  <2>1. Calm(i)
    BY <1>3, <1>a DEF LoadExisting, Goto, At, Instance, Calm, Serving
  <2> QED BY <2>1, CalmKeeps
<1>4. CASE DeleteChunks(i)
  <2>1. \A c \in Chunks : rows'[c].snap = 0 /\ rows'[c].status # "completed"
    BY <1>4 DEF DeleteChunks, NoRow
  <2>2. /\ \A j \in Instances \ {i} : inst'[j] = inst[j]
        /\ inst'[i].pc = "cleanJob" /\ inst[i].pc = "cleanChunks"
        /\ inst'[i].conn = inst[i].conn /\ inst'[i].loaded = inst[i].loaded
    BY <1>4, <1>a DEF DeleteChunks, OwnerInv, Goto, At, Instance
  <2>3. Calm(i)
    BY <1>4, <2>1, <2>2 DEF DeleteChunks, Calm, Serving
  <2> QED BY <2>3, CalmKeeps
<1>5. CASE DeleteJob(i)
  <2>1. job'.snap = 0
    BY <1>5 DEF DeleteJob, NoJob
  <2>2. /\ \A j \in Instances \ {i} : inst'[j] = inst[j]
        /\ inst'[i].pc = "export" /\ inst[i].pc = "cleanJob" /\ lock = i
        /\ inst'[i].conn = inst[i].conn /\ inst'[i].loaded = inst[i].loaded
    BY <1>5, <1>a DEF DeleteJob, OwnerInv, Owning, Goto, At, Instance
  <2>3. Calm(i)
    BY <1>5, <2>1, <2>2 DEF DeleteJob, Calm, Serving
  <2> QED BY <2>3, CalmKeeps
<1>6. CASE ExportSnapshot(i)
  <2>1. PICK n \in SnapshotIds :
          /\ Unused(n)
          /\ exporter' = [exporter EXCEPT ![n] = i]
          /\ delivered' = [delivered EXCEPT ![n] = {}]
          /\ inst' = [inst EXCEPT ![i].pc = "chunks", ![i].conn = n, ![i].chunk = 1]
    BY <1>6 DEF ExportSnapshot
  <2>2. /\ inst[i].pc = "export" /\ inst'[i].pc = "chunks" /\ inst'[i].conn = n
        /\ inst'[i].loaded = inst[i].loaded
        /\ \A j \in Instances \ {i} : inst'[j] = inst[j]
    BY <1>6, <1>a, <2>1 DEF ExportSnapshot, At, Instance
  <2>3. UNCHANGED <<job, rows, lock>>
    BY <1>6 DEF ExportSnapshot
  <2>4. exporter'[n] = i /\ \A s \in SnapshotIds \ {n} : exporter'[s] = exporter[s] /\ delivered'[s] = delivered[s]
    BY <1>a, <2>1
  <2>5. \A s \in SnapshotIds : Referenced(s)' => Referenced(s) /\ s # n
    BY <2>1, <2>2, <2>3 DEF Referenced, Unused
  <2>6. ExportInv'
    BY <1>c, <2>2, <2>4, <2>5 DEF ExportInv, Owning
  <2>7. ConnInv'
    <3>1. \A j \in Instances : inst[j].conn # n
      BY <2>1 DEF Unused
    <3>2. \A j \in Instances \ {i} : inst[j].pc \notin {"chunks", "saveJob"}
      BY <2>2 DEF OwnerInv, Owning
    <3> QED BY <1>a, <2>2, <2>4, <3>1, <3>2 DEF ReadInv, ConnInv
  <2>8. WorkInv'
    <3> SUFFICES ASSUME NEW k \in Instances, inst'[k].pc \in {"begin", "read", "mark"}
                 PROVE  /\ At(k, "begin")' /\ exporter'[inst'[k].loaded] # Nobody => inst'[k].rowSnap = inst'[k].loaded
                        /\ inst'[k].pc \in {"read", "mark"} => inst'[k].rowSnap = inst'[k].loaded
                        /\ At(k, "mark")' => inst'[k].chunk \in delivered'[inst'[k].loaded]
      BY DEF WorkInv, At
    <3>1. inst'[k] = inst[k]
      BY <2>2
    <3>2. inst[k].loaded \in SnapshotIds \ {n}
      BY <2>1, <3>1 DEF TInv, PointsOK, Holding, Unused
    <3> QED BY <2>4, <3>1, <3>2 DEF ReadInv, WorkInv, At
  <2>9. CompletedChunksRead'
    <3>1. \A c \in Chunks : rows[c].status = "completed" => rows[c].snap \in SnapshotIds \ {n}
      BY <1>b, <2>1 DEF Row, NoRow, Unused
    <3> QED BY <2>3, <2>4, <3>1 DEF ReadInv, CompletedChunksRead
  <2> QED BY <2>6, <2>7, <2>8, <2>9 DEF ReadInv
<1>7. CASE InsertChunk(i)
  <2> DEFINE c == inst[i].chunk
  <2>0. inst[i].pc = "chunks" /\ c \in Chunks
    BY <1>7 DEF InsertChunk, At, TInv, PointsOK
  <2>1. CASE rows[c] # NoRow
    <3>1. Calm(i)
      BY <1>7, <2>0, <2>1, FailCalm DEF InsertChunk, Serving
    <3> QED BY <3>1, CalmKeeps
  <2>2. CASE rows[c] = NoRow
    <3>1. rows' = [rows EXCEPT ![c] = [snap |-> inst[i].conn, status |-> "pending", by |-> Nobody]]
      BY <1>7, <2>2 DEF InsertChunk
    <3>2. rows'[c].status = "pending" /\ \A d \in Chunks \ {c} : rows'[d] = rows[d]
      BY <1>b, <2>0, <3>1
    <3>3. /\ inst'[i].pc \in {"chunks", "saveJob"} /\ inst'[i].conn = inst[i].conn
          /\ inst'[i].loaded = inst[i].loaded
          /\ \A j \in Instances \ {i} : inst'[j] = inst[j]
      BY <1>7, <1>a, <2>0, <2>2 DEF InsertChunk, Instance
    <3>4. UNCHANGED <<job, lock, exporter, delivered>>
      BY <1>7, <2>2 DEF InsertChunk
    <3> HIDE DEF c
    <3>5. \A s \in SnapshotIds : Referenced(s)' => Referenced(s)
      BY <3>3, <3>4 DEF Referenced
    <3>6. ExportInv'
      BY <1>c, <2>0, <3>4, <3>5 DEF ExportInv, Owning
    <3>7. ConnInv'
      BY <2>0, <3>3, <3>4 DEF ReadInv, ConnInv
    <3>8. WorkInv'
      BY <3>3, <3>4 DEF ReadInv, WorkInv, At
    <3>9. CompletedChunksRead'
      BY <3>2, <3>4 DEF ReadInv, CompletedChunksRead
    <3> QED BY <3>6, <3>7, <3>8, <3>9 DEF ReadInv
  <2> QED BY <2>1, <2>2
<1>8. CASE SaveJob(i)
  <2>0. inst[i].pc = "saveJob"
    BY <1>8 DEF SaveJob, At
  <2>1. CASE job # NoJob
    <3>1. Calm(i)
      BY <1>8, <2>0, <2>1, FailCalm DEF SaveJob, Serving
    <3> QED BY <3>1, CalmKeeps
  <2>2. CASE job = NoJob
    <3>1. /\ inst'[i].pc = "execute" /\ inst'[i].conn = inst[i].conn /\ inst'[i].coordinator
          /\ inst'[i].loaded = inst[i].loaded
          /\ \A j \in Instances \ {i} : inst'[j] = inst[j]
      BY <1>8, <1>a, <2>2 DEF SaveJob, Instance
    <3>2. job'.snap = inst[i].conn /\ UNCHANGED <<rows, lock, exporter, delivered>>
      BY <1>8, <2>2 DEF SaveJob
    <3>3. exporter[inst[i].conn] = i /\ lock = i
      BY <2>0 DEF ReadInv, ConnInv, OwnerInv, Owning
    <3>4. \A d \in Chunks : rows[d].snap \in {0, inst[i].conn}
      BY <2>0, FirstChunk DEF JobInv, At
    <3>5. \A s \in SnapshotIds : Referenced(s)' => Referenced(s) \/ s = inst[i].conn
      BY <3>1, <3>2 DEF Referenced
    <3>6. ExportInv'
      <4> SUFFICES ASSUME NEW x \in Instances, NEW s \in SnapshotIds, exporter'[s] = x, Referenced(s)'
                   PROVE  /\ lock' = x
                          /\ inst'[x].conn = s /\ inst'[x].coordinator /\ inst'[x].pc \in Serving
                          /\ job'.snap = s
                          /\ \A d \in Chunks : rows'[d].snap \in {0, s}
        BY DEF ExportInv
      <4>1. s = inst[i].conn
        BY <1>c, <2>0, <3>2, <3>5 DEF Owning
      <4>2. x = i
        BY <3>2, <3>3, <4>1
      <4> QED BY <3>1, <3>2, <3>3, <3>4, <4>1, <4>2 DEF Serving
    <3>7. ConnInv'
      BY <3>1, <3>2 DEF ReadInv, ConnInv
    <3>8. WorkInv'
      BY <3>1, <3>2 DEF ReadInv, WorkInv, At
    <3>9. CompletedChunksRead'
      BY <3>2 DEF ReadInv, CompletedChunksRead
    <3> QED BY <3>6, <3>7, <3>8, <3>9 DEF ReadInv
  <2> QED BY <2>1, <2>2
<1>9. CASE WaitForJob(i) \/ HasChunksReady(i)
  <2>1. Calm(i)
    BY <1>9, <1>a DEF WaitForJob, HasChunksReady, Goto, At, Instance, Calm, Serving
  <2> QED BY <2>1, CalmKeeps
<1>10. CASE WaitTimeout(i)
  <2>1. Calm(i)
    BY <1>10, FailCalm DEF WaitTimeout, At, Serving
  <2> QED BY <2>1, CalmKeeps
<1> QED BY <1>1, <1>2, <1>3, <1>4, <1>5, <1>6, <1>7, <1>8, <1>9, <1>10 DEF Prepare

\* Execute: a chunk is claimed from a row of the job, read if the snapshot can
\* still be imported, and completed in the row it was claimed from.
LEMMA ExecuteReads ==
  ASSUME TInv, ReadInv, NEW i \in Instances, Execute(i)
  PROVE  ReadInv'
<1>a. inst \in [Instances -> Instance] /\ inst[i] \in Instance
      /\ exporter \in [SnapshotIds -> Instances \cup {Nobody}]
      /\ delivered \in [SnapshotIds -> SUBSET Chunks]
  BY DEF TInv, TypeOK, SnapshotTypeOK
<1>b. job \in Job \cup {NoJob} /\ rows \in [Chunks -> Row \cup {NoRow}]
  BY DEF TInv, TypeOK, SnapshotTypeOK
<1>c. 0 \notin SnapshotIds
  BY DEF SnapshotIds
<1>1. CASE LoadJob(i)
  <2>1. CASE job = NoJob
    <3>1. Calm(i)
      BY <1>1, <2>1, FailCalm DEF LoadJob
    <3> QED BY <3>1, CalmKeeps
  <2>2. CASE job # NoJob
    <3>1. Calm(i)
      BY <1>1, <1>a, <2>2 DEF LoadJob, Instance, Calm, Serving
    <3> QED BY <3>1, CalmKeeps
  <2> QED BY <2>1, <2>2
<1>2. CASE ClaimNextChunk(i)
  <2>1. PICK c \in Chunks :
          /\ rows[c].status = "pending" \/ Expired(c)
          /\ rows' = [rows EXCEPT ![c].status = "in_progress", ![c].by = i]
          /\ inst' = [inst EXCEPT ![i].pc = "begin", ![i].chunk = c, ![i].rowSnap = rows[c].snap]
    BY <1>2 DEF ClaimNextChunk
  <2>2. rows[c] \in Row /\ rows[c].snap \in SnapshotIds
    BY <1>b, <2>1 DEF NoRow, Expired, Row
  <2>3. /\ inst'[i].pc = "begin" /\ inst'[i].rowSnap = rows[c].snap
        /\ inst'[i].loaded = inst[i].loaded /\ inst'[i].conn = inst[i].conn
        /\ inst'[i].coordinator = inst[i].coordinator
        /\ \A j \in Instances \ {i} : inst'[j] = inst[j]
    BY <1>a, <2>1 DEF Instance
  <2>4. UNCHANGED <<job, lock, exporter, delivered>> /\ inst[i].pc = "claim"
    BY <1>2 DEF ClaimNextChunk, At
  <2>5. /\ rows'[c].snap = rows[c].snap /\ rows'[c].status = "in_progress"
        /\ \A d \in Chunks \ {c} : rows'[d] = rows[d]
    BY <1>b, <2>1, <2>2 DEF Row
  <2>6. inst[i].loaded \in SnapshotIds
    BY <2>4 DEF TInv, PointsOK
  <2>7. exporter[inst[i].loaded] # Nobody => rows[c].snap = inst[i].loaded
    <3> SUFFICES ASSUME exporter[inst[i].loaded] # Nobody PROVE rows[c].snap = inst[i].loaded
      OBVIOUS
    <3>1. exporter[inst[i].loaded] \in Instances /\ Referenced(inst[i].loaded)
      BY <1>a, <2>6 DEF Referenced
    <3>2. rows[c].snap \in {0, inst[i].loaded}
      BY <2>6, <3>1 DEF ReadInv, ExportInv
    <3> QED BY <1>c, <2>2, <3>2
  <2>8. \A s \in SnapshotIds : Referenced(s)' => Referenced(s)
    BY <2>3, <2>4 DEF Referenced
  <2>9. ExportInv'
    <3>1. \A d \in Chunks : rows'[d].snap = rows[d].snap
      BY <2>5
    <3> QED BY <2>3, <2>4, <2>8, <3>1 DEF ReadInv, ExportInv, Serving
  <2>10. ConnInv'
    BY <2>3, <2>4 DEF ReadInv, ConnInv
  <2>11. WorkInv'
    BY <2>3, <2>4, <2>7 DEF ReadInv, WorkInv, At
  <2>12. CompletedChunksRead'
    BY <2>4, <2>5 DEF ReadInv, CompletedChunksRead
  <2> QED BY <2>9, <2>10, <2>11, <2>12 DEF ReadInv
<1>3. CASE NoMoreChunks(i)
  <2>1. Calm(i)
    BY <1>3, <1>a DEF NoMoreChunks, Instance, Calm, Serving
  <2> QED BY <2>1, CalmKeeps
<1>4. CASE SetTransactionSnapshot(i)
  <2>1. CASE exporter[inst[i].loaded] = Nobody
    <3>1. Calm(i)
      BY <1>4, <1>a, <2>1 DEF SetTransactionSnapshot, Goto, Instance, Calm, Serving
    <3> QED BY <3>1, CalmKeeps
  <2>2. CASE exporter[inst[i].loaded] # Nobody
    <3>1. UNCHANGED <<job, rows, lock, exporter, delivered>> /\ inst[i].pc = "begin"
      BY <1>4 DEF SetTransactionSnapshot, At
    <3>2. /\ inst'[i].pc = "read" /\ inst'[i].rowSnap = inst[i].rowSnap
          /\ inst'[i].loaded = inst[i].loaded /\ inst'[i].conn = inst[i].conn
          /\ inst'[i].coordinator = inst[i].coordinator
          /\ \A j \in Instances \ {i} : inst'[j] = inst[j]
      BY <1>4, <1>a, <2>2 DEF SetTransactionSnapshot, Goto, Instance
    <3>3. \A s \in SnapshotIds : Referenced(s)' => Referenced(s)
      BY <3>1, <3>2 DEF Referenced
    <3>4. ExportInv'
      BY <3>1, <3>2, <3>3 DEF ReadInv, ExportInv, Serving
    <3>5. ConnInv'
      BY <3>1, <3>2 DEF ReadInv, ConnInv
    <3>6. WorkInv'
      BY <2>2, <3>1, <3>2 DEF ReadInv, WorkInv, At
    <3>7. CompletedChunksRead'
      BY <3>1 DEF ReadInv, CompletedChunksRead
    <3> QED BY <3>4, <3>5, <3>6, <3>7 DEF ReadInv
  <2> QED BY <2>1, <2>2
<1>5. CASE ProcessChunk(i)
  <2>1. UNCHANGED <<job, rows, lock, exporter>> /\ inst[i].pc = "read"
    BY <1>5 DEF ProcessChunk, At
  <2>2. inst[i].loaded \in SnapshotIds /\ inst[i].chunk \in Chunks
    BY <2>1 DEF TInv, PointsOK, Holding
  <2>3. /\ inst[i].chunk \in delivered'[inst[i].loaded]
        /\ \A s \in SnapshotIds : delivered[s] \subseteq delivered'[s]
    BY <1>5, <1>a, <2>2 DEF ProcessChunk
  <2>4. /\ inst'[i].pc = "mark" /\ inst'[i].rowSnap = inst[i].rowSnap
        /\ inst'[i].chunk = inst[i].chunk
        /\ inst'[i].loaded = inst[i].loaded /\ inst'[i].conn = inst[i].conn
        /\ inst'[i].coordinator = inst[i].coordinator
        /\ \A j \in Instances \ {i} : inst'[j] = inst[j]
    BY <1>5, <1>a DEF ProcessChunk, Goto, Instance
  <2>5. \A s \in SnapshotIds : Referenced(s)' => Referenced(s)
    BY <2>1, <2>4 DEF Referenced
  <2>6. ExportInv'
    BY <2>1, <2>4, <2>5 DEF ReadInv, ExportInv, Serving
  <2>7. ConnInv'
    BY <2>1, <2>4 DEF ReadInv, ConnInv
  <2>8. WorkInv'
    <3>1. \A k \in Instances : At(k, "mark") => inst[k].loaded \in SnapshotIds
      BY DEF TInv, PointsOK, Holding, At
    <3> QED BY <2>1, <2>3, <2>4, <3>1 DEF ReadInv, WorkInv, At
  <2>9. CompletedChunksRead'
    <3>1. \A c \in Chunks : rows[c].status = "completed" => rows[c].snap \in SnapshotIds
      BY <1>b DEF Row, NoRow
    <3> QED BY <2>1, <2>3, <3>1 DEF ReadInv, CompletedChunksRead
  <2> QED BY <2>6, <2>7, <2>8, <2>9 DEF ReadInv
<1>6. CASE MarkChunkCompleted(i)
  <2>1. UNCHANGED <<job, lock, exporter, delivered>> /\ inst[i].pc = "mark"
    BY <1>6 DEF MarkChunkCompleted, At
  <2>2. /\ inst'[i].pc = "count" /\ inst'[i].loaded = inst[i].loaded
        /\ inst'[i].conn = inst[i].conn /\ inst'[i].coordinator = inst[i].coordinator
        /\ \A j \in Instances \ {i} : inst'[j] = inst[j]
    BY <1>6, <1>a DEF MarkChunkCompleted, Instance
  <2>3. \A c \in Chunks : rows'[c].snap = rows[c].snap
    BY <1>6, RowsStep DEF RowsKept
  <2>4. \A s \in SnapshotIds : Referenced(s)' => Referenced(s)
    BY <2>1, <2>2 DEF Referenced
  <2>5. ExportInv'
    BY <2>1, <2>2, <2>3, <2>4 DEF ReadInv, ExportInv, Serving
  <2>6. ConnInv'
    BY <2>1, <2>2 DEF ReadInv, ConnInv
  <2>7. WorkInv'
    BY <2>1, <2>2 DEF ReadInv, WorkInv, At
  <2>8. CompletedChunksRead'
    <3> SUFFICES ASSUME NEW c \in Chunks, rows'[c].status = "completed"
                 PROVE  c \in delivered[rows[c].snap]
      BY <2>1, <2>3 DEF CompletedChunksRead
    <3>1. CASE rows[c].status = "completed"
      BY <3>1 DEF ReadInv, CompletedChunksRead
    <3>2. CASE rows[c].status # "completed"
      <4>1. RowThere(i) /\ c = inst[i].chunk
        BY <1>6, <1>b, <3>2 DEF MarkChunkCompleted
      <4>2. rows[c].snap = inst[i].loaded /\ inst[i].chunk \in delivered[inst[i].loaded]
        BY <2>1, <4>1 DEF ReadInv, WorkInv, RowThere, At
      <4> QED BY <4>1, <4>2
    <3> QED BY <3>1, <3>2
  <2> QED BY <2>5, <2>6, <2>7, <2>8 DEF ReadInv
<1>7. CASE CountChunk(i) \/ MarkJobAsCompleted(i)
  <2>1. job'.snap = job.snap
    BY <1>7, <1>b DEF CountChunk, MarkJobAsCompleted, Job
  <2>2. Calm(i)
    BY <1>7, <1>a, <2>1 DEF CountChunk, MarkJobAsCompleted, Goto, Instance, Calm, Serving
  <2> QED BY <2>2, CalmKeeps
<1>8. CASE ReleaseChunk(i)
  <2>1. UNCHANGED <<job, delivered>> /\ inst[i].pc = "release" /\ inst[i].chunk \in Chunks
    BY <1>8 DEF ReleaseChunk, At, TInv, PointsOK, Holding
  <2>2. \A c \in Chunks : rows'[c] = rows[c] \/ (rows'[c].status # "completed"
                                                 /\ rows'[c].snap \in {0, rows[c].snap})
    <3>1. \A c \in Chunks : rows'[c].snap = rows[c].snap
      BY <1>8, RowsStep DEF RowsKept
    <3>2. CASE RowThere(i)
      <4>1. rows' = [rows EXCEPT ![inst[i].chunk] =
                       [rows[inst[i].chunk] EXCEPT !.status = "pending", !.by = Nobody]]
        BY <1>8, <1>b, <2>1, <3>2 DEF ReleaseChunk
      <4>2. rows[inst[i].chunk] \in Row
        BY <1>b, <1>c, <2>1, <3>2 DEF RowThere, NoRow, TInv, PointsOK, Holding
      <4>3. [rows[inst[i].chunk] EXCEPT !.status = "pending", !.by = Nobody].status = "pending"
        BY <4>2 DEF Row
      <4> QED BY <1>b, <2>1, <3>1, <4>1, <4>3
    <3>3. CASE ~ RowThere(i)
      BY <1>8, <3>3 DEF ReleaseChunk
    <3> QED BY <3>2, <3>3
  <2>3. CASE inst[i].retry < MaxRetries
    <3>1. /\ inst'[i].pc = "execute" /\ inst'[i].conn = inst[i].conn /\ inst'[i].loaded = 0
          /\ inst'[i].coordinator = inst[i].coordinator
          /\ \A j \in Instances \ {i} : inst'[j] = inst[j]
          /\ UNCHANGED <<lock, exporter>>
      BY <1>8, <1>a, <2>3 DEF ReleaseChunk, Instance
    <3>2. Calm(i)
      BY <2>1, <2>2, <3>1 DEF Calm, Serving
    <3> QED BY <3>2, CalmKeeps
  <2>4. CASE ~(inst[i].retry < MaxRetries)
    <3>1. Calm(i)
      BY <1>8, <2>1, <2>2, <2>4, ExitCalm DEF ReleaseChunk
    <3> QED BY <3>1, CalmKeeps
  <2> QED BY <2>3, <2>4
<1>9. CASE CheckJobCompleted(i)
  <2>1. Calm(i)
    BY <1>9, <1>a DEF CheckJobCompleted, Instance, Calm, Serving
  <2> QED BY <2>1, CalmKeeps
<1>10. CASE CloseAllConnections(i)
  <2>1. UNCHANGED <<job, rows, delivered>> /\ (lock' = lock \/ lock = i)
    BY <1>10 DEF CloseAllConnections
  <2>2. /\ inst'[i].pc = "commit" /\ inst'[i].conn = 0 /\ inst'[i].loaded = inst[i].loaded
        /\ \A j \in Instances \ {i} : inst'[j] = inst[j]
    BY <1>10, <1>a DEF CloseAllConnections, Instance
  <2>3. \A s \in SnapshotIds : exporter'[s] = IF s = inst[i].conn THEN Nobody ELSE exporter[s]
    BY <1>10, CommitCloses DEF CloseAllConnections
  <2>4. Calm(i)
    BY <2>1, <2>2, <2>3, NobodyAssumption DEF Calm
  <2> QED BY <2>4, CalmKeeps
<1> QED BY <1>1, <1>2, <1>3, <1>4, <1>5, <1>6, <1>7, <1>8, <1>9, <1>10 DEF Execute

LEMMA ReadStep ==
  ASSUME TRUE \notin Resnapshot, ErrorPoints \cap Serving \subseteq {"read"}
  PROVE  TInv /\ OwnerInv /\ JobInv /\ ReadInv /\ [Next]_vars => ReadInv'
<1> SUFFICES ASSUME TInv, OwnerInv, JobInv, ReadInv, [Next]_vars PROVE ReadInv'
  OBVIOUS
<1>a. inst \in [Instances -> Instance] /\ \A i \in Instances : inst[i] \in Instance
  BY DEF TInv, TypeOK, SnapshotTypeOK
<1>1. ASSUME NEW i \in Instances, Step(i) \/ Timeout(i) PROVE ReadInv'
  BY <1>1, ExecuteReads, StartCalm, PrepareReads, CalmKeeps DEF Step, Timeout
<1>2. ASSUME NEW i \in Instances, Crash(i) PROVE ReadInv'
  <2>1. Calm(i)
    BY <1>2, ExitCalm DEF Crash
  <2> QED BY <2>1, CalmKeeps
<1>3. ASSUME NEW i \in Instances, DBError(i) PROVE ReadInv'
  <2>1. CASE At(i, "read")
    <3>1. Calm(i)
      BY <1>3, <1>a, <2>1 DEF DBError, Goto, At, Instance, Calm, Serving
    <3> QED BY <3>1, CalmKeeps
  <2>2. CASE ~ At(i, "read")
    <3>1. inst[i].pc \notin Serving
      BY <1>3, <2>2 DEF DBError, At
    <3>2. Calm(i)
      <4>1. UNCHANGED <<job, rows, delivered>>
        BY <1>3 DEF DBError
      <4>2. CASE Fail(i)
        BY <3>1, <4>1, <4>2, FailCalm
      <4>3. CASE ~ Fail(i)
        BY <1>3, <2>2, <3>1, <4>1, <4>3, ErrorMoves DEF Calm, Serving
      <4> QED BY <4>2, <4>3
    <3> QED BY <3>2, CalmKeeps
  <2> QED BY <2>1, <2>2
<1>4. ASSUME NEW i \in Instances, Restart(i) PROVE ReadInv'
  <2>1. Calm(i)
    BY <1>4, <1>a DEF Restart, Goto, At, Instance, Calm, Serving
  <2> QED BY <2>1, CalmKeeps
<1>5. CASE SourceCommit \/ UNCHANGED vars
  BY <1>5 DEF SourceCommit, vars, snapshotVars, ReadInv, ExportInv, ConnInv, WorkInv,
              CompletedChunksRead, Referenced, At
<1> QED BY <1>1, <1>2, <1>3, <1>4, <1>5 DEF Next

LEMMA ReadInit == TInv /\ Init => ReadInv
BY NobodyAssumption DEF Init, SnapshotInit, Fresh, NoRow, ReadInv, ExportInv, ConnInv, WorkInv,
   CompletedChunksRead, At

-----------------------------------------------------------------------------
(* No gap between snapshot and stream.                                     *)

\* What GapInv says of one process.
LocalGap(i) ==
  /\ inst[i].pc \in {"lock", "lsn"} \cup Making => 0 < slotLsn
  /\ inst[i].pc \in Making => slotLsn <= inst[i].lsn /\ inst[i].lsn <= wal
  /\ inst[i].pc \in {"chunks", "saveJob"} => inst[i].lsn <= views[inst[i].conn]
  /\ At(i, "chunks") => \A c \in 1 .. (inst[i].chunk - 1) : rows[c].snap = inst[i].conn
  /\ At(i, "saveJob") => \A c \in Chunks : rows[c].snap = inst[i].conn
  /\ At(i, "markJob") /\ job # NoJob => ReadSince(job.lsn)
  /\ At(i, "slotOnly") => 0 < slotLsn /\ ReadSince(slotLsn)
  /\ At(i, "capture") /\ ~ inst[i].fromSnapshot => 0 < slotLsn /\ ReadSince(slotLsn)
  /\ inst[i].pc \in Serving => inst[i].fromSnapshot
  /\ At(i, "open") => 0 < slotLsn /\ slotLsn <= inst[i].lsn /\ ReadSince(inst[i].lsn)

\* And of the job and the source.
SharedGap ==
  /\ slotLsn <= wal
  /\ job # NoJob => 0 < slotLsn /\ slotLsn <= job.lsn /\ job.lsn <= views[job.snap]
  /\ job # NoJob /\ ~ job.completed =>
       \/ \A c \in Chunks : rows[c] = NoRow
       \/ \A c \in Chunks : rows[c].snap = job.snap
  /\ DeliveredOK
  /\ job # NoJob /\ job.completed => ReadSince(job.lsn)

LEMMA GapParts == GapInv <=> SharedGap /\ \A i \in Instances : LocalGap(i)
<1>1. GapInv => SharedGap /\ \A i \in Instances : LocalGap(i)
  BY DEF GapInv, LsnOK, RowsOK, ReadOK, OpenOK, SharedGap, LocalGap
<1>2. SharedGap /\ (\A i \in Instances : LocalGap(i)) => GapInv
  BY DEF GapInv, LsnOK, RowsOK, ReadOK, OpenOK, SharedGap, LocalGap
<1> QED BY <1>1, <1>2

LEMMA GapPartsNext == GapInv' <=> SharedGap' /\ \A i \in Instances : LocalGap(i)'
<1>1. GapInv' => SharedGap' /\ \A i \in Instances : LocalGap(i)'
  BY DEF GapInv, LsnOK, RowsOK, ReadOK, OpenOK, SharedGap, LocalGap
<1>2. SharedGap' /\ (\A i \in Instances : LocalGap(i)') => GapInv'
  BY DEF GapInv, LsnOK, RowsOK, ReadOK, OpenOK, SharedGap, LocalGap
<1> QED BY <1>1, <1>2

\* Program points of which GapInv says nothing.
Easy == {"down", "start", "slot", "waitJob", "waitChunks", "fetch", "streaming"}

\* The numbers of the model are natural numbers.
LEMMA GapNumbers ==
  ASSUME TInv
  PROVE  /\ slotLsn \in Nat /\ wal \in Nat /\ 0 < wal
         /\ \A i \in Instances : inst[i].lsn \in Nat
         /\ \A s \in SnapshotIds : views[s] \in Nat
         /\ \A c \in Chunks : asOf[c] \in Nat
         /\ job.lsn \in Nat
         /\ job # NoJob => job.snap \in SnapshotIds
         /\ \A c \in Chunks : rows[c] = NoRow <=> rows[c].snap = 0
<1>1. /\ inst \in [Instances -> Instance] /\ job \in Job \cup {NoJob}
      /\ rows \in [Chunks -> Row \cup {NoRow}]
      /\ views \in [SnapshotIds -> Nat] /\ asOf \in [Chunks -> Nat]
      /\ wal \in Nat \ {0} /\ slotLsn \in Nat
  BY DEF TInv, TypeOK, SnapshotTypeOK
<1>2. 0 \notin SnapshotIds
  BY DEF SnapshotIds
<1>3. \A i \in Instances : inst[i].lsn \in Nat
  BY <1>1 DEF Instance
<1>4. job.lsn \in Nat /\ (job # NoJob => job.snap \in SnapshotIds)
  BY <1>1 DEF Job, NoJob
<1>5. \A c \in Chunks : rows[c] = NoRow <=> rows[c].snap = 0
  BY <1>1, <1>2 DEF Row, NoRow
<1> QED BY <1>1, <1>3, <1>4, <1>5

LEMMA SinceEarlier ==
  ASSUME TInv, NEW l \in Nat, NEW m \in Nat, l <= m, ReadSince(m)
  PROVE  ReadSince(l)
<1>1. \A c \in Chunks : asOf[c] \in Nat
  BY GapNumbers
<1> QED BY <1>1 DEF ReadSince

\* What process j relies on is kept by a step of another process that leaves it the
\* rows it inserts and the job it is about to mark.
LEMMA OthersKeep ==
  ASSUME TInv, TInv', NEW j \in Instances, LocalGap(j), inst'[j] = inst[j],
         slotLsn' = slotLsn \/ slotLsn = 0,
         wal <= wal',
         inst[j].pc \in {"chunks", "saveJob"} =>
           /\ views'[inst[j].conn] = views[inst[j].conn]
           /\ \A c \in Chunks : rows'[c].snap = rows[c].snap,
         \A c \in Chunks : asOf[c] <= asOf'[c],
         At(j, "markJob") /\ job' # NoJob => job # NoJob /\ job'.lsn = job.lsn
  PROVE  LocalGap(j)'
<1>1. /\ slotLsn \in Nat /\ wal \in Nat /\ wal' \in Nat /\ inst[j].lsn \in Nat
      /\ \A c \in Chunks : asOf[c] \in Nat /\ asOf'[c] \in Nat
      /\ job.lsn \in Nat
  <2>1. wal' \in Nat /\ \A c \in Chunks : asOf'[c] \in Nat
    BY DEF TInv, TypeOK, SnapshotTypeOK
  <2> QED BY <2>1, GapNumbers
<1>2. \A l \in Nat : ReadSince(l) => ReadSince(l)'
  BY <1>1 DEF ReadSince
<1>3. At(j, "chunks") => inst[j].chunk \in Chunks
  BY DEF TInv, PointsOK
<1>4. At(j, "chunks") => 1 .. (inst[j].chunk - 1) \subseteq Chunks
  BY <1>3, NumChunksAssumption DEF Chunks
<1>5. inst[j].pc \in {"lock", "lsn", "slotOnly", "open"} \cup Making => slotLsn' = slotLsn
  BY <1>1 DEF LocalGap, At, Making
<1>6. At(j, "capture") /\ ~ inst[j].fromSnapshot => slotLsn' = slotLsn
  BY <1>1 DEF LocalGap
<1>7. /\ inst'[j].pc \in {"lock", "lsn"} \cup Making => 0 < slotLsn'
      /\ inst'[j].pc \in Making => slotLsn' <= inst'[j].lsn /\ inst'[j].lsn <= wal'
  BY <1>1, <1>5 DEF LocalGap, Making
<1>8. /\ inst'[j].pc \in {"chunks", "saveJob"} => inst'[j].lsn <= views'[inst'[j].conn]
      /\ At(j, "chunks")' => \A c \in 1 .. (inst'[j].chunk - 1) : rows'[c].snap = inst'[j].conn
      /\ At(j, "saveJob")' => \A c \in Chunks : rows'[c].snap = inst'[j].conn
  BY <1>4 DEF LocalGap, At
<1>9. At(j, "markJob")' /\ job' # NoJob => ReadSince(job.lsn)'
  <2> SUFFICES ASSUME At(j, "markJob")', job' # NoJob PROVE ReadSince(job.lsn)'
    OBVIOUS
  <2>1. ReadSince(job.lsn) /\ job'.lsn = job.lsn
    BY DEF LocalGap, At
  <2> QED BY <1>1, <2>1 DEF ReadSince
<1>10. /\ At(j, "slotOnly")' => 0 < slotLsn' /\ ReadSince(slotLsn)'
       /\ At(j, "capture")' /\ ~ inst'[j].fromSnapshot => 0 < slotLsn' /\ ReadSince(slotLsn)'
  <2>1. ReadSince(slotLsn) => \A c \in Chunks : slotLsn <= asOf'[c]
    BY <1>1 DEF ReadSince
  <2> QED BY <1>5, <1>6, <2>1 DEF LocalGap, At, ReadSince
<1>11. inst'[j].pc \in Serving => inst'[j].fromSnapshot
  BY DEF LocalGap
<1>12. At(j, "open")' => 0 < slotLsn' /\ slotLsn' <= inst'[j].lsn /\ ReadSince(inst[j].lsn)'
  <2>1. ReadSince(inst[j].lsn) => \A c \in Chunks : inst[j].lsn <= asOf'[c]
    BY <1>1 DEF ReadSince
  <2> QED BY <1>5, <2>1 DEF LocalGap, At, ReadSince
<1> QED BY <1>7, <1>8, <1>9, <1>10, <1>11, <1>12 DEF LocalGap

\* A step of process i that at most completes the job it has checked, and changes
\* the state of chunk rows.
Mild(i) ==
  /\ \A j \in Instances \ {i} : inst'[j] = inst[j]
  /\ UNCHANGED <<slotLsn, views, delivered, asOf, wal>>
  /\ \/ job' = job
     \/ /\ job # NoJob /\ job' # NoJob
        /\ job'.snap = job.snap /\ job'.lsn = job.lsn
        /\ job'.completed => job.completed \/ At(i, "markJob")
        /\ job.completed => job'.completed
  /\ \A c \in Chunks : rows'[c].snap = rows[c].snap

LEMMA MildKeeps ==
  ASSUME TInv, TInv', GapInv, NEW i \in Instances, Mild(i), LocalGap(i)'
  PROVE  GapInv'
<1>a. SharedGap /\ \A j \in Instances : LocalGap(j)
  BY GapParts
<1>b. wal \in Nat /\ \A c \in Chunks : asOf[c] \in Nat
  BY GapNumbers
<1>1. ASSUME NEW j \in Instances, j # i PROVE LocalGap(j)'
  <2>1. LocalGap(j) /\ inst'[j] = inst[j] /\ slotLsn' = slotLsn /\ wal <= wal'
    BY <1>1, <1>a, <1>b DEF Mild
  <2>2. \A c \in Chunks : asOf[c] <= asOf'[c]
    BY <1>b DEF Mild
  <2>3. /\ inst[j].pc \in {"chunks", "saveJob"} =>
             /\ views'[inst[j].conn] = views[inst[j].conn]
             /\ \A c \in Chunks : rows'[c].snap = rows[c].snap
        /\ At(j, "markJob") /\ job' # NoJob => job # NoJob /\ job'.lsn = job.lsn
    BY DEF Mild
  <2> QED BY <2>1, <2>2, <2>3, OthersKeep
<1>2. SharedGap'
  <2>1. job' # NoJob => job # NoJob /\ job'.snap = job.snap /\ job'.lsn = job.lsn
    BY DEF Mild
  <2>2. \A c \in Chunks : rows[c] = NoRow => rows'[c] = NoRow
    <3>1. \A c \in Chunks : rows[c] = NoRow <=> rows[c].snap = 0
      BY GapNumbers
    <3>2. \A c \in Chunks : rows'[c] = NoRow <=> rows'[c].snap = 0
      BY DEF TInv, TypeOK, SnapshotTypeOK, Row, NoRow, SnapshotIds
    <3> QED BY <3>1, <3>2 DEF Mild
  <2>3. job' # NoJob /\ ~ job'.completed =>
          \/ \A c \in Chunks : rows'[c] = NoRow
          \/ \A c \in Chunks : rows'[c].snap = job'.snap
    <3>1. job' # NoJob /\ ~ job'.completed => job # NoJob /\ job'.snap = job.snap
      BY <2>1
    <3>2. job' # NoJob /\ ~ job'.completed => ~ job.completed
      BY DEF Mild
    <3> QED BY <1>a, <2>2, <3>1, <3>2 DEF SharedGap, Mild
  <2>4. job' # NoJob /\ job'.completed => ReadSince(job.lsn)'
    <3>1. job' # NoJob /\ job'.completed => ReadSince(job.lsn)
      BY <1>a, <2>1 DEF SharedGap, Mild, LocalGap
    <3> QED BY <2>1, <3>1 DEF ReadSince, Mild
  <2>5. DeliveredOK'
    BY <1>a DEF SharedGap, DeliveredOK, Mild
  <2>6. slotLsn' <= wal' /\ (job' # NoJob => 0 < slotLsn' /\ slotLsn' <= job'.lsn /\ job'.lsn <= views'[job'.snap])
    BY <1>a, <2>1 DEF SharedGap, Mild
  <2> QED BY <2>3, <2>4, <2>5, <2>6 DEF SharedGap
<1> QED BY <1>1, <1>2, GapPartsNext

LEMMA EasyKeeps ==
  ASSUME TInv, TInv', GapInv, NEW i \in Instances, Mild(i),
         inst'[i].pc \in Easy \/ (inst'[i].pc \in Serving \ {"markJob"} /\ inst'[i].fromSnapshot)
  PROVE  GapInv'
<1>1. LocalGap(i)'
  BY DEF Easy, Serving, Making, LocalGap, At
<1> QED BY <1>1, MildKeeps

LEMMA ExitGap ==
  ASSUME TInv, TInv', GapInv, NEW i \in Instances, Exit(i) \/ Fail(i),
         UNCHANGED <<job, slotLsn, views, delivered, asOf, wal>>,
         \A c \in Chunks : rows'[c].snap = rows[c].snap
  PROVE  GapInv'
<1>1. inst'[i].pc \in Easy /\ \A j \in Instances \ {i} : inst'[j] = inst[j]
  BY ExitQuiet, FailQuiet DEF Easy
<1>2. Mild(i)
  BY <1>1 DEF Mild
<1> QED BY <1>1, <1>2, EasyKeeps

\* Start: a stream opens where the slot was made, if the snapshot was completed
\* before, or at the LSN of a completed job.
LEMMA StartGap ==
  ASSUME TInv, TInv', GapInv, TRUE \notin Resnapshot, NEW i \in Instances, Start(i)
  PROVE  GapInv'
<1>a. inst \in [Instances -> Instance] /\ inst[i] \in Instance
  BY DEF TInv, TypeOK, SnapshotTypeOK
<1>b. SharedGap /\ \A j \in Instances : LocalGap(j)
  BY GapParts
<1>1. CASE ShouldTakeSnapshot(i)
  <2>0. UNCHANGED <<job, rows, views, delivered, asOf, wal, slotLsn>>
    BY <1>1 DEF ShouldTakeSnapshot, slotVars
  <2>1. CASE inst[i].finalized
    BY <1>1, <2>0, <2>1, ExitGap DEF ShouldTakeSnapshot
  <2>2. CASE ~ inst[i].finalized
    <3>1. PICK p \in {"slot", "slotOnly"} :
            /\ inst' = [inst EXCEPT ![i].attempt = 1, ![i].pc = p]
            /\ p = "slotOnly" => job # NoJob /\ job.completed
      BY <1>1, <2>2, ResnapshotAssumption DEF ShouldTakeSnapshot
    <3>2. inst'[i].pc = p /\ \A j \in Instances \ {i} : inst'[j] = inst[j]
      BY <1>a, <3>1 DEF Instance
    <3>3. Mild(i)
      BY <2>0, <3>2 DEF Mild
    <3>4. CASE p = "slot"
      BY <3>2, <3>3, <3>4, EasyKeeps DEF Easy
    <3>5. CASE p = "slotOnly"
      <4>1. 0 < slotLsn /\ slotLsn <= job.lsn /\ ReadSince(job.lsn)
        BY <1>b, <3>1, <3>5 DEF SharedGap
      <4>2. ReadSince(slotLsn)
        BY <4>1, GapNumbers, SinceEarlier
      <4>3. 0 < slotLsn' /\ ReadSince(slotLsn)'
        BY <2>0, <4>1, <4>2 DEF ReadSince
      <4>4. LocalGap(i)'
        BY <3>2, <3>5, <4>3 DEF LocalGap, At, Making, Serving
      <4> QED BY <3>3, <4>4, MildKeeps
    <3> QED BY <3>4, <3>5
  <2> QED BY <2>1, <2>2
<1>2. CASE SlotInfo(i)
  <2>1. UNCHANGED <<job, rows, views, delivered, asOf, wal, slotLsn>>
    BY <1>2 DEF SlotInfo, slotVars
  <2>2. \A j \in Instances \ {i} : inst'[j] = inst[j]
    BY <1>2, <1>a DEF SlotInfo, Goto
  <2>3. Mild(i)
    BY <2>1, <2>2 DEF Mild
  <2>4. CASE At(i, "slotOnly")
    <3>1. inst'[i].pc = "capture"
      BY <1>2, <1>a, <2>4 DEF SlotInfo, Goto, At, Instance
    <3>2. 0 < slotLsn /\ ReadSince(slotLsn)
      BY <1>b, <2>4 DEF LocalGap, At
    <3>3. 0 < slotLsn' /\ ReadSince(slotLsn)'
      BY <2>1, <3>2 DEF ReadSince
    <3>4. LocalGap(i)'
      BY <3>1, <3>3 DEF LocalGap, At, Making, Serving
    <3> QED BY <2>3, <3>4, MildKeeps
  <2>5. CASE ~ At(i, "slotOnly")
    <3>1. inst'[i].pc = IF slotLsn = 0 THEN "createSlot" ELSE "lock"
      BY <1>2, <1>a, <2>5 DEF SlotInfo, Goto, At, Instance
    <3>2. slotLsn \in Nat
      BY GapNumbers
    <3>3. LocalGap(i)'
      BY <2>1, <3>1, <3>2 DEF LocalGap, At, Making, Serving
    <3> QED BY <2>3, <3>3, MildKeeps
  <2> QED BY <2>4, <2>5
<1>2b. CASE CreateSlot(i) /\ slotLsn # 0
  BY <1>2b, ExitGap DEF CreateSlot
<1>2a. CASE CreateSlot(i) /\ slotLsn = 0
  <2>1. UNCHANGED <<job, rows, views, delivered, asOf, wal>> /\ slotLsn' = wal
    BY <1>2a DEF CreateSlot
  <2>2. inst'[i].pc = "lock"
    BY <1>2a, <1>a DEF CreateSlot, Goto, At, Instance
  <2>3. \A j \in Instances \ {i} : inst'[j] = inst[j]
    BY <1>2a, <1>a DEF CreateSlot, Goto
  <2>4. slotLsn \in Nat /\ wal \in Nat /\ 0 < wal /\ \A c \in Chunks : asOf[c] \in Nat
    BY GapNumbers
  <2>5. 0 < slotLsn' /\ slotLsn' <= wal'
    BY <2>1, <2>4
  <2>6. LocalGap(i)'
    BY <2>2, <2>5 DEF LocalGap, At, Making, Serving
  <2>7. ASSUME NEW j \in Instances, j # i PROVE LocalGap(j)'
    <3>1. LocalGap(j) /\ inst'[j] = inst[j] /\ (slotLsn' = slotLsn \/ slotLsn = 0) /\ wal <= wal'
      BY <1>2a, <1>b, <2>1, <2>3, <2>4, <2>7
    <3>2. \A c \in Chunks : asOf[c] <= asOf'[c]
      BY <2>1, <2>4
    <3> QED BY <2>1, <3>1, <3>2, OthersKeep
  <2>8. SharedGap'
    <3>1. job = NoJob
      BY <1>2a, <1>b, <2>4 DEF SharedGap
    <3>2. DeliveredOK'
      BY <1>b, <2>1 DEF SharedGap, DeliveredOK
    <3>3. job' # NoJob /\ job'.completed => ReadSince(job.lsn)'
      BY <1>b, <2>1 DEF SharedGap, ReadSince
    <3> QED BY <1>b, <2>1, <2>5, <3>1, <3>2, <3>3 DEF SharedGap
  <2> QED BY <2>6, <2>7, <2>8, GapPartsNext
<1>3. CASE CommitTransaction(i)
  <2>1. /\ inst[i].pc = "commit" /\ inst'[i].pc = "capture"
        /\ inst'[i].fromSnapshot = inst[i].fromSnapshot
        /\ \A j \in Instances \ {i} : inst'[j] = inst[j]
    BY <1>3, <1>a DEF CommitTransaction, Goto, At, Instance
  <2>2. Mild(i)
    BY <1>3, <2>1 DEF CommitTransaction, Mild, slotVars
  <2>3. inst'[i].fromSnapshot
    BY <1>b, <2>1 DEF LocalGap, Serving
  <2>4. LocalGap(i)'
    BY <2>1, <2>3 DEF LocalGap, At, Making, Serving
  <2> QED BY <2>2, <2>4, MildKeeps
<1>4. CASE CaptureSlot(i)
  <2>1. /\ inst[i].pc = "capture" /\ inst'[i].lsn = slotLsn
        /\ inst'[i].pc = IF inst[i].fromSnapshot THEN "fetch" ELSE "open"
        /\ \A j \in Instances \ {i} : inst'[j] = inst[j]
    BY <1>4, <1>a DEF CaptureSlot, At, Instance
  <2>2. Mild(i)
    BY <1>4, <2>1 DEF CaptureSlot, Mild, slotVars
  <2>3. CASE inst[i].fromSnapshot
    BY <2>1, <2>2, <2>3, EasyKeeps DEF Easy
  <2>4. CASE ~ inst[i].fromSnapshot
    <3>1. 0 < slotLsn /\ ReadSince(slotLsn)
      BY <1>b, <2>1, <2>4 DEF LocalGap, At
    <3>2. 0 < slotLsn' /\ slotLsn' <= inst'[i].lsn /\ ReadSince(inst[i].lsn)'
      BY <2>1, <2>2, <3>1, GapNumbers DEF Mild, ReadSince
    <3>3. LocalGap(i)'
      BY <2>1, <2>4, <3>2 DEF LocalGap, At, Making, Serving
    <3> QED BY <2>2, <3>3, MildKeeps
  <2> QED BY <2>3, <2>4
<1>5. CASE FetchSnapshotLSN(i)
  <2>1. UNCHANGED <<job, rows, views, delivered, asOf, wal, slotLsn>>
    BY <1>5 DEF FetchSnapshotLSN, slotVars
  <2>2. CASE Exit(i)
    BY <2>1, <2>2, ExitGap
  <2>3. CASE ~ Exit(i)
    <3>1. /\ job # NoJob /\ job.completed
          /\ inst'[i].pc = "open" /\ inst'[i].lsn = job.lsn
          /\ \A j \in Instances \ {i} : inst'[j] = inst[j]
      BY <1>5, <1>a, <2>3 DEF FetchSnapshotLSN, Instance
    <3>2. Mild(i)
      BY <2>1, <3>1 DEF Mild
    <3>3. 0 < slotLsn /\ slotLsn <= job.lsn /\ ReadSince(job.lsn)
      BY <1>b, <3>1 DEF SharedGap
    <3>4. 0 < slotLsn' /\ slotLsn' <= inst'[i].lsn /\ ReadSince(inst[i].lsn)'
      BY <2>1, <3>1, <3>3 DEF ReadSince
    <3>5. LocalGap(i)'
      BY <3>1, <3>4 DEF LocalGap, At, Making, Serving
    <3> QED BY <3>2, <3>5, MildKeeps
  <2> QED BY <2>2, <2>3
<1>6. CASE OpenStream(i)
  <2>1. inst'[i].pc \in Easy /\ \A j \in Instances \ {i} : inst'[j] = inst[j]
    BY <1>6, <1>a DEF OpenStream, Goto, Instance, Easy
  <2>2. Mild(i)
    BY <1>6, <2>1 DEF OpenStream, Mild
  <2> QED BY <2>1, <2>2, EasyKeeps
<1> QED BY <1>1, <1>2, <1>2a, <1>2b, <1>3, <1>4, <1>5, <1>6 DEF Start

\* Prepare: the LSN is captured after the slot was made and before the snapshot is
\* exported, and a job is saved when all its rows are there.
LEMMA PrepareGap ==
  ASSUME TInv, TInv', OwnerInv, JobInv, GapInv, Unraced, NEW i \in Instances,
         Prepare(i) \/ WaitTimeout(i), slotLsn' = slotLsn
  PROVE  GapInv'
<1>a. inst \in [Instances -> Instance] /\ inst[i] \in Instance /\ rows \in [Chunks -> Row \cup {NoRow}]
  BY DEF TInv, TypeOK, SnapshotTypeOK
<1>b. SharedGap /\ \A j \in Instances : LocalGap(j)
  BY GapParts
<1>c. inst[i].pc \in Owning => \A j \in Instances \ {i} : inst[j].pc \notin Owning
  BY DEF OwnerInv
<1>d. /\ slotLsn \in Nat /\ wal \in Nat /\ inst[i].lsn \in Nat
      /\ \A c \in Chunks : asOf[c] \in Nat
  BY GapNumbers
<1>1. CASE TryAcquireCoordinatorLock(i)
  <2>1. /\ inst[i].pc = "lock" /\ inst'[i].pc \in {"lsn", "waitJob"}
        /\ \A j \in Instances \ {i} : inst'[j] = inst[j]
    BY <1>1, <1>a DEF TryAcquireCoordinatorLock, Goto, At, Instance
  <2>2. Mild(i)
    BY <1>1, <2>1 DEF TryAcquireCoordinatorLock, Mild
  <2>3. 0 < slotLsn
    BY <1>b, <2>1 DEF LocalGap
  <2>4. LocalGap(i)'
    BY <2>1, <2>3 DEF LocalGap, At, Making, Serving
  <2> QED BY <2>2, <2>4, MildKeeps
<1>2. CASE GetCurrentLSN(i)
  <2>1. /\ inst[i].pc = "lsn" /\ inst'[i].pc = "load" /\ inst'[i].lsn = wal
        /\ \A j \in Instances \ {i} : inst'[j] = inst[j]
    BY <1>2, <1>a DEF GetCurrentLSN, At, Instance
  <2>2. Mild(i)
    BY <1>2, <2>1 DEF GetCurrentLSN, Mild
  <2>3. 0 < slotLsn /\ slotLsn <= wal
    BY <1>b, <2>1 DEF LocalGap, SharedGap
  <2>4. LocalGap(i)'
    BY <1>d, <2>1, <2>2, <2>3 DEF LocalGap, At, Making, Serving, Mild
  <2> QED BY <2>2, <2>4, MildKeeps
<1>3. CASE LoadExisting(i)
  <2>1. /\ inst[i].pc = "load" /\ inst'[i].pc \in {"cleanChunks", "export"}
        /\ inst'[i].lsn = inst[i].lsn
        /\ \A j \in Instances \ {i} : inst'[j] = inst[j]
    BY <1>3, <1>a DEF LoadExisting, Goto, At, Instance
  <2>2. Mild(i)
    BY <1>3, <2>1 DEF LoadExisting, Mild
  <2>3. LocalGap(i)'
    BY <1>b, <2>1, <2>2 DEF LocalGap, At, Making, Serving, Mild
  <2> QED BY <2>2, <2>3, MildKeeps
<1>4. CASE DeleteChunks(i)
  <2>1. /\ inst[i].pc = "cleanChunks" /\ inst'[i].pc = "cleanJob"
        /\ inst'[i].lsn = inst[i].lsn
        /\ \A j \in Instances \ {i} : inst'[j] = inst[j]
    BY <1>4, <1>a DEF DeleteChunks, OwnerInv, Goto, At, Instance
  <2>2. UNCHANGED <<job, views, delivered, asOf, wal, slotLsn>> /\ \A c \in Chunks : rows'[c] = NoRow
    BY <1>4 DEF DeleteChunks
  <2>3. LocalGap(i)'
    BY <1>b, <2>1, <2>2 DEF LocalGap, At, Making, Serving
  <2>4. ASSUME NEW j \in Instances, j # i PROVE LocalGap(j)'
    <3>1. LocalGap(j) /\ inst'[j] = inst[j] /\ wal <= wal' /\ inst[j].pc \notin Owning
      BY <1>b, <1>c, <1>d, <2>1, <2>2, <2>4 DEF Owning
    <3>2. \A c \in Chunks : asOf[c] <= asOf'[c]
      BY <1>d, <2>2
    <3> QED BY <2>2, <3>1, <3>2, OthersKeep DEF Owning
  <2>5. SharedGap'
    <3>1. DeliveredOK'
      BY <1>b, <2>2 DEF SharedGap, DeliveredOK
    <3> QED BY <1>b, <2>2, <3>1 DEF SharedGap, ReadSince
  <2> QED BY <2>3, <2>4, <2>5, GapPartsNext
<1>5. CASE DeleteJob(i)
  <2>1. /\ inst[i].pc = "cleanJob" /\ inst'[i].pc = "export"
        /\ inst'[i].lsn = inst[i].lsn
        /\ \A j \in Instances \ {i} : inst'[j] = inst[j]
    BY <1>5, <1>a DEF DeleteJob, OwnerInv, Goto, At, Instance
  <2>2. UNCHANGED <<rows, views, delivered, asOf, wal, slotLsn>> /\ job' = NoJob
    BY <1>5 DEF DeleteJob
  <2>3. LocalGap(i)'
    BY <1>b, <2>1, <2>2 DEF LocalGap, At, Making, Serving
  <2>4. ASSUME NEW j \in Instances, j # i PROVE LocalGap(j)'
    <3>1. LocalGap(j) /\ inst'[j] = inst[j] /\ wal <= wal'
      BY <1>b, <1>d, <2>1, <2>2, <2>4
    <3>2. \A c \in Chunks : asOf[c] <= asOf'[c]
      BY <1>d, <2>2
    <3> QED BY <2>2, <3>1, <3>2, OthersKeep
  <2>5. SharedGap'
    <3>1. DeliveredOK'
      BY <1>b, <2>2 DEF SharedGap, DeliveredOK
    <3> QED BY <1>b, <2>2, <3>1 DEF SharedGap
  <2> QED BY <2>3, <2>4, <2>5, GapPartsNext
<1>6. CASE ExportSnapshot(i)
  <2>0. PICK s \in SnapshotIds :
          /\ Unused(s)
          /\ views' = [views EXCEPT ![s] = wal]
          /\ delivered' = [delivered EXCEPT ![s] = {}]
          /\ inst' = [inst EXCEPT ![i].pc = "chunks", ![i].conn = s, ![i].chunk = 1]
    BY <1>6 DEF ExportSnapshot
  <2>1. /\ inst'[i].pc = "chunks" /\ inst'[i].conn = s /\ inst'[i].chunk = 1
        /\ inst'[i].lsn = inst[i].lsn
        /\ \A j \in Instances \ {i} : inst'[j] = inst[j]
    BY <1>a, <2>0 DEF Instance
  <2>2. UNCHANGED <<job, rows, asOf, wal, slotLsn>> /\ inst[i].pc = "export"
    BY <1>6 DEF ExportSnapshot, At
  <2>3. /\ views'[s] = wal /\ delivered'[s] = {}
        /\ \A r \in SnapshotIds \ {s} : views'[r] = views[r] /\ delivered'[r] = delivered[r]
    BY <2>0 DEF TInv, TypeOK, SnapshotTypeOK
  <2>4. 0 < slotLsn /\ slotLsn <= inst[i].lsn /\ inst[i].lsn <= wal
    BY <1>b, <2>2 DEF LocalGap, Making
  <2>5. LocalGap(i)'
    <3>1. 1 .. (inst'[i].chunk - 1) = {}
      BY <2>1
    <3> QED BY <2>1, <2>2, <2>3, <2>4, <3>1 DEF LocalGap, At, Making, Serving
  <2>6. ASSUME NEW j \in Instances, j # i PROVE LocalGap(j)'
    <3>1. LocalGap(j) /\ inst'[j] = inst[j] /\ wal <= wal' /\ inst[j].pc \notin Owning
      BY <1>b, <1>c, <1>d, <2>1, <2>2, <2>6 DEF Owning
    <3>2. \A c \in Chunks : asOf[c] <= asOf'[c]
      BY <1>d, <2>2
    <3> QED BY <2>2, <3>1, <3>2, OthersKeep DEF Owning
  <2>7. SharedGap'
    <3>1. DeliveredOK'
      BY <1>b, <2>2, <2>3 DEF SharedGap, DeliveredOK
    <3>2. job # NoJob => job.snap \in SnapshotIds \ {s}
      BY <2>0, GapNumbers DEF Unused
    <3>3. job # NoJob => views'[job.snap] = views[job.snap]
      BY <2>3, <3>2
    <3> QED BY <1>b, <2>2, <3>1, <3>3 DEF SharedGap, ReadSince
  <2> QED BY <2>5, <2>6, <2>7, GapPartsNext
<1>7. CASE InsertChunk(i)
  <2> DEFINE c == inst[i].chunk
  <2>0. inst[i].pc = "chunks" /\ c \in Chunks /\ UNCHANGED <<job, views, delivered, asOf, wal, slotLsn>>
    BY <1>7 DEF InsertChunk, TInv, PointsOK, At
  <2>1. CASE rows[c] # NoRow
    BY <1>7, <2>0, <2>1, ExitGap DEF InsertChunk
  <2>2. CASE rows[c] = NoRow
    <3>1. /\ rows' = [rows EXCEPT ![c] = [snap |-> inst[i].conn, status |-> "pending", by |-> Nobody]]
          /\ inst' = [inst EXCEPT ![i].pc = IF c = NumChunks THEN "saveJob" ELSE @,
                                  ![i].chunk = IF c = NumChunks THEN 0 ELSE @ + 1]
      BY <1>7, <2>2 DEF InsertChunk
    <3>2. /\ inst'[i].pc = IF c = NumChunks THEN "saveJob" ELSE "chunks"
          /\ c # NumChunks => inst'[i].chunk = c + 1
          /\ inst'[i].conn = inst[i].conn /\ inst'[i].lsn = inst[i].lsn
          /\ \A j \in Instances \ {i} : inst'[j] = inst[j]
      BY <1>a, <2>0, <3>1 DEF Instance
    <3>3. rows'[c].snap = inst[i].conn /\ \A d \in Chunks \ {c} : rows'[d] = rows[d]
      BY <1>a, <2>0, <3>1
    <3>4. \A d \in 1 .. (c - 1) : rows[d].snap = inst[i].conn
      BY <1>b, <2>0 DEF LocalGap, At
    <3>5. c \in Nat /\ c <= NumChunks /\ NumChunks \in Nat /\ Chunks = 1 .. NumChunks
      BY <2>0, NumChunksAssumption DEF Chunks
    <3> HIDE DEF c
    <3>6. \A d \in 1 .. c : rows'[d].snap = inst[i].conn
      BY <3>3, <3>4, <3>5
    <3>7. LocalGap(i)'
      <4>1. /\ 0 < slotLsn /\ slotLsn <= inst[i].lsn /\ inst[i].lsn <= wal
            /\ inst[i].lsn <= views[inst[i].conn]
        BY <1>b, <2>0 DEF LocalGap, Making
      <4>2. At(i, "chunks")' => \A d \in 1 .. (inst'[i].chunk - 1) : rows'[d].snap = inst'[i].conn
        BY <3>2, <3>5, <3>6 DEF At
      <4>3. At(i, "saveJob")' => \A d \in Chunks : rows'[d].snap = inst'[i].conn
        BY <3>2, <3>5, <3>6 DEF At
      <4> QED BY <2>0, <3>2, <4>1, <4>2, <4>3 DEF LocalGap, At, Making, Serving
    <3>8. ASSUME NEW j \in Instances, j # i PROVE LocalGap(j)'
      <4>1. LocalGap(j) /\ inst'[j] = inst[j] /\ wal <= wal' /\ inst[j].pc \notin Owning
        BY <1>b, <1>c, <1>d, <2>0, <3>2, <3>8 DEF Owning
      <4>2. \A d \in Chunks : asOf[d] <= asOf'[d]
        BY <1>d, <2>0
      <4> QED BY <2>0, <4>1, <4>2, OthersKeep DEF Owning
    <3>9. SharedGap'
      <4>1. DeliveredOK'
        BY <1>b, <2>0 DEF SharedGap, DeliveredOK
      <4>2. job # NoJob => job.completed
        <5>1. job.snap = 0 \/ job.completed
          BY <2>0 DEF JobInv
        <5>2. job # NoJob => job.snap # 0
          BY GapNumbers DEF SnapshotIds
        <5> QED BY <5>1, <5>2
      <4> QED BY <1>b, <2>0, <4>1, <4>2 DEF SharedGap, ReadSince
    <3> QED BY <3>7, <3>8, <3>9, GapPartsNext
  <2> QED BY <2>1, <2>2
<1>8. CASE SaveJob(i)
  <2>0. inst[i].pc = "saveJob" /\ UNCHANGED <<rows, views, delivered, asOf, wal, slotLsn>>
    BY <1>8 DEF SaveJob, At
  <2>1. CASE job # NoJob
    BY <1>8, <2>0, <2>1, ExitGap DEF SaveJob
  <2>2. CASE job = NoJob
    <3>1. /\ inst'[i].pc = "execute" /\ inst'[i].fromSnapshot
          /\ \A j \in Instances \ {i} : inst'[j] = inst[j]
      BY <1>8, <1>a, <2>2 DEF SaveJob, Instance
    <3>2. job'.snap = inst[i].conn /\ job'.lsn = inst[i].lsn /\ job'.completed = FALSE
      BY <1>8, <2>2 DEF SaveJob
    <3>3. LocalGap(i)'
      BY <3>1 DEF LocalGap, At, Making, Serving
    <3>4. ASSUME NEW j \in Instances, j # i PROVE LocalGap(j)'
      <4>1. LocalGap(j) /\ inst'[j] = inst[j] /\ wal <= wal'
        BY <1>b, <1>d, <2>0, <3>1, <3>4
      <4>2. \A d \in Chunks : asOf[d] <= asOf'[d]
        BY <1>d, <2>0
      <4>3. ~ At(j, "markJob")
        BY <2>0 DEF Unraced, At
      <4> QED BY <2>0, <4>1, <4>2, <4>3, OthersKeep
    <3>5. SharedGap'
      <4>1. DeliveredOK'
        BY <1>b, <2>0 DEF SharedGap, DeliveredOK
      <4>2. /\ 0 < slotLsn /\ slotLsn <= inst[i].lsn /\ inst[i].lsn <= views[inst[i].conn]
            /\ \A c \in Chunks : rows[c].snap = inst[i].conn
        BY <1>b, <2>0 DEF LocalGap, Making, At
      <4> QED BY <1>b, <2>0, <3>2, <4>1, <4>2 DEF SharedGap
    <3> QED BY <3>3, <3>4, <3>5, GapPartsNext
  <2> QED BY <2>1, <2>2
<1>9. CASE WaitForJob(i) \/ HasChunksReady(i)
  <2>1. /\ inst'[i].pc \in Easy \/ (inst'[i].pc = "execute" /\ inst'[i].fromSnapshot)
        /\ \A j \in Instances \ {i} : inst'[j] = inst[j]
    BY <1>9, <1>a DEF WaitForJob, HasChunksReady, Goto, Instance, Easy
  <2>2. Mild(i)
    BY <1>9, <2>1 DEF WaitForJob, HasChunksReady, Mild
  <2> QED BY <2>1, <2>2, EasyKeeps DEF Serving
<1>10. CASE WaitTimeout(i)
  BY <1>10, ExitGap DEF WaitTimeout
<1> QED BY <1>1, <1>2, <1>3, <1>4, <1>5, <1>6, <1>7, <1>8, <1>9, <1>10 DEF Prepare

\* Execute: a job is marked completed when every chunk has been delivered under its
\* snapshot.
LEMMA ExecuteGap ==
  ASSUME TInv, TInv', ReadInv, GapInv, NEW i \in Instances, Execute(i), slotLsn' = slotLsn
  PROVE  GapInv'
<1>a. inst \in [Instances -> Instance] /\ inst[i] \in Instance
  BY DEF TInv, TypeOK, SnapshotTypeOK
<1>b. SharedGap /\ \A j \in Instances : LocalGap(j)
  BY GapParts
<1>c. inst[i].pc \in Serving => inst[i].fromSnapshot
  BY <1>b DEF LocalGap
<1>d. job \in Job \cup {NoJob}
  BY DEF TInv, TypeOK, SnapshotTypeOK
<1>1. CASE LoadJob(i)
  <2>1. CASE job = NoJob
    BY <1>1, <2>1, ExitGap DEF LoadJob
  <2>2. CASE job # NoJob
    <3>1. /\ inst'[i].pc = "claim" /\ inst'[i].fromSnapshot
          /\ \A j \in Instances \ {i} : inst'[j] = inst[j]
      BY <1>1, <1>a, <1>c, <2>2 DEF LoadJob, Instance, At, Serving
    <3>2. Mild(i)
      BY <1>1, <3>1 DEF LoadJob, Mild
    <3> QED BY <3>1, <3>2, EasyKeeps DEF Serving
  <2> QED BY <2>1, <2>2
<1>2. CASE ClaimNextChunk(i)
  <2>1. PICK c \in Chunks :
          inst' = [inst EXCEPT ![i].pc = "begin", ![i].chunk = c, ![i].rowSnap = rows[c].snap]
    BY <1>2 DEF ClaimNextChunk
  <2>2. inst[i].pc = "claim"
    BY <1>2 DEF ClaimNextChunk, At
  <2>3. /\ inst'[i].pc = "begin" /\ inst'[i].fromSnapshot
        /\ \A j \in Instances \ {i} : inst'[j] = inst[j]
    BY <1>a, <1>c, <2>1, <2>2 DEF Instance, Serving
  <2>4. \A c_1 \in Chunks : rows'[c_1].snap = rows[c_1].snap
    BY <1>2, RowsStep DEF RowsKept
  <2>5. Mild(i)
    BY <1>2, <2>3, <2>4 DEF ClaimNextChunk, Mild
  <2> QED BY <2>3, <2>5, EasyKeeps DEF Serving
<1>3. CASE NoMoreChunks(i) \/ SetTransactionSnapshot(i) \/ CloseAllConnections(i)
  <2>1. /\ inst[i].pc \in Serving /\ inst'[i].pc \in Serving \ {"markJob"}
        /\ inst'[i].fromSnapshot = inst[i].fromSnapshot
        /\ \A j \in Instances \ {i} : inst'[j] = inst[j]
    BY <1>3, <1>a DEF NoMoreChunks, SetTransactionSnapshot, CloseAllConnections, Goto, At, Instance,
         Serving
  <2>2. Mild(i)
    BY <1>3, <2>1 DEF NoMoreChunks, SetTransactionSnapshot, CloseAllConnections, Mild
  <2> QED BY <1>c, <2>1, <2>2, EasyKeeps
<1>4. CASE ProcessChunk(i)
  <2> DEFINE c == inst[i].chunk
             s == inst[i].loaded
  <2>1. /\ inst[i].pc = "read" /\ inst'[i].pc = "mark"
        /\ inst'[i].fromSnapshot = inst[i].fromSnapshot
        /\ \A j \in Instances \ {i} : inst'[j] = inst[j]
    BY <1>4, <1>a DEF ProcessChunk, Goto, At, Instance
  <2>2. c \in Chunks /\ s \in SnapshotIds
    BY <2>1 DEF TInv, PointsOK, Holding
  <2>3. UNCHANGED <<job, rows, views, wal, slotLsn>>
    BY <1>4 DEF ProcessChunk
  <2>4. /\ delivered' = [delivered EXCEPT ![s] = @ \cup {c}]
        /\ asOf' = [asOf EXCEPT ![c] = IF @ < views[s] THEN views[s] ELSE @]
    BY <1>4 DEF ProcessChunk
  <2> HIDE DEF c, s
  <2>5. /\ wal \in Nat /\ \A d \in Chunks : asOf[d] \in Nat
        /\ views[s] \in Nat
    BY <2>2, GapNumbers
  <2>6. /\ asOf'[c] = IF asOf[c] < views[s] THEN views[s] ELSE asOf[c]
        /\ \A d \in Chunks \ {c} : asOf'[d] = asOf[d]
    BY <2>2, <2>4 DEF TInv, TypeOK, SnapshotTypeOK
  <2>7. /\ delivered'[s] = delivered[s] \cup {c}
        /\ \A r \in SnapshotIds \ {s} : delivered'[r] = delivered[r]
    BY <2>2, <2>4 DEF TInv, TypeOK, SnapshotTypeOK
  <2>8. (\A d \in Chunks : asOf[d] <= asOf'[d]) /\ views[s] <= asOf'[c]
    BY <2>2, <2>5, <2>6
  <2>9. LocalGap(i)'
    BY <1>c, <2>1 DEF LocalGap, At, Making, Serving
  <2>10. ASSUME NEW j \in Instances, j # i PROVE LocalGap(j)'
    <3>1. LocalGap(j) /\ inst'[j] = inst[j] /\ wal <= wal'
      BY <1>b, <2>1, <2>3, <2>5, <2>10
    <3> QED BY <2>3, <2>8, <3>1, OthersKeep
  <2>11. DeliveredOK'
    <3> SUFFICES ASSUME NEW r \in SnapshotIds, NEW d \in delivered'[r] PROVE views[r] <= asOf'[d]
      BY <2>3 DEF DeliveredOK
    <3>1. views[r] \in Nat /\ delivered[r] \subseteq Chunks
      BY GapNumbers DEF TInv, TypeOK, SnapshotTypeOK
    <3>2. CASE d \in delivered[r]
      <4>1. views[r] <= asOf[d] /\ d \in Chunks
        BY <1>b, <3>1, <3>2 DEF SharedGap, DeliveredOK
      <4>2. asOf[d] \in Nat /\ asOf'[d] \in Nat /\ asOf[d] <= asOf'[d]
        BY <2>2, <2>5, <2>6, <2>8, <4>1
      <4> QED BY <3>1, <4>1, <4>2
    <3>3. CASE d \notin delivered[r]
      <4>1. r = s /\ d = c
        BY <2>7, <3>3
      <4> QED BY <2>8, <4>1
    <3> QED BY <3>2, <3>3
  <2>12. job # NoJob /\ job.completed => ReadSince(job.lsn)'
    <3> SUFFICES ASSUME job # NoJob, job.completed, NEW d \in Chunks PROVE job.lsn <= asOf'[d]
      BY <2>3 DEF ReadSince
    <3>1. job.lsn \in Nat /\ job.lsn <= asOf[d]
      BY <1>b, GapNumbers DEF SharedGap, ReadSince
    <3>2. asOf[d] \in Nat /\ asOf'[d] \in Nat /\ asOf[d] <= asOf'[d]
      BY <2>2, <2>5, <2>6, <2>8
    <3> QED BY <3>1, <3>2
  <2>13. SharedGap'
    BY <1>b, <2>3, <2>11, <2>12 DEF SharedGap
  <2> QED BY <2>9, <2>10, <2>13, GapPartsNext
<1>5. CASE MarkChunkCompleted(i)
  <2>1. /\ inst[i].pc = "mark" /\ inst'[i].pc = "count"
        /\ inst'[i].fromSnapshot = inst[i].fromSnapshot
        /\ \A j \in Instances \ {i} : inst'[j] = inst[j]
    BY <1>5, <1>a DEF MarkChunkCompleted, At, Instance
  <2>2. \A c \in Chunks : rows'[c].snap = rows[c].snap
    BY <1>5, RowsStep DEF RowsKept
  <2>3. Mild(i)
    BY <1>5, <2>1, <2>2 DEF MarkChunkCompleted, Mild
  <2> QED BY <1>c, <2>1, <2>3, EasyKeeps DEF Serving
<1>6. CASE CountChunk(i) \/ MarkJobAsCompleted(i)
  <2>1. /\ inst[i].pc \in Serving /\ inst'[i].pc \in Serving \ {"markJob"}
        /\ inst'[i].fromSnapshot = inst[i].fromSnapshot
        /\ \A j \in Instances \ {i} : inst'[j] = inst[j]
    BY <1>6, <1>a DEF CountChunk, MarkJobAsCompleted, Goto, At, Instance, Serving
  <2>2. \/ job' = job
        \/ /\ job # NoJob /\ job' # NoJob
           /\ job'.snap = job.snap /\ job'.lsn = job.lsn
           /\ job'.completed => job.completed \/ At(i, "markJob")
           /\ job.completed => job'.completed
    <3>1. CASE job = NoJob
      BY <1>6, <3>1 DEF CountChunk, MarkJobAsCompleted
    <3>2. CASE job # NoJob
      <4>1. job \in Job /\ job.snap \in SnapshotIds
        BY <1>d, <3>2 DEF Job
      <4>2. job'.snap = job.snap /\ job'.lsn = job.lsn
        BY <1>6, <3>2, <4>1 DEF CountChunk, MarkJobAsCompleted, Job
      <4>3. job' # NoJob
        BY <4>1, <4>2 DEF NoJob, SnapshotIds
      <4>4. CASE CountChunk(i)
        BY <3>2, <4>1, <4>2, <4>3, <4>4 DEF CountChunk, Job
      <4>5. CASE MarkJobAsCompleted(i)
        BY <3>2, <4>1, <4>2, <4>3, <4>5 DEF MarkJobAsCompleted, Job
      <4> QED BY <1>6, <4>4, <4>5
    <3> QED BY <3>1, <3>2
  <2>3. UNCHANGED <<rows, views, delivered, asOf, wal, slotLsn>>
    BY <1>6 DEF CountChunk, MarkJobAsCompleted
  <2>4. Mild(i)
    BY <2>1, <2>2, <2>3 DEF Mild
  <2> QED BY <1>c, <2>1, <2>4, EasyKeeps
<1>7. CASE ReleaseChunk(i)
  <2>1. \A c \in Chunks : rows'[c].snap = rows[c].snap
    BY <1>7, RowsStep DEF RowsKept
  <2>2. CASE inst[i].retry < MaxRetries
    <3>1. /\ inst[i].pc = "release" /\ inst'[i].pc = "execute"
          /\ inst'[i].fromSnapshot = inst[i].fromSnapshot
          /\ \A j \in Instances \ {i} : inst'[j] = inst[j]
      BY <1>7, <1>a, <2>2 DEF ReleaseChunk, At, Instance
    <3>2. Mild(i)
      BY <1>7, <2>1, <3>1 DEF ReleaseChunk, Mild
    <3> QED BY <1>c, <3>1, <3>2, EasyKeeps DEF Serving
  <2>3. CASE ~(inst[i].retry < MaxRetries)
    BY <1>7, <2>1, <2>3, ExitGap DEF ReleaseChunk
  <2> QED BY <2>2, <2>3
<1>8. CASE CheckJobCompleted(i)
  <2>1. /\ inst[i].pc = "finalize" /\ inst'[i].pc \in {"markJob", "commit"}
        /\ inst'[i].fromSnapshot = inst[i].fromSnapshot
        /\ \A j \in Instances \ {i} : inst'[j] = inst[j]
    BY <1>8, <1>a DEF CheckJobCompleted, At, Instance
  <2>2. UNCHANGED <<job, rows, views, delivered, asOf, wal>>
    BY <1>8 DEF CheckJobCompleted
  <2>3. Mild(i)
    BY <2>1, <2>2 DEF Mild
  <2>4. inst'[i].pc = "markJob" =>
          /\ \E c \in Chunks : rows[c] # NoRow
          /\ \A c \in Chunks : rows[c] # NoRow => rows[c].status = "completed"
    BY <1>8, <1>a DEF CheckJobCompleted, Instance
  <2>5. inst'[i].pc = "markJob" /\ job # NoJob => ReadSince(job.lsn)
    <3> SUFFICES ASSUME inst'[i].pc = "markJob", job # NoJob, ~ job.completed, NEW c \in Chunks
                 PROVE  job.lsn <= asOf[c]
      BY <1>b DEF SharedGap, ReadSince
    <3>1. job.snap \in SnapshotIds
      BY GapNumbers
    <3>2. \A d \in Chunks : rows[d].snap = job.snap
      BY <1>b, <2>4 DEF SharedGap
    <3>3. rows[c] # NoRow
      BY <3>1, <3>2 DEF NoRow, SnapshotIds
    <3>4. c \in delivered[job.snap]
      BY <2>4, <3>2, <3>3 DEF ReadInv, CompletedChunksRead
    <3>5. views[job.snap] <= asOf[c] /\ job.lsn <= views[job.snap]
      BY <1>b, <3>1, <3>4 DEF SharedGap, DeliveredOK
    <3>6. views[job.snap] \in Nat /\ asOf[c] \in Nat /\ job.lsn \in Nat
      BY <3>1, GapNumbers
    <3> QED BY <3>5, <3>6
  <2>6. inst'[i].pc = "markJob" /\ job' # NoJob => ReadSince(job.lsn)'
    BY <2>2, <2>5 DEF ReadSince
  <2>7. LocalGap(i)'
    BY <1>c, <2>1, <2>6 DEF LocalGap, At, Making, Serving
  <2> QED BY <2>3, <2>7, MildKeeps
<1> QED BY <1>1, <1>2, <1>3, <1>4, <1>5, <1>6, <1>7, <1>8 DEF Execute

LEMMA GapStep ==
  ASSUME TRUE \notin Resnapshot
  PROVE  TInv /\ OwnerInv /\ JobInv /\ ReadInv /\ GapInv /\ Unraced /\ [Next]_vars => GapInv'
<1> SUFFICES ASSUME TInv, OwnerInv, JobInv, ReadInv, GapInv, Unraced, [Next]_vars PROVE GapInv'
  OBVIOUS
<1>a. TInv'
  BY TypeStep
<1>b. inst \in [Instances -> Instance] /\ \A i \in Instances : inst[i] \in Instance
  BY DEF TInv, TypeOK, SnapshotTypeOK
<1>c. SharedGap /\ \A i \in Instances : LocalGap(i)
  BY GapParts
<1>1. ASSUME NEW i \in Instances, Step(i) \/ Timeout(i) PROVE GapInv'
  <2>1. CASE Start(i)
    BY <1>a, <2>1, StartGap
  <2>2. CASE ~ Start(i)
    <3>1. Prepare(i) \/ Execute(i) \/ WaitTimeout(i)
      BY <1>1, <2>2 DEF Step, Timeout
    <3>2. slotLsn' = slotLsn
      BY <1>1, <2>2 DEF Step, Timeout, slotVars
    <3> QED BY <1>a, <3>1, <3>2, PrepareGap, ExecuteGap
  <2> QED BY <2>1, <2>2
<1>2. ASSUME NEW i \in Instances, Crash(i) PROVE GapInv'
  BY <1>2, <1>a, ExitGap DEF Crash
<1>3. ASSUME NEW i \in Instances, DBError(i) PROVE GapInv'
  <2>1. CASE At(i, "read")
    <3>1. /\ inst'[i].pc = "claim" /\ inst'[i].fromSnapshot = inst[i].fromSnapshot
          /\ \A j \in Instances \ {i} : inst'[j] = inst[j]
      BY <1>3, <1>b, <2>1 DEF DBError, Goto, At, Instance
    <3>2. Mild(i)
      BY <1>3, <3>1 DEF DBError, Mild, slotVars
    <3>3. inst[i].fromSnapshot
      BY <1>c, <2>1 DEF LocalGap, At, Serving
    <3> QED BY <1>a, <3>1, <3>2, <3>3, EasyKeeps DEF Serving
  <2>2. CASE ~ At(i, "read")
    <3>1. UNCHANGED <<job, rows, views, delivered, asOf, wal, slotLsn>>
      BY <1>3 DEF DBError, slotVars
    <3>2. CASE Fail(i)
      BY <1>a, <3>1, <3>2, ExitGap
    <3>3. CASE ~ Fail(i)
      <4>1. inst'[i].pc = "slot" /\ \A j \in Instances \ {i} : inst'[j] = inst[j]
        BY <1>3, <2>2, <3>3, ErrorMoves
      <4>2. Mild(i)
        BY <3>1, <4>1 DEF Mild
      <4> QED BY <1>a, <4>1, <4>2, EasyKeeps DEF Easy
    <3> QED BY <3>2, <3>3
  <2> QED BY <2>1, <2>2
<1>4. ASSUME NEW i \in Instances, Restart(i) PROVE GapInv'
  <2>1. inst'[i].pc = "start" /\ \A j \in Instances \ {i} : inst'[j] = inst[j]
    BY <1>4, <1>b DEF Restart, Goto, Instance
  <2>2. Mild(i)
    BY <1>4, <2>1 DEF Restart, Mild, slotVars
  <2> QED BY <1>a, <2>1, <2>2, EasyKeeps DEF Easy
<1>5. CASE SourceCommit
  <2>1. UNCHANGED <<inst, job, rows, views, delivered, asOf, slotLsn>> /\ wal' = wal + 1
    BY <1>5 DEF SourceCommit, slotVars
  <2>2. slotLsn \in Nat /\ wal \in Nat /\ \A c \in Chunks : asOf[c] \in Nat
    BY GapNumbers
  <2>3. ASSUME NEW j \in Instances PROVE LocalGap(j)'
    <3>1. LocalGap(j) /\ inst'[j] = inst[j] /\ wal <= wal' /\ \A c \in Chunks : asOf[c] <= asOf'[c]
      BY <1>c, <2>1, <2>2
    <3> QED BY <1>a, <2>1, <3>1, OthersKeep
  <2>4. SharedGap'
    <3>1. DeliveredOK'
      BY <1>c, <2>1 DEF SharedGap, DeliveredOK
    <3>2. slotLsn' <= wal'
      BY <1>c, <2>1, <2>2 DEF SharedGap
    <3> QED BY <1>c, <2>1, <3>1, <3>2 DEF SharedGap, ReadSince
  <2> QED BY <2>3, <2>4, GapPartsNext
<1>6. CASE UNCHANGED vars
  <2>1. UNCHANGED <<inst, job, rows, views, delivered, asOf, wal, slotLsn>>
    BY <1>6 DEF vars, snapshotVars, slotVars
  <2> QED BY <2>1 DEF GapInv, LsnOK, RowsOK, DeliveredOK, ReadOK, OpenOK, ReadSince, At
<1> QED BY <1>1, <1>2, <1>3, <1>4, <1>5, <1>6 DEF Next

LEMMA GapInit == TInv /\ Init => GapInv
<1> SUFFICES ASSUME TInv, Init PROVE GapInv
  OBVIOUS
<1>1. slotLsn = 0 /\ wal = 1 /\ job = NoJob /\ delivered = [s \in SnapshotIds |-> {}]
  BY DEF Init, SnapshotInit
<1>2. \A i \in Instances : inst[i].pc = "start"
  BY DEF Init, SnapshotInit, Fresh
<1>3. \A i \in Instances : LocalGap(i)
  BY <1>2 DEF LocalGap, At, Making, Serving
<1>4. SharedGap
  BY <1>1 DEF SharedGap, DeliveredOK
<1> QED BY <1>3, <1>4, GapParts

\* A process streams after it has opened the stream.
LEMMA OpensFirst ==
  ASSUME TInv, TRUE \notin Resnapshot, [Next]_vars, NEW i \in Instances,
         ~ At(i, "streaming"), inst'[i].pc = "streaming"
  PROVE  At(i, "open")
<1>a. inst \in [Instances -> Instance] /\ \A j \in Instances : inst[j] \in Instance
  BY DEF TInv, TypeOK, SnapshotTypeOK
<1>1. ASSUME NEW j \in Instances, Start(j) PROVE At(i, "open")
  <2>1. CASE ShouldTakeSnapshot(j)
    <3>1. CASE inst[j].finalized
      BY <2>1, <3>1, ExitQuiet DEF ShouldTakeSnapshot, At
    <3>2. CASE ~ inst[j].finalized
      <4>1. PICK p \in {"slot", "slotOnly"} : inst' = [inst EXCEPT ![j].attempt = 1, ![j].pc = p]
        BY <2>1, <3>2, ResnapshotAssumption DEF ShouldTakeSnapshot
      <4>2. inst'[j].pc = p /\ \A k \in Instances \ {j} : inst'[k] = inst[k]
        BY <1>a, <4>1 DEF Instance
      <4> QED BY <4>2 DEF At
    <3> QED BY <3>1, <3>2
  <2>2. CASE FetchSnapshotLSN(j)
    BY <1>a, <2>2, ExitQuiet DEF FetchSnapshotLSN, At, Instance
  <2>3. CASE SlotInfo(j) \/ CommitTransaction(j) \/ CaptureSlot(j) \/ OpenStream(j)
    BY <1>a, <2>3 DEF SlotInfo, CommitTransaction, CaptureSlot, OpenStream, Goto, At, Instance
  <2>4. CASE CreateSlot(j)
    BY <1>a, <2>4, FailQuiet DEF CreateSlot, Goto, At, Instance
  <2> QED BY <1>1, <2>1, <2>2, <2>3, <2>4 DEF Start
<1>2. ASSUME NEW j \in Instances, Execute(j) PROVE At(i, "open")
  <2>1. \A k \in Instances \ {j} : inst'[k] = inst[k]
    BY <1>2, ExecuteQuiet DEF Quiet
  <2>2. j = i
    BY <2>1 DEF At
  <2>3. CASE LoadJob(j) \/ ReleaseChunk(j)
    <3>1. CASE Exit(j) \/ Fail(j)
      BY <2>2, <3>1, ExitQuiet, FailQuiet
    <3>2. CASE ~ Exit(j) /\ ~ Fail(j)
      BY <1>a, <2>2, <2>3, <3>2 DEF LoadJob, ReleaseChunk, Instance
    <3> QED BY <3>1, <3>2
  <2>4. CASE ClaimNextChunk(j)
    <3>1. PICK c \in Chunks :
            inst' = [inst EXCEPT ![j].pc = "begin", ![j].chunk = c, ![j].rowSnap = rows[c].snap]
      BY <2>4 DEF ClaimNextChunk
    <3> QED BY <1>a, <2>2, <3>1 DEF Instance
  <2>5. CASE ~(LoadJob(j) \/ ReleaseChunk(j) \/ ClaimNextChunk(j))
    BY <1>2, <1>a, <2>2, <2>5
    DEF Execute, NoMoreChunks, SetTransactionSnapshot, ProcessChunk, MarkChunkCompleted, CountChunk,
        CheckJobCompleted, MarkJobAsCompleted, CloseAllConnections, Goto, Instance
  <2> QED BY <2>3, <2>4, <2>5
<1>3. ASSUME NEW j \in Instances, Prepare(j) \/ WaitTimeout(j) PROVE At(i, "open")
  <2>1. CASE Fail(j)
    BY <2>1, FailQuiet DEF At
  <2>2. CASE ExportSnapshot(j)
    <3>1. PICK s \in SnapshotIds :
            inst' = [inst EXCEPT ![j].pc = "chunks", ![j].conn = s, ![j].chunk = 1]
      BY <2>2 DEF ExportSnapshot
    <3>2. inst'[j].pc = "chunks" /\ \A k \in Instances \ {j} : inst'[k] = inst[k]
      BY <1>a, <3>1 DEF Instance
    <3> QED BY <3>2 DEF At
  <2>3. CASE InsertChunk(j) /\ ~ Fail(j)
    <3>1. /\ At(j, "chunks")
          /\ inst' = [inst EXCEPT ![j].pc = IF inst[j].chunk = NumChunks THEN "saveJob" ELSE @,
                                  ![j].chunk = IF inst[j].chunk = NumChunks THEN 0 ELSE @ + 1]
      BY <2>3 DEF InsertChunk
    <3>2. inst'[j].pc \in {"chunks", "saveJob"} /\ \A k \in Instances \ {j} : inst'[k] = inst[k]
      BY <1>a, <3>1 DEF Instance, At
    <3> QED BY <3>2 DEF At
  <2>4. CASE ~ Fail(j) /\ ~ ExportSnapshot(j) /\ ~ InsertChunk(j)
    BY <1>3, <1>a, <2>4
    DEF Prepare, WaitTimeout, TryAcquireCoordinatorLock, GetCurrentLSN, LoadExisting, DeleteChunks,
        DeleteJob, SaveJob, WaitForJob, HasChunksReady, Goto, At, Instance
  <2> QED BY <1>3, <2>1, <2>2, <2>3, <2>4
<1>4. ASSUME NEW j \in Instances, Crash(j) \/ DBError(j) \/ Restart(j) PROVE At(i, "open")
  <2>1. CASE Exit(j) \/ Fail(j)
    BY <2>1, ExitQuiet, FailQuiet DEF At
  <2>2. CASE DBError(j) /\ ~ Fail(j)
    BY <1>a, <2>2, ErrorMoves DEF Goto, At, Instance
  <2>3. CASE Restart(j)
    BY <1>a, <2>3 DEF Restart, Goto, At, Instance
  <2> QED BY <1>4, <2>1, <2>2, <2>3 DEF Crash
<1>5. CASE SourceCommit \/ UNCHANGED vars
  BY <1>5 DEF SourceCommit, vars, snapshotVars, At
<1> QED BY <1>1, <1>2, <1>3, <1>4, <1>5 DEF Next, Step, Timeout

-----------------------------------------------------------------------------

\* Every variable of the snapshot and the connector keeps its type, in particular
\* the retry counters of retryOperation and executeSnapshotWithRetry their limits.
THEOREM ConnectorTypeCorrect == Spec => []TypeOK
<1>1. TInv => TypeOK
  BY DEF TInv
<1> QED BY <1>1, TypeInit, TypeStep, PTL DEF Spec

\* Without resnapshot, the metadata of two jobs never mix: setupJob and cleanupJob
\* write under the coordinator's lock, and the UNIQUE constraint keeps rows of a
\* dead coordinator apart; however many instances there are, wherever they die and
\* whichever statement fails.
THEOREM ConnectorOneJobAtATime ==
  ASSUME TRUE \notin Resnapshot
  PROVE  Spec => []OneJobAtATime
<1>1. TInv /\ OwnerInv /\ JobInv /\ [Next]_vars => OwnerInv' /\ JobInv'
  BY JobStep
<1> QED BY <1>1, TypeInit, TypeStep, JobInit, JobImplies, PTL DEF Spec

\* A chunk marked completed was delivered under the snapshot of its own job
\* (executeInTransaction, markChunkCompleted), however many instances there are,
\* wherever they die and whichever claims expire, as long as no statement of Execute
\* but the read of a chunk fails for good and nobody asks for a resnapshot.
THEOREM ConnectorCompletedChunksRead ==
  ASSUME TRUE \notin Resnapshot, ErrorPoints \cap Serving \subseteq {"read"}
  PROVE  Spec => []CompletedChunksRead
<1>1. TInv /\ OwnerInv /\ JobInv /\ [Next]_vars => OwnerInv' /\ JobInv'
  BY JobStep
<1>2. TInv /\ OwnerInv /\ JobInv /\ ReadInv /\ [Next]_vars => ReadInv'
  BY ReadStep
<1>3. ReadInv => CompletedChunksRead
  BY DEF ReadInv
<1> QED BY <1>1, <1>2, <1>3, TypeInit, TypeStep, JobInit, ReadInit, PTL DEF Spec

\* There is no gap between snapshot and stream (prepareSnapshotAndSlot,
\* fetchSnapshotLSN): a stream opens at a position the slot has kept the WAL from, and
\* every chunk was delivered as of that position or later; for any number of
\* instances and chunks, wherever processes die and whichever claims expire.  Nobody
\* may ask for a resnapshot, no statement of Execute but the read of a chunk may fail
\* for good, and finalizeSnapshot must not be overtaken by a new job between its two
\* statements (the run connector_finalize_race shows what happens then).
THEOREM ConnectorNoGap ==
  ASSUME TRUE \notin Resnapshot, ErrorPoints \cap Serving \subseteq {"read"}
  PROVE  Spec /\ []Unraced => NoGap
<1> DEFINE Opens == \A i \in Instances :
                      ~ At(i, "streaming") /\ inst'[i].pc = "streaming" =>
                        /\ 0 < slotLsn /\ slotLsn <= inst[i].lsn
                        /\ \A c \in Chunks : inst[i].lsn <= asOf[c]
<1>1. TInv /\ OwnerInv /\ JobInv /\ [Next]_vars => OwnerInv' /\ JobInv'
  BY JobStep
<1>2. TInv /\ OwnerInv /\ JobInv /\ ReadInv /\ [Next]_vars => ReadInv'
  BY ReadStep
<1>3. TInv /\ OwnerInv /\ JobInv /\ ReadInv /\ GapInv /\ Unraced /\ [Next]_vars => GapInv'
  BY GapStep
<1>4. TInv /\ GapInv /\ [Next]_vars => Opens
  BY OpensFirst DEF GapInv, OpenOK, ReadSince
<1>5. TInv /\ GapInv /\ [Next]_vars => [Opens]_vars
  BY <1>4
<1> HIDE DEF Opens
<1>6. Spec /\ []Unraced => [][Opens]_vars
  BY <1>1, <1>2, <1>3, <1>5, TypeInit, TypeStep, JobInit, ReadInit, GapInit, PTL DEF Spec
<1> QED BY <1>6 DEF NoGap, Opens

\* The argument itself, which a run checks on two instances: GapInv is an invariant.
THEOREM ConnectorGapInv ==
  ASSUME TRUE \notin Resnapshot, ErrorPoints \cap Serving \subseteq {"read"}
  PROVE  Spec /\ []Unraced => []GapInv
<1>1. TInv /\ OwnerInv /\ JobInv /\ [Next]_vars => OwnerInv' /\ JobInv'
  BY JobStep
<1>2. TInv /\ OwnerInv /\ JobInv /\ ReadInv /\ [Next]_vars => ReadInv'
  BY ReadStep
<1>3. TInv /\ OwnerInv /\ JobInv /\ ReadInv /\ GapInv /\ Unraced /\ [Next]_vars => GapInv'
  BY GapStep
<1> QED BY <1>1, <1>2, <1>3, TypeInit, TypeStep, JobInit, ReadInit, GapInit, PTL DEF Spec
=============================================================================
