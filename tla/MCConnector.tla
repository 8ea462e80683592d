---------------------------- MODULE MCConnector -----------------------------
(***************************************************************************)
(* Instances of Connector.                                                 *)
(***************************************************************************)
EXTENDS Connector, TLC

CONSTANTS a, b

Solo == {a}
Pair == {a, b}

\* The two processes run the same program.
Symmetry == Permutations(Pair)

\* A process that is down does not die.
Anywhere == PCs \ {"down"}

\* The statements of shouldTakeSnapshot, those whose failure ends Prepare or Execute,
\* and the read of a chunk.
Statements == {"start", "wipeChunks", "wipeJob", "slot", "createSlot", "lock", "lsn",
               "cleanChunks", "cleanJob", "export", "chunks", "saveJob", "execute",
               "claim", "read", "finalize", "markJob"}

\* Only the read of a chunk fails: Prepare is not tried again.
ReadOnly == {"read"}

\* Failures that leave neither chunk rows without a job nor a claim behind.
OtherStatements == Statements \ {"chunks", "saveJob", "read"}

\* Everywhere but between the first chunk row and the job row.
NotWhileCreating == Anywhere \ {"chunks", "saveJob"}

\* What the program can still look at.  Nobody reads the number of completed chunks,
\* and of a snapshot that nothing refers to only the id is left, to be used again.
Visible ==
  <<inst, [job EXCEPT !.count = 0], rows, lock, exporter,
    [s \in SnapshotIds |-> IF Unused(s) THEN 0 ELSE views[s]],
    [s \in SnapshotIds |-> IF Unused(s) THEN {} ELSE delivered[s]],
    asOf, wal, slotVars, crashes, errors>>
=============================================================================
