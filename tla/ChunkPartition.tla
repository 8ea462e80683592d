--------------------------- MODULE ChunkPartition ---------------------------
(***************************************************************************)
(* How coordinator.go divides a table into chunks, and which rows the      *)
(* query of each chunk selects.  A table is a function from the ids of its *)
(* rows (the value of an integer primary key, where there is one) to the   *)
(* heap block each row is in.  The chunks are created and read under one   *)
(* exported snapshot, so the table does not change.                        *)
(*                                                                         *)
(* Arithmetic is int64 in the code: it wraps beyond MaxInt.                *)
(***************************************************************************)
EXTENDS Integers, FiniteSets, FiniteSetsExt

CONSTANTS
  MaxInt,       \* the largest int64
  Tables,       \* tables that may be chunked
  ChunkSizes,   \* configured chunk sizes (Validate: greater than 0)
  MaxBlocks,    \* bound: block counts pg_relation_size answers
  Estimates,    \* rows per block as pg_class has it, possibly stale or negative
  Counts,       \* what COUNT(*) may answer about another table
  Nil           \* a nil pointer

ASSUME MaxIntAssumption == MaxInt \in Nat
ASSUME SizesAssumption == ChunkSizes \subseteq 1 .. MaxInt
ASSUME BlocksAssumption == MaxBlocks \in 0 .. MaxInt /\ Estimates \subseteq Int
ASSUME CountsAssumption == Counts \subseteq Nat
ASSUME NilAssumption == Nil \notin Int

MinInt == -MaxInt - 1

ASSUME TablesAssumption ==
  \A t \in Tables :
    /\ DOMAIN t \subseteq MinInt .. MaxInt
    /\ IsFiniteSet(DOMAIN t)
    /\ \A r \in DOMAIN t : t[r] \in Nat

Strategies == {"auto", "integer_range", "ctid_block", "offset"}
PrimaryKeys == {"integer", "other", "none"}

\* The queries that look at the table; "pk" runs on the metadata connection, the
\* others inside the exporting transaction.
Queries == {"pk", "bounds", "blocks", "estimate", "count"}

VARIABLES
  table,        \* row id -> block
  key,          \* the kind of primary key
  strategy,     \* snapshotPartitionStrategy of the table's configuration
  chunkSize,
  totalBlocks,  \* what pg_relation_size says: not bound to the snapshot, and 0
                \* for the root of a partitioned table
  estimate,
  counted,      \* what COUNT(*) is about, as its name is not quoted: this table
                \* (Nil), or another one with that many rows
  failed,       \* the queries that fail
  aborted,      \* has an error of the server ended the exporting transaction?
  pc,           \* "create", "read", or "panic"
  chunks,       \* set of chunk rows
  seen          \* how often each row was handed to the listener

vars == <<table, key, strategy, chunkSize, totalBlocks, estimate, counted, failed,
          aborted, pc, chunks, seen>>
inputs == <<table, key, strategy, chunkSize, totalBlocks, estimate, counted, failed,
            aborted>>

\* The queries a strategy may run.
Asked ==
  CASE strategy = "offset" -> {"count"}
    [] strategy \in {"auto", "ctid_block"} -> {"blocks", "estimate", "count"}
    [] strategy = "integer_range" -> Queries

\* A query fails alone while the keepalive is using the connection ("conn busy"): the
\* transaction goes on.  After an error of the server every later query of the
\* transaction fails too, the last of them being the count.
FailuresOK == failed \subseteq Asked /\ (aborted => "count" \in failed)

\* An int64 operation, and Go's division.
Int64(x) == ((x - MinInt) % (2 * MaxInt + 2)) + MinInt
Quotient(x, n) == IF x >= 0 THEN x \div n ELSE -((-x) \div n)

-----------------------------------------------------------------------------
(* Creating the chunks.                                                    *)

\* lo and hi are RangeStart and RangeEnd, or BlockStart and BlockEnd.
Chunk(s, i, start, lo, hi) ==
  [strategy |-> s, index |-> i, start |-> start, lo |-> lo, hi |-> hi]

WholeTable(s) == {Chunk(s, 0, 0, Nil, Nil)}

\* Mutant: the division rounds down.
NumChunksFloor(total, size) == Quotient(total, size)

\* numChunks of the three strategies; make panics if it is negative.
NumChunks(total, size) == Quotient(Int64(Int64(total + size) - 1), size)
Panicked == {Nil}

\* Mutant: the end of a range is one too low.
RangeEndLow(start) ==
  LET end == Int64(Int64(start + chunkSize) - 2)
  IN IF end > Max(DOMAIN table) THEN Max(DOMAIN table) ELSE end

RangeEnd(start) ==
  LET end == Int64(Int64(start + chunkSize) - 1)
  IN IF end > Max(DOMAIN table) THEN Max(DOMAIN table) ELSE end

\* createRangeChunksWithConn: no chunks if the bounds cannot be read.
RangeChunks ==
  LET low        == Min(DOMAIN table)
      totalRange == Int64(Int64(Max(DOMAIN table) - low) + 1)
      numChunks  == NumChunks(totalRange, chunkSize)
  IN IF "bounds" \in failed THEN {}
     ELSE IF DOMAIN table = {} THEN WholeTable("integer_range")
     ELSE IF numChunks < 0 THEN Panicked
     ELSE {LET start == Int64(low + Int64(i * chunkSize))
           IN Chunk("integer_range", i, Int64(i * chunkSize), start, RangeEnd(start)) :
             i \in 0 .. (numChunks - 1)}

RowsPerBlock == IF "estimate" \in failed \/ estimate < 1 THEN 100 ELSE estimate

BlocksPerChunk == Max({1, chunkSize \div RowsPerBlock})

\* createCTIDBlockChunksWithConn: the last chunk has no upper bound.
CTIDBlockChunks ==
  LET numChunks == NumChunks(totalBlocks, BlocksPerChunk)
  IN IF "blocks" \in failed THEN {}
     ELSE IF totalBlocks = 0 THEN WholeTable("ctid_block")
     ELSE IF numChunks < 0 THEN Panicked
     ELSE {Chunk("ctid_block", i, i * BlocksPerChunk, i * BlocksPerChunk,
                 IF i = numChunks - 1 THEN Nil
                                      ELSE Min({(i + 1) * BlocksPerChunk, totalBlocks})) :
             i \in 0 .. (numChunks - 1)}

RowCount ==
  IF "count" \in failed THEN 0
  ELSE IF counted = Nil THEN Cardinality(DOMAIN table)
  ELSE counted

\* createOffsetChunksWithConn: one chunk if the rows cannot be counted.
OffsetChunks ==
  LET numChunks == NumChunks(RowCount, chunkSize)
  IN IF RowCount = 0 THEN WholeTable("offset")
     ELSE IF numChunks < 0 THEN Panicked
     ELSE {Chunk("offset", i, i * chunkSize, Nil, Nil) : i \in 0 .. (numChunks - 1)}

Else(first, second) == IF first # {} THEN first ELSE second

\* createTableChunksWithConn: the strategy asked for and what it falls back to.
TableChunks ==
  CASE strategy = "integer_range" ->
         IF "pk" \in failed THEN OffsetChunks
         ELSE IF key # "integer" THEN CTIDBlockChunks
         ELSE Else(RangeChunks, CTIDBlockChunks)
    [] strategy = "offset" -> OffsetChunks
    [] strategy \in {"auto", "ctid_block"} -> Else(CTIDBlockChunks, OffsetChunks)

Create ==
  /\ pc = "create"
  /\ IF TableChunks = Panicked THEN pc' = "panic" /\ UNCHANGED chunks
                               ELSE pc' = "read" /\ chunks' = TableChunks
  /\ UNCHANGED <<inputs, seen>>

-----------------------------------------------------------------------------
(* Reading them: the queries of buildChunkQuery.                           *)

\* ORDER BY the primary key, or by ctid if there is none.
Before(r, s) ==
  IF key # "none" THEN r < s
  ELSE table[r] < table[s] \/ (table[r] = table[s] /\ r < s)

Rank(rows, r) == Cardinality({s \in rows : Before(s, r)})

\* LIMIT and OFFSET.
Page(rows, offset) == {r \in rows : Rank(rows, r) \in offset .. (offset + chunkSize - 1)}

CTIDBlockRows(c) ==
  {r \in DOMAIN table : c.lo = Nil \/ (table[r] >= c.lo /\ (c.hi = Nil \/ table[r] < c.hi))}

ChunkRows(c) ==
  CASE c.strategy = "ctid_block" -> CTIDBlockRows(c)
    [] c.strategy = "integer_range" /\ c.lo # Nil ->
         Page({r \in DOMAIN table : c.lo <= r /\ r <= c.hi}, 0)
    [] OTHER -> Page(DOMAIN table, c.start)

\* A worker reads a chunk, in the order in which they are claimed.  It cannot
\* import the snapshot of a transaction that was aborted.
Read(c) ==
  /\ pc = "read"
  /\ ~aborted
  /\ c \in chunks
  /\ \A d \in chunks : c.index <= d.index
  /\ chunks' = chunks \ {c}
  /\ seen' = [r \in DOMAIN seen |-> IF r \in ChunkRows(c) THEN seen[r] + 1 ELSE seen[r]]
  /\ UNCHANGED <<inputs, pc>>

-----------------------------------------------------------------------------

Init ==
  /\ table \in Tables
  /\ key \in PrimaryKeys
  /\ strategy \in Strategies
  /\ chunkSize \in ChunkSizes
  /\ totalBlocks \in 0 .. MaxBlocks
  /\ estimate \in Estimates
  /\ counted \in Counts \cup {Nil}
  /\ failed \in SUBSET Queries
  /\ aborted \in BOOLEAN
  /\ FailuresOK
  /\ pc = "create"
  /\ chunks = {}
  /\ seen = [r \in DOMAIN table |-> 0]

Next == Create \/ \E c \in chunks : Read(c)

Spec == Init /\ [][Next]_vars

-----------------------------------------------------------------------------

\* The sums of the chunk size with the rows, the blocks and the largest key stay
\* within an int64.  Beyond it numChunks may be 0 with rows to read, and the last
\* range may end before it starts.
SumsFit ==
  /\ RowCount + chunkSize - 1 <= MaxInt
  /\ totalBlocks + chunkSize - 1 <= MaxInt
  /\ strategy = "integer_range" => \A r \in DOMAIN table : r + chunkSize - 1 <= MaxInt

\* The chunks go by LIMIT and OFFSET.
ByOffset ==
  \/ strategy = "offset"
  \/ strategy = "integer_range" /\ "pk" \in failed
  \/ strategy \in {"auto", "ctid_block"} /\ "blocks" \in failed

\* What a failing query costs.  By LIMIT and OFFSET the chunks reach as far as the
\* rows that were counted, and if none were, one chunk far.  With integer_range the
\* blocks are the last resort: without their number there is no chunk at all.
LeftOut(r) ==
  \/ /\ ByOffset
     /\ Rank(DOMAIN table, r) >= RowCount /\ Rank(DOMAIN table, r) >= chunkSize
  \/ /\ strategy = "integer_range"
     /\ "pk" \notin failed /\ "blocks" \in failed
     /\ key # "integer" \/ RangeChunks = {}

\* Whatever the strategy and its fallbacks, whatever the size the server reports and
\* the statistics say, and whichever queries fail, no row is handed to the listener
\* twice.  Once every chunk has been read no row is missing, unless a sum overflows,
\* the export was aborted (then nothing is read), or the failing queries leave the
\* row out: its number in the order is neither within the count that COUNT(*)
\* answered, 0 if it failed, nor within the first chunk, or integer_range got neither
\* ranges nor blocks (createTableChunksWithConn, buildChunkQuery).
EachRowOnce ==
  \A r \in DOMAIN table :
    /\ seen[r] <= 1
    /\ pc = "read" /\ chunks = {} /\ ~aborted /\ SumsFit /\ ~LeftOut(r) => seen[r] = 1

-----------------------------------------------------------------------------
(* Why it is so: the inductive invariant.                                  *)

\* A row that was handed over is in no chunk that is still to be read; another is in
\* at most one, and in one if the sums fit and no failure leaves it out.
RowOK(r) ==
  \/ seen[r] = 1 /\ \A c \in chunks : r \notin ChunkRows(c)
  \/ /\ seen[r] = 0
     /\ \A c, d \in chunks : r \in ChunkRows(c) /\ r \in ChunkRows(d) => c = d
     /\ SumsFit /\ ~LeftOut(r) => \E c \in chunks : r \in ChunkRows(c)

InputsOK ==
  /\ table \in Tables /\ chunkSize \in ChunkSizes
  /\ totalBlocks \in 0 .. MaxBlocks /\ estimate \in Estimates
  /\ key \in PrimaryKeys /\ strategy \in Strategies
  /\ counted \in Counts \cup {Nil} /\ failed \in SUBSET Queries /\ aborted \in BOOLEAN

PartitionInv ==
  /\ InputsOK
  /\ DOMAIN seen = DOMAIN table
  /\ pc \in {"create", "read", "panic"}
  /\ IF pc = "read" /\ ~aborted THEN \A r \in DOMAIN table : RowOK(r)
                                ELSE \A r \in DOMAIN table : seen[r] = 0
=============================================================================
