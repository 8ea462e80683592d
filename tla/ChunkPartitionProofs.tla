------------------------ MODULE ChunkPartitionProofs ------------------------
(***************************************************************************)
(* The chunks of ChunkPartition.tla divide a table as far as the failing   *)
(* queries allow, for every set of finite tables, every chunk size, block  *)
(* count, answer of COUNT and statistic, and every width of an integer.    *)
(***************************************************************************)
EXTENDS ChunkPartition, FiniteSetTheorems, WellFoundedInduction, TLAPS

-----------------------------------------------------------------------------
(* Arithmetic.                                                             *)

\* Products of naturals grow with the first factor.
LEMMA Product ==
  ASSUME NEW i \in Nat, NEW j \in Nat, NEW b \in Nat
  PROVE  /\ i * b \in Nat
         /\ i <= j => i * b <= j * b
         /\ (i + 1) * b = i * b + b
  OBVIOUS

\* What division by a chunk size gives.
LEMMA Division ==
  ASSUME NEW k \in Nat, NEW b \in Nat \ {0}
  PROVE  /\ k \div b \in Nat
         /\ (k \div b) * b <= k
         /\ k < (k \div b) * b + b
  OBVIOUS

\* A number lies in one of the intervals of length b.
LEMMA OneInterval ==
  ASSUME NEW i \in Nat, NEW j \in Nat, NEW b \in Nat, NEW k \in Nat,
         i * b <= k, k < i * b + b, j * b <= k, k < j * b + b
  PROVE  i = j
  <1>1. ASSUME NEW m \in Nat, NEW n \in Nat, m < n, n * b <= k, k < m * b + b
        PROVE  FALSE
    <2>1. m + 1 \in Nat /\ m + 1 <= n
      BY <1>1
    <2>2. (m + 1) * b <= n * b
      BY <2>1, Product
    <2>3. (m + 1) * b = m * b + b
      BY Product
    <2>4. m * b \in Nat /\ n * b \in Nat
      BY Product
    <2>5. QED
      BY <1>1, <2>2, <2>3, <2>4
  <1>2. QED
    BY <1>1

\* A remainder is determined by its size.
LEMMA Remainder ==
  ASSUME NEW m \in Nat \ {0}, NEW y \in Int
  PROVE  /\ 0 <= y /\ y < m => y % m = y
         /\ m <= y /\ y < 2 * m => y % m = y - m
         /\ -m <= y /\ y < 0 => y % m = y + m
  <1> DEFINE q == y \div m
             p == y % m
  <1>1. q \in Int /\ p \in Int /\ 0 <= p /\ p < m /\ y = m * q + p
    OBVIOUS
  <1> HIDE DEF q, p
  <1>2. /\ q >= 2 => m * q >= 2 * m
        /\ q <= -2 => m * q <= -(2 * m)
    BY <1>1
  <1>3. q >= 2 \/ q <= -2 \/ q = 0 \/ q = 1 \/ q = -1
    BY <1>1
  <1>4. /\ 0 <= y /\ y < m => p = y
        /\ m <= y /\ y < 2 * m => p = y - m
        /\ -m <= y /\ y < 0 => p = y + m
    BY <1>1, <1>2, <1>3
  <1>5. QED
    BY <1>4 DEF p

\* int64 arithmetic wraps once.
LEMMA Wrap ==
  ASSUME NEW x \in Int
  PROVE  /\ MinInt <= x /\ x <= MaxInt => Int64(x) = x
         /\ MaxInt < x /\ x <= 3 * MaxInt + 2 => Int64(x) = x - (2 * MaxInt + 2)
         /\ -(3 * MaxInt + 3) <= x /\ x < MinInt => Int64(x) = x + (2 * MaxInt + 2)
  <1>1. MaxInt \in Nat /\ MinInt = -MaxInt - 1
    BY MaxIntAssumption DEF MinInt
  <1>2. 2 * MaxInt + 2 \in Nat \ {0} /\ x - MinInt \in Int
    BY <1>1
  <1> DEFINE m == 2 * MaxInt + 2
             y == x - MinInt
  <1>3. /\ 0 <= y /\ y < m => y % m = y
        /\ m <= y /\ y < 2 * m => y % m = y - m
        /\ -m <= y /\ y < 0 => y % m = y + m
    BY <1>2, Remainder
  <1>4. Int64(x) = (y % m) + MinInt
    BY DEF Int64
  <1>5. m = 2 * MaxInt + 2 /\ y = x + MaxInt + 1
    BY <1>1
  <1> HIDE DEF m, y
  <1>6. y % m \in Int
    BY <1>1, <1>5
  <1>7. QED
    BY <1>1, <1>3, <1>4, <1>5, <1>6

\* Adding a size and taking one away, in two int64 operations.
LEMMA WrapSum ==
  ASSUME NEW x \in Int, MinInt < x, x <= 2 * MaxInt + 2
  PROVE  /\ x - 1 <= MaxInt => Int64(Int64(x) - 1) = x - 1
         /\ x - 1 > MaxInt => Int64(Int64(x) - 1) = x - 1 - (2 * MaxInt + 2)
  <1>1. MaxInt \in Nat /\ MinInt = -MaxInt - 1
    BY MaxIntAssumption DEF MinInt
  <1>2. CASE x <= MaxInt
    <2>1. Int64(x) = x
      BY <1>1, <1>2, Wrap
    <2>2. QED
      BY <1>1, <1>2, <2>1, Wrap
  <1>3. CASE x = MaxInt + 1
    <2>1. Int64(x) = MinInt
      BY <1>1, <1>3, Wrap
    <2>2. Int64(MinInt - 1) = MaxInt
      BY <1>1, Wrap
    <2>3. QED
      BY <1>1, <1>3, <2>1, <2>2
  <1>4. CASE x > MaxInt + 1
    <2>1. Int64(x) = x - (2 * MaxInt + 2)
      BY <1>1, <1>4, Wrap
    <2>2. QED
      BY <1>1, <1>4, <2>1, Wrap
  <1>5. QED
    BY <1>1, <1>2, <1>3, <1>4

\* Whatever overflows, numChunks is an integer.
LEMMA NumChunksType ==
  ASSUME NEW total \in MinInt .. MaxInt, NEW size \in 1 .. MaxInt
  PROVE  NumChunks(total, size) \in Int
  <1>1. MaxInt \in Nat /\ MinInt = -MaxInt - 1
    BY MaxIntAssumption DEF MinInt
  <1> DEFINE u == Int64(Int64(total + size) - 1)
  <1>2. u \in Int
    BY <1>1, WrapSum
  <1>3. NumChunks(total, size) = IF u >= 0 THEN u \div size ELSE -((-u) \div size)
    BY DEF NumChunks, Quotient
  <1> HIDE DEF u
  <1>4. QED
    BY <1>1, <1>2, <1>3

\* Without overflow numChunks is the number of chunks that are needed ...
LEMMA NumChunksFits ==
  ASSUME NEW total \in Nat, NEW size \in Nat \ {0}, total + size - 1 <= MaxInt
  PROVE  NumChunks(total, size) = (total + size - 1) \div size
  <1>1. MaxInt \in Nat /\ MinInt = -MaxInt - 1
    BY MaxIntAssumption DEF MinInt
  <1>2. Int64(Int64(total + size) - 1) = total + size - 1
    BY <1>1, WrapSum
  <1>3. total + size - 1 >= 0
    OBVIOUS
  <1>4. QED
    BY <1>2, <1>3 DEF NumChunks, Quotient

\* ... and with overflow it is not positive.
LEMMA NumChunksOverflows ==
  ASSUME NEW total \in MinInt .. MaxInt, NEW size \in 1 .. MaxInt,
         total <= 0 \/ total + size - 1 > MaxInt
  PROVE  NumChunks(total, size) <= 0
  <1>1. MaxInt \in Nat /\ MinInt = -MaxInt - 1
    BY MaxIntAssumption DEF MinInt
  <1> DEFINE u == Int64(Int64(total + size) - 1)
  <1>2. u \in Int /\ u < size
    BY <1>1, WrapSum
  <1>3. NumChunks(total, size) = IF u >= 0 THEN u \div size ELSE -((-u) \div size)
    BY DEF NumChunks, Quotient
  <1> HIDE DEF u
  <1>4. CASE u >= 0
    <2>1. u \div size \in Nat /\ (u \div size) * size <= u
      BY <1>1, <1>2, <1>4, Division
    <2>2. u \div size > 0 => (u \div size) * size >= size
      BY <1>1, <2>1
    <2>3. QED
      BY <1>1, <1>2, <1>3, <1>4, <2>1, <2>2
  <1>5. CASE u < 0
    <2>1. (-u) \div size \in Nat
      BY <1>1, <1>2, <1>5, Division
    <2>2. QED
      BY <1>2, <1>3, <1>5, <2>1
  <1>6. QED
    BY <1>2, <1>4, <1>5

\* Without overflow the chunks are enough, and all but the last are full.
LEMMA EnoughChunks ==
  ASSUME NEW total \in Nat \ {0}, NEW size \in Nat \ {0}, total + size - 1 <= MaxInt,
         NEW n, n = NumChunks(total, size)
  PROVE  /\ n \in Nat /\ n > 0
         /\ total <= n * size
         /\ (n - 1) * size < total
  <1>1. n = (total + size - 1) \div size
    BY NumChunksFits
  <1>2. n \in Nat /\ n * size <= total + size - 1 /\ total + size - 1 < n * size + size
    BY <1>1, Division
  <1>3. n # 0
    BY <1>2
  <1>4. n - 1 \in Nat /\ (n - 1) * size + size = n * size
    BY <1>2, <1>3, Product
  <1>5. (n - 1) * size \in Nat /\ n * size \in Nat
    BY <1>2, <1>4, Product
  <1>6. QED
    BY <1>2, <1>3, <1>4, <1>5
-----------------------------------------------------------------------------
(* Sets of integers.                                                       *)

\* A set of naturals that is not empty has a least element.
LEMMA LeastNat ==
  ASSUME NEW T, T \subseteq Nat, T # {}
  PROVE  \E x \in T : \A y \in T : x <= y
  <1>1. PICK x \in T : \A y \in T : ~ (<<y, x>> \in OpToRel(<, Nat))
    BY NatLessThanWellFounded, WFMin
  <1>2. ASSUME NEW y \in T PROVE x <= y
    <2>1. x \in Nat /\ y \in Nat
      OBVIOUS
    <2>2. ~ (y < x)
      BY <1>1, <2>1 DEF OpToRel
    <2>3. QED
      BY <2>1, <2>2
  <1>3. QED
    BY <1>2

\* The least key of a table that has rows is one of its keys.
LEMMA MinOf ==
  ASSUME NEW D, D \subseteq MinInt .. MaxInt, D # {}
  PROVE  Min(D) \in D /\ \A y \in D : Min(D) <= y
  <1>1. MaxInt \in Nat /\ MinInt = -MaxInt - 1
    BY MaxIntAssumption DEF MinInt
  <1> DEFINE T == {y + MaxInt + 1 : y \in D}
  <1>0. \A y \in D : y \in Int /\ y + MaxInt + 1 \in Nat
    <2>1. SUFFICES ASSUME NEW y \in D PROVE y \in Int /\ y + MaxInt + 1 \in Nat
      OBVIOUS
    <2>2. y \in Int /\ MinInt <= y
      OBVIOUS
    <2>3. QED
      BY <1>1, <2>2
  <1>2. T \subseteq Nat /\ T # {}
    BY <1>0
  <1>3. PICK t \in T : \A u \in T : t <= u
    BY <1>2, LeastNat
  <1>4. PICK x \in D : t = x + MaxInt + 1
    OBVIOUS
  <1>5. ASSUME NEW y \in D PROVE x <= y
    <2>1. y + MaxInt + 1 \in T
      OBVIOUS
    <2>2. x + MaxInt + 1 <= y + MaxInt + 1
      BY <1>3, <1>4, <2>1
    <2>3. QED
      BY <1>1, <1>0, <2>2
  <1>6. \E z \in D : \A y \in D : z <= y
    BY <1>5
  <1>7. QED
    BY <1>6 DEF Min

\* The same of the greatest key.
LEMMA MaxOf ==
  ASSUME NEW D, D \subseteq MinInt .. MaxInt, D # {}
  PROVE  Max(D) \in D /\ \A y \in D : Max(D) >= y
  <1>1. MaxInt \in Nat /\ MinInt = -MaxInt - 1
    BY MaxIntAssumption DEF MinInt
  <1> DEFINE T == {MaxInt - y : y \in D}
  <1>2. T \subseteq Nat /\ T # {}
    BY <1>1
  <1>3. PICK t \in T : \A u \in T : t <= u
    BY <1>2, LeastNat
  <1>4. PICK x \in D : t = MaxInt - x
    OBVIOUS
  <1>5. ASSUME NEW y \in D PROVE x >= y
    BY <1>1, <1>3, <1>4
  <1>6. \E z \in D : \A y \in D : z >= y
    BY <1>5
  <1>7. QED
    BY <1>6 DEF Max

\* The rows before a row in a finite set are fewer than all.
LEMMA RowsBefore ==
  ASSUME NEW rows, rows \subseteq Int, IsFiniteSet(rows), NEW r \in rows,
         \A x \in rows : table[x] \in Int
  PROVE  Rank(rows, r) \in Nat /\ Rank(rows, r) < Cardinality(rows)
  <1> DEFINE B == {s \in rows : Before(s, r)}
  <1>1. B \subseteq rows /\ r \notin B
    BY DEF Before
  <1>2. IsFiniteSet(B) /\ Cardinality(B) <= Cardinality(rows)
        /\ (Cardinality(B) = Cardinality(rows) => B = rows)
    BY <1>1, FS_Subset
  <1>3. Cardinality(B) \in Nat /\ Cardinality(rows) \in Nat
    BY <1>2, FS_CardinalityType
  <1>4. QED
    BY <1>1, <1>2, <1>3 DEF Rank

\* In the order of an integer key they are no more than the integers in between.
LEMMA KeysBefore ==
  ASSUME NEW rows, rows \subseteq Int, IsFiniteSet(rows), NEW r \in rows, NEW low \in Int,
         \A x \in rows : low <= x,
         key = "integer"
  PROVE  Rank(rows, r) \in Nat /\ Rank(rows, r) <= r - low
  <1> DEFINE B == {s \in rows : Before(s, r)}
  <1>1. r \in Int /\ low <= r
    OBVIOUS
  <1>2. B \subseteq low .. (r - 1)
    <2>1. ASSUME NEW s \in rows, Before(s, r) PROVE s \in low .. (r - 1)
      <3>1. s < r
        BY <2>1 DEF Before
      <3>2. QED
        BY <1>1, <3>1
    <2>2. QED
      BY <2>1
  <1>3. IsFiniteSet(low .. (r - 1)) /\ Cardinality(low .. (r - 1)) = r - low
    <2>1. r - 1 \in Int
      BY <1>1
    <2>2. /\ IsFiniteSet(low .. (r - 1))
          /\ Cardinality(low .. (r - 1)) = IF low > r - 1 THEN 0 ELSE (r - 1) - low + 1
      BY <2>1, FS_Interval, Zenon
    <2>3. QED
      BY <1>1, <2>2
  <1>4. IsFiniteSet(B) /\ Cardinality(B) <= Cardinality(low .. (r - 1))
    BY <1>2, <1>3, FS_Subset
  <1>5. Cardinality(B) \in Nat
    BY <1>4, FS_CardinalityType
  <1>6. QED
    BY <1>3, <1>4, <1>5 DEF Rank
-----------------------------------------------------------------------------
(* Each way of making chunks divides the table.                            *)

\* A row is in at most one of the chunks, and in one if the sums fit.
Divides(C, r) ==
  /\ \A c, d \in C : r \in ChunkRows(c) /\ r \in ChunkRows(d) => c = d
  /\ SumsFit => \E c \in C : r \in ChunkRows(c)

\* What the assumptions say of the inputs of a run.
LEMMA Inputs ==
  ASSUME InputsOK
  PROVE  /\ MaxInt \in Nat /\ MinInt = -MaxInt - 1
         /\ chunkSize \in Nat \ {0} /\ chunkSize <= MaxInt
         /\ totalBlocks \in Nat /\ totalBlocks <= MaxInt
         /\ estimate \in Int /\ RowCount \in Nat
         /\ DOMAIN table \subseteq MinInt .. MaxInt /\ DOMAIN table \subseteq Int
         /\ IsFiniteSet(DOMAIN table) /\ Cardinality(DOMAIN table) \in Nat
         /\ \A r \in DOMAIN table : table[r] \in Nat
  <1>1. MaxInt \in Nat /\ MinInt = -MaxInt - 1
    BY MaxIntAssumption DEF MinInt
  <1>2. chunkSize \in Nat \ {0} /\ chunkSize <= MaxInt
    BY <1>1, SizesAssumption DEF InputsOK
  <1>3. totalBlocks \in Nat /\ totalBlocks <= MaxInt /\ estimate \in Int
    BY <1>1, BlocksAssumption DEF InputsOK
  <1>4. /\ DOMAIN table \subseteq MinInt .. MaxInt /\ IsFiniteSet(DOMAIN table)
        /\ \A r \in DOMAIN table : table[r] \in Nat
    BY TablesAssumption, Zenon DEF InputsOK
  <1>5. DOMAIN table \subseteq Int
    BY <1>4
  <1>6. Cardinality(DOMAIN table) \in Nat
    BY <1>4, FS_CardinalityType
  <1>7. RowCount \in Nat
    BY <1>6, CountsAssumption DEF InputsOK, RowCount
  <1>8. QED
    BY <1>1, <1>2, <1>3, <1>4, <1>5, <1>6, <1>7

\* A chunk by LIMIT and OFFSET has the rows with these numbers in the order.
LEMMA OffsetRows ==
  ASSUME InputsOK, NEW r \in DOMAIN table, NEW i \in Nat,
         NEW c, c = Chunk("offset", i, i * chunkSize, Nil, Nil)
  PROVE  LET rank == Rank(DOMAIN table, r)
         IN r \in ChunkRows(c) <=> i * chunkSize <= rank /\ rank < i * chunkSize + chunkSize
  <1> DEFINE rank == Rank(DOMAIN table, r)
  <1>1. ChunkRows(c) = Page(DOMAIN table, i * chunkSize)
    BY DEF Chunk, ChunkRows
  <1>2. r \in Page(DOMAIN table, i * chunkSize)
          <=> rank \in (i * chunkSize) .. (i * chunkSize + chunkSize - 1)
    BY DEF Page
  <1>3. rank \in Nat
    BY Inputs, RowsBefore
  <1>4. i * chunkSize \in Nat /\ chunkSize \in Nat
    BY Inputs, Product
  <1> HIDE DEF rank
  <1>5. rank \in (i * chunkSize) .. (i * chunkSize + chunkSize - 1)
          <=> i * chunkSize <= rank /\ rank < i * chunkSize + chunkSize
    BY <1>3, <1>4
  <1>6. QED
    BY <1>1, <1>2, <1>5 DEF rank

\* The chunks of createOffsetChunksWithConn are apart, and reach as far as the rows
\* that were counted or, if there are none, as the first chunk.
LEMMA OffsetDivides ==
  ASSUME InputsOK, OffsetChunks # Panicked, NEW r \in DOMAIN table
  PROVE  /\ \A c, d \in OffsetChunks : r \in ChunkRows(c) /\ r \in ChunkRows(d) => c = d
         /\ SumsFit /\ (Rank(DOMAIN table, r) < RowCount \/ Rank(DOMAIN table, r) < chunkSize)
              => \E c \in OffsetChunks : r \in ChunkRows(c)
  <1> DEFINE n == IF RowCount = 0 THEN 1 ELSE NumChunks(RowCount, chunkSize)
             rank == Rank(DOMAIN table, r)
             C(i) == Chunk("offset", i, i * chunkSize, Nil, Nil)
  <1>1. rank \in Nat /\ RowCount \in Nat /\ chunkSize \in Nat \ {0}
    BY Inputs, RowsBefore
  <1>2. OffsetChunks = {C(i) : i \in 0 .. (n - 1)}
    <2>1. CASE RowCount = 0
      <3>1. OffsetChunks = {Chunk("offset", 0, 0, Nil, Nil)} /\ n - 1 = 0
        BY <2>1 DEF OffsetChunks, WholeTable
      <3>2. C(0) = Chunk("offset", 0, 0, Nil, Nil) /\ 0 .. 0 = {0}
        BY <1>1
      <3>3. QED
        BY <3>1, <3>2
    <2>2. CASE RowCount # 0
      BY <2>2 DEF OffsetChunks
    <2>3. QED
      BY <2>1, <2>2
  <1>3. \A i \in 0 .. (n - 1) : i \in Nat /\
          (r \in ChunkRows(C(i)) <=> i * chunkSize <= rank /\ rank < i * chunkSize + chunkSize)
    BY OffsetRows
  <1> HIDE DEF n, rank
  <1>4. ASSUME NEW i \in 0 .. (n - 1), NEW j \in 0 .. (n - 1),
               r \in ChunkRows(C(i)), r \in ChunkRows(C(j))
        PROVE  C(i) = C(j)
    BY <1>1, <1>3, <1>4, OneInterval
  <1>5. ASSUME SumsFit, rank < RowCount \/ rank < chunkSize
        PROVE  \E i \in 0 .. (n - 1) : r \in ChunkRows(C(i))
    <2>1. n \in Nat /\ n > 0 /\ rank < n * chunkSize
      <3>1. CASE RowCount = 0
        BY <1>1, <1>5, <3>1 DEF n
      <3>2. CASE RowCount # 0
        <4>1. RowCount + chunkSize - 1 <= MaxInt
          BY <1>5 DEF SumsFit
        <4>2. n \in Nat /\ n > 0 /\ RowCount <= n * chunkSize
          BY <1>1, <3>2, <4>1, EnoughChunks DEF n
        <4>3. chunkSize <= n * chunkSize /\ n * chunkSize \in Nat
          <5>1. 1 * chunkSize <= n * chunkSize /\ n * chunkSize \in Nat
            BY <1>1, <4>2, Product
          <5>2. QED
            BY <1>1, <5>1
        <4>4. QED
          BY <1>1, <1>5, <4>2, <4>3
      <3>3. QED
        BY <3>1, <3>2
    <2>2. PICK i \in Nat : i = rank \div chunkSize
      BY <1>1, Division
    <2>3. i * chunkSize <= rank /\ rank < i * chunkSize + chunkSize
      BY <1>1, <2>2, Division
    <2>4. i < n
      <3>1. i >= n => n * chunkSize <= i * chunkSize
        BY <1>1, <2>1, Product
      <3>2. i * chunkSize \in Nat /\ n * chunkSize \in Nat
        BY <1>1, <2>1, Product
      <3>3. QED
        BY <1>1, <2>1, <2>3, <3>1, <3>2
    <2>5. i \in 0 .. (n - 1)
      BY <2>1, <2>4
    <2>6. QED
      BY <1>3, <2>3, <2>5
  <1>6. QED
    BY <1>2, <1>4, <1>5 DEF rank

\* A chunk is at least one block, and no more blocks than rows asked for.
LEMMA BlocksPerChunkType ==
  ASSUME InputsOK
  PROVE  BlocksPerChunk \in 1 .. chunkSize
  <1> DEFINE x == chunkSize \div RowsPerBlock
  <1>1. RowsPerBlock \in Nat \ {0} /\ chunkSize \in Nat \ {0}
    BY Inputs DEF RowsPerBlock
  <1>2. x \in Nat /\ x * RowsPerBlock <= chunkSize
    BY <1>1, Division
  <1>3. x <= x * RowsPerBlock
    BY <1>1, <1>2
  <1>4. x * RowsPerBlock \in Nat
    BY <1>1, <1>2, Product
  <1>5. x <= chunkSize
    BY <1>1, <1>2, <1>3, <1>4
  <1> HIDE DEF x
  <1>6. \E m \in {1, x} : \A y \in {1, x} : m >= y
    BY <1>2
  <1>7. Max({1, x}) \in {1, x} /\ Max({1, x}) >= 1
    BY <1>6 DEF Max
  <1>8. QED
    BY <1>1, <1>2, <1>5, <1>7 DEF BlocksPerChunk, x

\* The lesser of two numbers.
LEMMA MinOfTwo ==
  ASSUME NEW x \in Int, NEW y \in Int, x <= y
  PROVE  Min({x, y}) = x
  <1>1. \E m \in {x, y} : \A z \in {x, y} : m <= z
    OBVIOUS
  <1>2. Min({x, y}) \in {x, y} /\ \A z \in {x, y} : Min({x, y}) <= z
    BY <1>1 DEF Min
  <1>3. QED
    BY <1>2

\* A chunk by blocks has the rows of these blocks, the last one all that follow.
LEMMA CTIDRows ==
  ASSUME NEW r \in DOMAIN table, NEW lo \in Nat, NEW hi \in Nat \cup {Nil},
         NEW i, NEW c, c = Chunk("ctid_block", i, lo, lo, hi)
  PROVE  r \in ChunkRows(c) <=> lo <= table[r] /\ (hi = Nil \/ table[r] < hi)
  <1>1. lo # Nil
    BY NilAssumption
  <1>2. ChunkRows(c) = CTIDBlockRows(c) /\ c.lo = lo /\ c.hi = hi
    BY DEF Chunk, ChunkRows
  <1>3. QED
    BY <1>1, <1>2 DEF CTIDBlockRows

\* The chunks of createCTIDBlockChunksWithConn divide the table.
LEMMA CTIDDivides ==
  ASSUME InputsOK, "blocks" \notin failed, CTIDBlockChunks # Panicked, NEW r \in DOMAIN table
  PROVE  Divides(CTIDBlockChunks, r)
  <1>1. CASE totalBlocks = 0
    <2>1. CTIDBlockChunks = {Chunk("ctid_block", 0, 0, Nil, Nil)}
      BY <1>1 DEF CTIDBlockChunks, WholeTable
    <2>2. r \in ChunkRows(Chunk("ctid_block", 0, 0, Nil, Nil))
      BY DEF Chunk, ChunkRows, CTIDBlockRows
    <2>3. QED
      BY <2>1, <2>2 DEF Divides
  <1>2. CASE totalBlocks # 0
    <2> DEFINE b == BlocksPerChunk
               n == NumChunks(totalBlocks, b)
               hi(i) == IF i = n - 1 THEN Nil ELSE Min({(i + 1) * b, totalBlocks})
               C(i) == Chunk("ctid_block", i, i * b, i * b, hi(i))
               k == table[r]
    <2>1. CTIDBlockChunks = {C(i) : i \in 0 .. (n - 1)}
      BY <1>2 DEF CTIDBlockChunks
    <2>2. /\ MaxInt \in Nat /\ MinInt = -MaxInt - 1
          /\ totalBlocks \in Nat \ {0} /\ totalBlocks <= MaxInt
          /\ b \in 1 .. MaxInt /\ b \in Nat \ {0} /\ b <= chunkSize /\ chunkSize \in Nat
          /\ k \in Nat
      BY <1>2, Inputs, BlocksPerChunkType
    <2> HIDE DEF b, n, k
    <2>3. CASE totalBlocks + b - 1 > MaxInt
      <3>1. n <= 0
        <4>1. totalBlocks \in MinInt .. MaxInt
          BY <2>2
        <4>2. QED
          BY <2>2, <2>3, <4>1, NumChunksOverflows DEF n
      <3>2. n \in Int
        <4>1. totalBlocks \in MinInt .. MaxInt
          BY <2>2
        <4>2. QED
          BY <2>2, <4>1, NumChunksType DEF n
      <3>3. CTIDBlockChunks = {}
        <4>1. 0 .. (n - 1) = {}
          BY <3>1, <3>2
        <4>2. QED
          BY <2>1, <4>1
      <3>4. ~ SumsFit
        BY <2>2, <2>3 DEF SumsFit
      <3>5. QED
        BY <3>3, <3>4 DEF Divides
    <2>4. CASE totalBlocks + b - 1 <= MaxInt
      <3>1. n \in Nat /\ n > 0 /\ (n - 1) * b < totalBlocks
        BY <2>2, <2>4, EnoughChunks DEF n
      <3>2. n - 1 \in Nat /\ (n - 1) * b \in Nat
        BY <2>2, <3>1, Product
      <3>3. ASSUME NEW i \in 0 .. (n - 1)
            PROVE  /\ i \in Nat /\ i * b \in Nat
                   /\ i # n - 1 => i * b + b <= (n - 1) * b
                   /\ r \in ChunkRows(C(i)) <=> i * b <= k /\ (i = n - 1 \/ k < i * b + b)
        <4>1. i \in Nat /\ i + 1 \in Nat /\ i * b \in Nat /\ (i + 1) * b = i * b + b
          BY <2>2, <3>2, Product
        <4>2. i # n - 1 => i * b + b <= (n - 1) * b
          <5>1. i # n - 1 => i + 1 <= n - 1
            BY <3>1
          <5>2. QED
            BY <2>2, <3>2, <4>1, <5>1, Product
        <4>3. i # n - 1 => hi(i) = i * b + b
          BY <2>2, <3>1, <3>2, <4>1, <4>2, MinOfTwo
        <4>4. hi(i) \in Nat \cup {Nil} /\ (hi(i) = Nil <=> i = n - 1)
          BY <2>2, <4>1, <4>3, NilAssumption
        <4> HIDE DEF hi
        <4>5. r \in ChunkRows(C(i)) <=> i * b <= k /\ (hi(i) = Nil \/ k < hi(i))
          BY <4>1, <4>4, CTIDRows DEF k
        <4>6. QED
          BY <4>1, <4>2, <4>3, <4>4, <4>5
      <3>4. ASSUME NEW i \in 0 .. (n - 1), NEW j \in 0 .. (n - 1),
                   r \in ChunkRows(C(i)), r \in ChunkRows(C(j))
            PROVE  i = j
        <4>1. ASSUME NEW m \in 0 .. (n - 1), r \in ChunkRows(C(m)), (n - 1) * b <= k
              PROVE  m = n - 1
          <5>1. /\ m * b \in Nat
                /\ m # n - 1 => m * b + b <= (n - 1) * b
                /\ m = n - 1 \/ k < m * b + b
            BY <3>3, <4>1
          <5>2. QED
            BY <2>2, <3>2, <4>1, <5>1
        <4>2. CASE i = n - 1 \/ j = n - 1
          <5>1. (n - 1) * b <= k
            BY <3>3, <3>4, <4>2
          <5>2. QED
            BY <3>4, <4>1, <5>1
        <4>3. CASE i # n - 1 /\ j # n - 1
          BY <2>2, <3>3, <3>4, <4>3, OneInterval
        <4>4. QED
          BY <4>2, <4>3
      <3>5. \E i \in 0 .. (n - 1) : r \in ChunkRows(C(i))
        <4>1. CASE (n - 1) * b <= k
          <5>1. n - 1 \in 0 .. (n - 1)
            BY <3>2
          <5>2. r \in ChunkRows(C(n - 1))
            BY <3>3, <4>1, <5>1
          <5>3. QED
            BY <5>1, <5>2
        <4>2. CASE k < (n - 1) * b
          <5>1. PICK i \in Nat : i = k \div b
            BY <2>2, Division
          <5>2. i * b <= k /\ k < i * b + b
            BY <2>2, <5>1, Division
          <5>3. i < n - 1
            <6>1. i >= n - 1 => (n - 1) * b <= i * b
              BY <2>2, <3>2, Product
            <6>2. i * b \in Nat
              BY <2>2, Product
            <6>3. QED
              BY <2>2, <3>2, <4>2, <5>2, <6>1, <6>2
          <5>4. i \in 0 .. (n - 1)
            BY <3>2, <5>3
          <5>5. QED
            BY <3>3, <5>2, <5>4
        <4>3. (n - 1) * b <= k \/ k < (n - 1) * b
          <5>1. PICK m \in Nat : m = (n - 1) * b
            BY <3>2
          <5>2. m <= k \/ k < m
            BY <2>2
          <5>3. QED
            BY <5>1, <5>2
        <4>4. QED
          BY <4>1, <4>2, <4>3
      <3>6. QED
        BY <2>1, <3>4, <3>5 DEF Divides
    <2>5. QED
      BY <2>2, <2>3, <2>4
  <1>3. QED
    BY <1>1, <1>2

\* A range starts within the keys; it ends chunkSize further or at the last key,
\* or, wrapped, before it starts.
LEMMA RangeEndIs ==
  ASSUME InputsOK, NEW start \in MinInt .. MaxInt, NEW high \in MinInt .. MaxInt,
         high = Max(DOMAIN table), start <= high
  PROVE  /\ RangeEnd(start) \in Int
         /\ start + chunkSize - 1 > MaxInt => RangeEnd(start) < start
         /\ start + chunkSize - 1 <= MaxInt =>
              RangeEnd(start) = IF start + chunkSize - 1 > high THEN high ELSE start + chunkSize - 1
  <1>1. /\ MaxInt \in Nat /\ MinInt = -MaxInt - 1
        /\ chunkSize \in Nat \ {0} /\ chunkSize <= MaxInt
    BY Inputs
  <1> DEFINE end == Int64(Int64(start + chunkSize) - 1)
  <1>2. start \in Int /\ high \in Int /\ start >= MinInt /\ start <= MaxInt /\ high <= MaxInt
    OBVIOUS
  <1>3. /\ start + chunkSize \in Int
        /\ MinInt < start + chunkSize /\ start + chunkSize <= 2 * MaxInt + 2
    BY <1>1, <1>2
  <1>4. /\ start + chunkSize - 1 <= MaxInt => end = start + chunkSize - 1
        /\ start + chunkSize - 1 > MaxInt => end = start + chunkSize - 1 - (2 * MaxInt + 2)
    <2>1. PICK x \in Int : x = start + chunkSize
      BY <1>3
    <2>2. /\ x - 1 <= MaxInt => Int64(Int64(x) - 1) = x - 1
          /\ x - 1 > MaxInt => Int64(Int64(x) - 1) = x - 1 - (2 * MaxInt + 2)
      BY <1>3, <2>1, WrapSum
    <2>3. end = Int64(Int64(x) - 1)
      BY <2>1
    <2> HIDE DEF end
    <2>4. /\ x - 1 <= MaxInt => end = x - 1
          /\ x - 1 > MaxInt => end = x - 1 - (2 * MaxInt + 2)
      BY <2>2, <2>3
    <2>5. QED
      BY <1>1, <1>2, <2>1, <2>4
  <1>5. RangeEnd(start) = IF end > high THEN high ELSE end
    BY DEF RangeEnd
  <1> HIDE DEF end
  <1>6. QED
    BY <1>1, <1>2, <1>4, <1>5

\* A chunk by key has the rows in its range: LIMIT cuts none of them off.
LEMMA RangeRows ==
  ASSUME InputsOK, key = "integer", NEW r \in DOMAIN table, NEW i, NEW first,
         NEW lo \in Int, NEW hi \in Int, hi <= lo + chunkSize - 1,
         NEW c, c = Chunk("integer_range", i, first, lo, hi)
  PROVE  r \in ChunkRows(c) <=> lo <= r /\ r <= hi
  <1> DEFINE R == {x \in DOMAIN table : lo <= x /\ x <= hi}
             rank == Rank(R, r)
  <1>1. lo # Nil
    BY NilAssumption
  <1>2. ChunkRows(c) = Page(R, 0)
    BY <1>1 DEF Chunk, ChunkRows
  <1>3. /\ DOMAIN table \subseteq Int /\ IsFiniteSet(DOMAIN table)
        /\ chunkSize \in Nat \ {0}
    BY Inputs
  <1>4. r \in Page(R, 0) <=> r \in R /\ rank \in 0 .. (0 + chunkSize - 1)
    BY DEF Page
  <1>5. ASSUME r \in R PROVE rank \in 0 .. (0 + chunkSize - 1)
    <2>1. R \subseteq Int /\ IsFiniteSet(R) /\ \A x \in R : lo <= x
      BY <1>3, FS_Subset
    <2>2. rank \in Nat /\ rank <= r - lo
      BY <1>5, <2>1, KeysBefore
    <2>3. r \in Int /\ r <= hi
      BY <1>3, <1>5
    <2> HIDE DEF rank
    <2>4. QED
      BY <1>3, <2>2, <2>3
  <1>6. QED
    BY <1>2, <1>4, <1>5

\* The chunks of createRangeChunksWithConn divide the table.
LEMMA RangeDivides ==
  ASSUME InputsOK, strategy = "integer_range", key = "integer", "bounds" \notin failed,
         RangeChunks # Panicked, RangeChunks # {}, NEW r \in DOMAIN table
  PROVE  Divides(RangeChunks, r)
  <1> DEFINE low == Min(DOMAIN table)
             high == Max(DOMAIN table)
             t == Int64(Int64(high - low) + 1)
             n == NumChunks(t, chunkSize)
             start(i) == Int64(low + Int64(i * chunkSize))
             C(i) == Chunk("integer_range", i, Int64(i * chunkSize), start(i), RangeEnd(start(i)))
  <1>1. /\ MaxInt \in Nat /\ MinInt = -MaxInt - 1
        /\ chunkSize \in Nat \ {0} /\ chunkSize <= MaxInt /\ chunkSize \in 1 .. MaxInt
        /\ DOMAIN table \subseteq MinInt .. MaxInt /\ DOMAIN table # {}
    BY Inputs
  <1>2. /\ low \in DOMAIN table /\ high \in DOMAIN table
        /\ low <= r /\ r <= high
    BY <1>1, MinOf, MaxOf
  <1>3. RangeChunks = {C(i) : i \in 0 .. (n - 1)}
    BY <1>1 DEF RangeChunks
  <1>4. /\ low \in Int /\ high \in Int /\ r \in Int /\ low <= high
        /\ low >= MinInt /\ high <= MaxInt
        /\ low \in MinInt .. MaxInt /\ high \in MinInt .. MaxInt
    BY <1>1, <1>2
  <1> HIDE DEF low, high, n, t
  <1>5. /\ t \in MinInt .. MaxInt
        /\ high - low < MaxInt => t = high - low + 1
        /\ high - low >= MaxInt => t <= 0
    <2>1. PICK d \in Nat : d = high - low
      BY <1>4
    <2>2. d <= 2 * MaxInt + 1
      BY <1>1, <1>4, <2>1
    <2>3. CASE d <= MaxInt
      <3>1. Int64(d) = d
        BY <1>1, <2>3, Wrap
      <3>2. t = Int64(d + 1)
        BY <2>1, <3>1 DEF t
      <3>3. d < MaxInt => Int64(d + 1) = d + 1
        BY <1>1, Wrap
      <3>4. d = MaxInt => Int64(d + 1) = MinInt
        BY <1>1, Wrap
      <3>5. QED
        BY <1>1, <1>4, <2>1, <2>3, <3>2, <3>3, <3>4
    <2>4. CASE d > MaxInt
      <3>1. Int64(d) = d - (2 * MaxInt + 2)
        BY <1>1, <2>2, <2>4, Wrap
      <3>2. PICK e \in Int : e = d - (2 * MaxInt + 2) + 1
        BY <1>1
      <3>3. MinInt <= e /\ e <= 0
        BY <1>1, <2>2, <2>4, <3>2
      <3>4. Int64(e) = e
        BY <1>1, <3>3, Wrap
      <3>5. t = e
        BY <2>1, <3>1, <3>2, <3>4 DEF t
      <3>6. QED
        BY <1>1, <1>4, <2>1, <2>4, <3>3, <3>5
    <2>5. QED
      BY <1>1, <2>1, <2>3, <2>4
  <1>6. n \in Int /\ n > 0
    <2>1. n \in Int
      BY <1>1, <1>5, NumChunksType DEF n
    <2>2. n <= 0 => 0 .. (n - 1) = {}
      BY <2>1
    <2>3. QED
      BY <1>3, <2>1, <2>2
  <1>7. ~ (t <= 0 \/ t + chunkSize - 1 > MaxInt)
    BY <1>1, <1>5, <1>6, NumChunksOverflows DEF n
  <1>8. t \in Nat \ {0} /\ t = high - low + 1 /\ t + chunkSize - 1 <= MaxInt
    BY <1>1, <1>4, <1>5, <1>7
  <1>9. n \in Nat /\ n > 0 /\ t <= n * chunkSize /\ (n - 1) * chunkSize < t
    BY <1>1, <1>8, EnoughChunks DEF n
  <1>10. n - 1 \in Nat /\ (n - 1) * chunkSize \in Nat /\ n * chunkSize \in Nat
    BY <1>1, <1>9, Product
  <1>11. ASSUME NEW i \in 0 .. (n - 1)
         PROVE  /\ i \in Nat /\ i * chunkSize \in Nat
                /\ start(i) = low + i * chunkSize
                /\ start(i) \in MinInt .. MaxInt /\ start(i) <= high
    <2>1. i \in Nat /\ i <= n - 1
      BY <1>10
    <2>2. i * chunkSize <= (n - 1) * chunkSize /\ i * chunkSize \in Nat
      BY <1>1, <1>10, <2>1, Product
    <2>3. PICK p \in Nat : p = i * chunkSize
      BY <2>2
    <2>4. p <= high - low
      BY <1>4, <1>8, <1>9, <1>10, <2>2, <2>3
    <2>5. Int64(p) = p
      BY <1>1, <1>4, <1>8, <2>4, Wrap
    <2>6. Int64(low + p) = low + p
      BY <1>1, <1>4, <2>4, Wrap
    <2>7. start(i) = low + p
      BY <2>3, <2>5, <2>6
    <2>8. QED
      BY <1>1, <1>4, <2>1, <2>3, <2>4, <2>7
  <1> HIDE DEF start
  <1>12. ASSUME NEW i \in 0 .. (n - 1)
         PROVE  /\ r \in ChunkRows(C(i)) =>
                     i * chunkSize <= r - low /\ r - low < i * chunkSize + chunkSize
                /\ SumsFit /\ i * chunkSize <= r - low /\ r - low < i * chunkSize + chunkSize
                     => r \in ChunkRows(C(i))
    <2>1. PICK p \in Nat : p = i * chunkSize
      BY <1>11
    <2>2. start(i) = low + p /\ start(i) \in MinInt .. MaxInt /\ start(i) <= high
          /\ start(i) \in Int
      BY <1>1, <1>11, <2>1
    <2>3. PICK e \in Int : e = RangeEnd(start(i))
      BY <1>4, <2>2, RangeEndIs DEF high
    <2>4. /\ start(i) + chunkSize - 1 > MaxInt => e < start(i)
          /\ start(i) + chunkSize - 1 <= MaxInt =>
               e = IF start(i) + chunkSize - 1 > high THEN high ELSE start(i) + chunkSize - 1
      BY <1>4, <2>2, <2>3, RangeEndIs DEF high
    <2>5. e <= start(i) + chunkSize - 1
      BY <1>1, <1>4, <2>2, <2>4
    <2>6. r \in ChunkRows(C(i)) <=> start(i) <= r /\ r <= e
      BY <2>2, <2>3, <2>5, RangeRows
    <2>7. SumsFit => start(i) + chunkSize - 1 <= MaxInt
      <3>1. SumsFit => high + chunkSize - 1 <= MaxInt
        BY <1>2 DEF SumsFit
      <3>2. QED
        BY <1>1, <1>4, <2>2, <3>1
    <2>8. QED
      BY <1>1, <1>2, <1>4, <2>1, <2>2, <2>4, <2>5, <2>6, <2>7
  <1>13. ASSUME NEW i \in 0 .. (n - 1), NEW j \in 0 .. (n - 1),
                r \in ChunkRows(C(i)), r \in ChunkRows(C(j))
         PROVE  i = j
    <2>1. r - low \in Nat /\ i \in Nat /\ j \in Nat
      BY <1>2, <1>4, <1>11
    <2>2. /\ i * chunkSize <= r - low /\ r - low < i * chunkSize + chunkSize
          /\ j * chunkSize <= r - low /\ r - low < j * chunkSize + chunkSize
      BY <1>12, <1>13
    <2>3. QED
      BY <1>1, <2>1, <2>2, OneInterval
  <1>14. ASSUME SumsFit PROVE \E i \in 0 .. (n - 1) : r \in ChunkRows(C(i))
    <2>1. PICK k \in Nat : k = r - low
      BY <1>2, <1>4
    <2>2. k < n * chunkSize
      BY <1>2, <1>4, <1>8, <1>9, <1>10, <2>1
    <2>3. PICK i \in Nat : i = k \div chunkSize
      BY <1>1, Division
    <2>4. i * chunkSize <= k /\ k < i * chunkSize + chunkSize
      BY <1>1, <2>3, Division
    <2>5. i < n
      <3>1. i >= n => n * chunkSize <= i * chunkSize
        BY <1>1, <1>9, Product
      <3>2. i * chunkSize \in Nat
        BY <1>1, Product
      <3>3. QED
        BY <1>9, <1>10, <2>2, <2>4, <3>1, <3>2
    <2>6. i \in 0 .. (n - 1)
      BY <1>9, <2>5
    <2>7. QED
      BY <1>12, <1>14, <2>1, <2>4, <2>6
  <1>15. QED
    BY <1>3, <1>13, <1>14 DEF Divides
-----------------------------------------------------------------------------
(* The steps.                                                              *)

\* What createTableChunksWithConn owes a row, whichever queries fail.
Served(C, r) ==
  /\ \A c, d \in C : r \in ChunkRows(c) /\ r \in ChunkRows(d) => c = d
  /\ SumsFit /\ ~LeftOut(r) => \E c \in C : r \in ChunkRows(c)

\* Ways that divide the table serve every row.
LEMMA DividesServes ==
  ASSUME NEW C, NEW r, Divides(C, r)
  PROVE  Served(C, r)
  BY DEF Divides, Served

\* Chunks by LIMIT and OFFSET serve a row.
LEMMA OffsetServes ==
  ASSUME InputsOK, OffsetChunks # Panicked, NEW r \in DOMAIN table, ByOffset \/ ~SumsFit
  PROVE  Served(OffsetChunks, r)
  <1>1. Rank(DOMAIN table, r) \in Nat /\ RowCount \in Nat /\ chunkSize \in Nat
    BY Inputs, RowsBefore
  <1>2. SumsFit /\ ~LeftOut(r) =>
          Rank(DOMAIN table, r) < RowCount \/ Rank(DOMAIN table, r) < chunkSize
    BY <1>1 DEF LeftOut
  <1>3. QED
    BY <1>2, OffsetDivides DEF Served

\* No chunk by blocks: their number is unknown, or the sums do not fit.
LEMMA NoBlocks ==
  ASSUME InputsOK, CTIDBlockChunks = {}, NEW r \in DOMAIN table
  PROVE  "blocks" \in failed \/ ~SumsFit
  <1>1. ASSUME "blocks" \notin failed PROVE ~SumsFit
    <2>1. Divides(CTIDBlockChunks, r)
      BY <1>1, CTIDDivides DEF Panicked
    <2>2. QED
      BY <2>1 DEF Divides
  <1>2. QED
    BY <1>1

\* Chunks by blocks where integer_range falls back to them.
LEMMA LastResort ==
  ASSUME InputsOK, strategy = "integer_range", "pk" \notin failed,
         key # "integer" \/ RangeChunks = {},
         CTIDBlockChunks # Panicked, NEW r \in DOMAIN table
  PROVE  Served(CTIDBlockChunks, r)
  <1>1. CASE "blocks" \in failed
    <2>1. CTIDBlockChunks = {} /\ LeftOut(r)
      BY <1>1 DEF CTIDBlockChunks, LeftOut
    <2>2. QED
      BY <2>1 DEF Served
  <1>2. CASE "blocks" \notin failed
    BY <1>2, CTIDDivides, DividesServes
  <1>3. QED
    BY <1>1, <1>2

\* Whichever queries fail, createTableChunksWithConn serves every row.
LEMMA TableServes ==
  ASSUME InputsOK, TableChunks # Panicked, NEW r \in DOMAIN table
  PROVE  Served(TableChunks, r)
  <1>2. CASE strategy = "integer_range"
    <2>1. CASE "pk" \in failed
      BY <1>2, <2>1, OffsetServes DEF TableChunks, ByOffset
    <2>2. CASE "pk" \notin failed /\ key # "integer"
      BY <1>2, <2>2, LastResort DEF TableChunks
    <2>3. CASE "pk" \notin failed /\ key = "integer" /\ RangeChunks = {}
      BY <1>2, <2>3, LastResort DEF TableChunks, Else
    <2>4. CASE "pk" \notin failed /\ key = "integer" /\ RangeChunks # {}
      <3>1. "bounds" \notin failed
        BY <2>4 DEF RangeChunks
      <3>2. QED
        BY <1>2, <2>4, <3>1, RangeDivides, DividesServes DEF TableChunks, Else
    <2>5. QED
      BY <2>1, <2>2, <2>3, <2>4
  <1>3. CASE strategy = "offset"
    BY <1>3, OffsetServes DEF TableChunks, ByOffset
  <1>4. CASE strategy \in {"auto", "ctid_block"}
    <2>1. TableChunks = IF CTIDBlockChunks # {} THEN CTIDBlockChunks ELSE OffsetChunks
      BY <1>4 DEF TableChunks, Else
    <2>2. CASE CTIDBlockChunks = {}
      <3>1. ByOffset \/ ~SumsFit
        BY <1>4, <2>2, NoBlocks DEF ByOffset
      <3>2. QED
        BY <2>1, <2>2, <3>1, OffsetServes
    <2>3. CASE CTIDBlockChunks # {}
      <3>1. "blocks" \notin failed
        BY <2>3 DEF CTIDBlockChunks
      <3>2. QED
        BY <2>1, <2>3, <3>1, CTIDDivides, DividesServes
    <2>4. QED
      BY <2>2, <2>3
  <1>5. QED
    BY <1>2, <1>3, <1>4 DEF InputsOK, Strategies

\* What a chunk selects does not change while the chunks are made and read.
LEMMA RowsKept ==
  ASSUME UNCHANGED inputs
  PROVE  /\ \A c : ChunkRows(c)' = ChunkRows(c)
         /\ SumsFit' = SumsFit
         /\ \A r : LeftOut(r)' = LeftOut(r)
         /\ InputsOK' = InputsOK
  <1>1. UNCHANGED <<table, key, strategy, chunkSize, totalBlocks, estimate, counted,
                    failed, aborted>>
    BY DEF inputs
  <1>2. \A x, y : Before(x, y)' = Before(x, y)
    BY <1>1 DEF Before
  <1>3. \A rows, r : Rank(rows, r)' = Rank(rows, r)
    BY <1>1, <1>2 DEF Rank
  <1>4. \A rows, offset : Page(rows, offset)' = Page(rows, offset)
    BY <1>1, <1>3 DEF Page
  <1>5. RowCount' = RowCount /\ ByOffset' = ByOffset
    BY <1>1 DEF RowCount, ByOffset
  <1>6. \A x : RangeEnd(x)' = RangeEnd(x)
    BY <1>1 DEF RangeEnd
  <1>7. RangeChunks' = RangeChunks
    BY <1>1, <1>6 DEF RangeChunks
  <1>8. \A r : LeftOut(r)' = LeftOut(r)
    BY <1>1, <1>3, <1>5, <1>7 DEF LeftOut
  <1>9. QED
    BY <1>1, <1>4, <1>5, <1>8 DEF ChunkRows, CTIDBlockRows, SumsFit, InputsOK

\* Nothing is handed over at first.
LEMMA InitPartition == Init => PartitionInv
  BY DEF Init, PartitionInv, InputsOK

\* Creating the chunks establishes that they divide the table.
LEMMA CreatePartition ==
  ASSUME PartitionInv, Create
  PROVE  PartitionInv'
  <1>1. UNCHANGED inputs /\ UNCHANGED seen /\ pc = "create" /\ InputsOK
        /\ \A r \in DOMAIN table : seen[r] = 0
    BY DEF Create, PartitionInv
  <1>2. UNCHANGED <<table, aborted>>
    BY <1>1 DEF inputs
  <1>3. CASE pc' = "read" /\ ~aborted
    <2>1. TableChunks # Panicked /\ chunks' = TableChunks
      BY <1>3 DEF Create
    <2>2. ASSUME NEW r \in DOMAIN table PROVE RowOK(r)'
      <3>1. Served(TableChunks, r)
        BY <1>1, <1>3, <2>1, TableServes
      <3>2. seen'[r] = 0
        BY <1>1
      <3>3. QED
        BY <1>1, <2>1, <3>1, <3>2, RowsKept DEF RowOK, Served
    <2>3. QED
      BY <1>1, <1>2, <1>3, <2>2, RowsKept DEF PartitionInv
  <1>4. CASE ~ (pc' = "read" /\ ~aborted)
    BY <1>1, <1>2, <1>4, RowsKept DEF PartitionInv, Create
  <1>5. QED
    BY <1>3, <1>4

\* A chunk that is read takes its rows from those still to be read.
LEMMA ReadPartition ==
  ASSUME PartitionInv, NEW c \in chunks, Read(c)
  PROVE  PartitionInv'
  <1>1. /\ UNCHANGED inputs /\ UNCHANGED pc /\ pc = "read" /\ ~aborted
        /\ InputsOK /\ DOMAIN seen = DOMAIN table
        /\ \A r \in DOMAIN table : RowOK(r)
    BY DEF Read, PartitionInv
  <1>2. UNCHANGED <<table, aborted>>
    BY <1>1 DEF inputs
  <1>3. /\ chunks' = chunks \ {c}
        /\ seen' = [r \in DOMAIN seen |-> IF r \in ChunkRows(c) THEN seen[r] + 1 ELSE seen[r]]
    BY DEF Read
  <1>4. ASSUME NEW r \in DOMAIN table PROVE RowOK(r)'
    <2>1. RowOK(r)
      BY <1>1
    <2>2. CASE r \in ChunkRows(c)
      <3>1. seen[r] = 0 /\ \A d \in chunks : r \in ChunkRows(d) => d = c
        BY <2>1, <2>2 DEF RowOK
      <3>2. seen'[r] = 1
        BY <1>1, <1>3, <2>2, <3>1
      <3>3. \A d \in chunks' : r \notin ChunkRows(d)
        BY <1>3, <3>1
      <3>4. QED
        BY <1>1, <3>2, <3>3, RowsKept DEF RowOK
    <2>3. CASE r \notin ChunkRows(c)
      <3>1. seen'[r] = seen[r]
        BY <1>1, <1>3, <2>3
      <3>2. QED
        BY <1>1, <1>3, <2>1, <2>3, <3>1, RowsKept DEF RowOK
    <2>4. QED
      BY <2>2, <2>3
  <1>5. DOMAIN seen' = DOMAIN table'
    BY <1>1, <1>2, <1>3
  <1>6. QED
    BY <1>1, <1>2, <1>4, <1>5, RowsKept DEF PartitionInv

\* Every step keeps the invariant.
LEMMA NextPartition == PartitionInv /\ [Next]_vars => PartitionInv'
  <1> SUFFICES ASSUME PartitionInv, [Next]_vars PROVE PartitionInv'
    OBVIOUS
  <1>1. CASE UNCHANGED vars
    <2>1. UNCHANGED inputs /\ UNCHANGED <<table, aborted, pc, chunks, seen>>
      BY <1>1 DEF vars, inputs
    <2>2. \A r : RowOK(r) => RowOK(r)'
      BY <2>1, RowsKept DEF RowOK
    <2>3. QED
      BY <2>1, <2>2, RowsKept DEF PartitionInv
  <1>2. QED
    BY <1>1, CreatePartition, ReadPartition DEF Next

-----------------------------------------------------------------------------

\* Reading the chunks in any order of claims keeps the invariant: what was handed to
\* the listener and what is still to be read never overlap.
THEOREM ChunkPartitionInvariant == Spec => []PartitionInv
  <1>1. QED
    BY InitPartition, NextPartition, PTL DEF Spec

\* For every table, strategy, chunk size, block count and statistic, whatever COUNT(*)
\* is about and whichever queries fail, no row is handed to the listener twice; once
\* all chunks are read none is missing, unless the export was aborted, the sums of
\* createTableChunksWithConn exceed an int64, or the failures leave the row out: by
\* offset beyond both the count and the first chunk, by integer_range without ranges
\* and blocks.
THEOREM ChunkPartitionEachRowOnce == Spec => []EachRowOnce
  <1>1. PartitionInv => EachRowOnce
    <2>1. SUFFICES ASSUME PartitionInv, NEW r \in DOMAIN table
                   PROVE  /\ seen[r] <= 1
                          /\ pc = "read" /\ chunks = {} /\ ~aborted /\ SumsFit /\ ~LeftOut(r)
                               => seen[r] = 1
      BY DEF EachRowOnce
    <2>2. CASE pc = "read" /\ ~aborted
      <3>1. RowOK(r)
        BY <2>1, <2>2 DEF PartitionInv
      <3>2. QED
        BY <3>1 DEF RowOK
    <2>3. CASE ~(pc = "read" /\ ~aborted)
      <3>1. seen[r] = 0
        BY <2>1, <2>3 DEF PartitionInv
      <3>2. QED
        BY <2>3, <3>1
    <2>4. QED
      BY <2>2, <2>3
  <1>2. QED
    BY <1>1, ChunkPartitionInvariant, PTL
=============================================================================
