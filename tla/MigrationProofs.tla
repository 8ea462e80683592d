-------------------------- MODULE MigrationProofs ---------------------------
(***************************************************************************)
(* Proofs about Migration: what it keeps in memory, and that a row which   *)
(* ON CONFLICT DO NOTHING keeps is current.                                *)
(***************************************************************************)
EXTENDS Migration, TLAPS, NaturalsInduction, WellFoundedInduction

-----------------------------------------------------------------------------
(* Finite recursion.                                                       *)

\* A set of naturals that is not empty has a least one.
LEMMA LeastNat ==
  ASSUME NEW T, T \subseteq Nat, T # {}
  PROVE  \E x \in T : \A y \in T : x <= y
  <1>1. PICK x \in T : \A y \in T : ~ (<<y, x>> \in OpToRel(<, Nat))
    BY NatLessThanWellFounded, WFMin
  <1>2. ASSUME NEW y \in T PROVE x <= y
    <2>1. x \in Nat /\ y \in Nat
      OBVIOUS
    <2>2. ~ (y < x)
      BY <1>1, <2>1 DEF OpToRel
    <2>3. QED
      BY <2>1, <2>2
  <1>3. QED
    BY <1>2

\* Induction up to a bound: a set with 0 and with the successor of each of its
\* members below the bound has all of them.
LEMMA UpTo ==
  ASSUME NEW L \in Nat, NEW T, 0 \in T, \A n \in 0 .. (L - 1) : n \in T => n + 1 \in T
  PROVE  \A n \in 0 .. L : n \in T
  <1> DEFINE U == {n \in 0 .. L : n \notin T}
  <1>1. SUFFICES ASSUME U # {} PROVE FALSE
    OBVIOUS
  <1>2. PICK x \in U : \A y \in U : x <= y
    <2>1. U \subseteq Nat
      OBVIOUS
    <2>2. QED
      BY <1>1, <2>1, LeastNat
  <1>3. x \in 1 .. L /\ x \notin T
    OBVIOUS
  <1>4. x - 1 \in 0 .. (L - 1) /\ x - 1 \notin U
    BY <1>2, <1>3
  <1>5. x - 1 \in T
    BY <1>4
  <1>6. (x - 1) + 1 \in T
    BY <1>4, <1>5
  <1>7. QED
    BY <1>3, <1>6

Steps(L, S) == [1 .. L -> [S -> S]]

IsChain(g, L, S, first, F) ==
  g \in [0 .. L -> S] /\ g[0] = first /\ \A n \in 1 .. L : g[n] = F[n][g[n - 1]]

\* A function defined by recursion up to a bound exists.
LEMMA Chain ==
  ASSUME NEW L \in Nat, NEW S, NEW first \in S, NEW F \in Steps(L, S)
  PROVE  \E g : IsChain(g, L, S, first, F)
  <1> DEFINE Good(m, g) == g[0] = first /\ \A n \in 1 .. m : g[n] = F[n][g[n - 1]]
             T == {m \in 0 .. L : \E g \in [0 .. m -> S] : Good(m, g)}
  <1>1. 0 \in T
    <2>1. [n \in 0 .. 0 |-> first] \in [0 .. 0 -> S] /\ Good(0, [n \in 0 .. 0 |-> first])
      OBVIOUS
    <2>2. \E g \in [0 .. 0 -> S] : Good(0, g)
      <3> HIDE DEF Good
      <3>1. QED
        BY <2>1
    <2>3. 0 \in 0 .. L
      OBVIOUS
    <2>4. QED
      BY <2>2, <2>3
  <1>2. ASSUME NEW m \in 0 .. (L - 1), m \in T PROVE m + 1 \in T
    <2>1. PICK g \in [0 .. m -> S] : Good(m, g)
      BY <1>2
    <2> DEFINE h == [n \in 0 .. (m + 1) |-> IF n = m + 1 THEN F[m + 1][g[m]] ELSE g[n]]
    <2>2. g[m] \in S /\ m + 1 \in 1 .. L
      OBVIOUS
    <2>3. F[m + 1][g[m]] \in S
      BY <2>2 DEF Steps
    <2>4. h \in [0 .. (m + 1) -> S]
      BY <2>3
    <2>5. h[0] = first
      BY <2>1
    <2>6. ASSUME NEW n \in 1 .. (m + 1) PROVE h[n] = F[n][h[n - 1]]
      <3>1. CASE n = m + 1
        <4>1. h[n - 1] = g[m] /\ h[n] = F[m + 1][g[m]]
          BY <3>1
        <4>2. QED
          BY <3>1, <4>1
      <3>2. CASE n \in 1 .. m
        <4>1. h[n] = g[n] /\ h[n - 1] = g[n - 1]
          BY <3>2
        <4>2. QED
          BY <2>1, <3>2, <4>1
      <3>3. QED
        BY <3>1, <3>2
    <2>7. Good(m + 1, h)
      <3> HIDE DEF h
      <3>1. QED
        BY <2>5, <2>6
    <2>8. m + 1 \in 0 .. L
      OBVIOUS
    <2>9. \E f \in [0 .. (m + 1) -> S] : Good(m + 1, f)
      <3> HIDE DEF Good, h
      <3>1. QED
        BY <2>4, <2>7
    <2>10. QED
      BY <2>8, <2>9
  <1>3. L \in T
    <2> HIDE DEF T
    <2>1. \A n \in 0 .. L : n \in T
      BY <1>1, <1>2, UpTo
    <2>2. QED
      BY <2>1
  <1>4. QED
    BY <1>3 DEF IsChain

LEMMA ChainTyped ==
  ASSUME NEW g, NEW L, NEW S, NEW first, NEW F, IsChain(g, L, S, first, F), NEW n \in 0 .. L
  PROVE  g[n] \in S /\ (n \in 1 .. L => g[n] = F[n][g[n - 1]])
  BY DEF IsChain

-----------------------------------------------------------------------------
(* Rows and messages.                                                      *)

\* An upsert of a whole row writes it, and nothing else.
LEMMA UpsertFull ==
  ASSUME NEW tab \in Tables, NEW d, FullRow(d)
  PROVE  /\ Upsert(tab, d) \in Tables
         /\ Upsert(tab, d)[d["id"]] # Absent
         /\ Upsert(tab, d)[d["id"]].v = d["v"]
         /\ \A k \in Keys : k # d["id"] => Upsert(tab, d)[k] = tab[k]
  <1> DEFINE row == [c \in {"v", "t"} |-> d[c]]
  <1>1. d["id"] \in Keys /\ "v" \in DOMAIN d /\ "t" \in DOMAIN d
    BY DEF FullRow, Columns
  <1>2. row \in Row /\ row.v = d["v"]
    BY DEF FullRow, Row
  <1>3. row # Absent
    BY <1>2, AbsentAssumption DEF Row
  <1>4. Upsert(tab, d) = [tab EXCEPT ![d["id"]] = row]
    BY <1>1 DEF Upsert
  <1>5. QED
    BY <1>1, <1>2, <1>3, <1>4 DEF Tables

\* So does an insert that does nothing about a row that is there.
LEMMA InsertFull ==
  ASSUME NEW tab \in Tables, NEW d, FullRow(d)
  PROVE  /\ InsertDoNothing(tab, d) \in Tables
         /\ InsertDoNothing(tab, d)[d["id"]] # Absent
         /\ \/ InsertDoNothing(tab, d) = tab
            \/ InsertDoNothing(tab, d)[d["id"]].v = d["v"]
         /\ \A k \in Keys : k # d["id"] => InsertDoNothing(tab, d)[k] = tab[k]
  BY UpsertFull DEF InsertDoNothing, FullRow

\* A delete takes one row away.
LEMMA DeleteFull ==
  ASSUME NEW tab \in Tables, NEW d, FullRow(d)
  PROVE  /\ DeleteRow(tab, d) \in Tables
         /\ DeleteRow(tab, d)[d["id"]] = Absent
         /\ \A k \in Keys : k # d["id"] => DeleteRow(tab, d)[k] = tab[k]
  BY DEF DeleteRow, FullRow, Tables

\* The tuple of a row is whole.
LEMMA FullTupleOf ==
  ASSUME NEW k \in Keys, NEW row \in Row
  PROVE  /\ FullTuple(k, row) \in Tuple
         /\ FullRow(FullTuple(k, row))
         /\ FullTuple(k, row)["id"] = k /\ FullTuple(k, row)["v"] = row.v
         /\ FullTuple(k, row)["t"] = row.t
         /\ \A c \in Columns : FullTuple(k, row)[c] # Unchanged
  BY UnchangedAssumption DEF FullTuple, FullRow, Tuple, Columns, Row

\* Nothing is left out of a tuple that was sent whole.
LEMMA DecodeWhole ==
  ASSUME NEW d, DOMAIN d = Columns, d = [c \in Columns |-> d[c]], \A c \in Columns : d[c] # Unchanged
  PROVE  DecodeWithColumn(d) = d
  BY DEF DecodeWithColumn

\* The message of an insert, of a delete and of an update decodes to the row the
\* statement needs: the TOAST value that was not sent comes from the old tuple.
LEMMA InsertDecodes ==
  ASSUME NEW k \in Keys, NEW row \in Row
  PROVE  /\ InsertMessage(k, row) \in Message
         /\ Decoded(InsertMessage(k, row)) = FullTuple(k, row)
  <1>1. NoTuple \in Tuple
    BY DEF NoTuple, Tuple, Columns
  <1>2. DecodeWithColumn(FullTuple(k, row)) = FullTuple(k, row)
    <2>1. FullTuple(k, row) = [c \in Columns |-> FullTuple(k, row)[c]]
      BY DEF FullTuple
    <2>2. QED
      BY <2>1, FullTupleOf, DecodeWhole
  <1>3. QED
    BY <1>1, <1>2, FullTupleOf DEF InsertMessage, Message, Decoded

LEMMA DeleteDecodes ==
  ASSUME NEW k \in Keys, NEW row \in Row
  PROVE  /\ DeleteMessage(k, row) \in Message
         /\ Decoded(DeleteMessage(k, row)) = FullTuple(k, row)
  <1>1. NoTuple \in Tuple
    BY DEF NoTuple, Tuple, Columns
  <1>2. DecodeWithColumn(FullTuple(k, row)) = FullTuple(k, row)
    <2>1. FullTuple(k, row) = [c \in Columns |-> FullTuple(k, row)[c]]
      BY DEF FullTuple
    <2>2. QED
      BY <2>1, FullTupleOf, DecodeWhole
  <1>3. QED
    BY <1>1, <1>2, FullTupleOf DEF DeleteMessage, Message, Decoded

LEMMA UpdateDecodes ==
  ASSUME NEW k \in Keys, NEW old \in Row, NEW to \in Keys, NEW row \in Row,
         NEW toasted \in BOOLEAN, toasted => row.t = old.t
  PROVE  /\ UpdateMessage(k, old, to, row, toasted) \in Message
         /\ Decoded(UpdateMessage(k, old, to, row, toasted)) = FullTuple(to, row)
  <1> DEFINE m   == UpdateMessage(k, old, to, row, toasted)
             new == [FullTuple(to, row) EXCEPT !["t"] = IF toasted THEN Unchanged ELSE @]
  <1>1. m.op = "update" /\ m.old = FullTuple(k, old) /\ m.new = new
    BY DEF UpdateMessage
  <1>2. new \in Tuple
    <2>1. FullTuple(to, row) \in Tuple
      BY FullTupleOf
    <2>2. QED
      BY <2>1 DEF Tuple, Columns
  <1>3. m \in Message
    BY <1>2, FullTupleOf DEF UpdateMessage, Message
  <1>4. FillToast(new, FullTuple(k, old)) = FullTuple(to, row)
    <2>1. FullTuple(to, row) = [c \in Columns |-> FullTuple(to, row)[c]]
      BY DEF FullTuple
    <2>2. ASSUME NEW c \in Columns
          PROVE  (IF new[c] = Unchanged THEN FullTuple(k, old)[c] ELSE new[c]) = FullTuple(to, row)[c]
      <3>1. CASE c = "t"
        BY <2>1, <3>1, FullTupleOf DEF Columns
      <3>2. CASE c # "t"
        BY <2>1, <3>2, FullTupleOf DEF Columns
      <3>3. QED
        BY <3>1, <3>2
    <2>3. QED
      BY <2>1, <2>2 DEF FillToast
  <1>5. DecodeWithColumn(FullTuple(to, row)) = FullTuple(to, row)
    <2>1. FullTuple(to, row) = [c \in Columns |-> FullTuple(to, row)[c]]
      BY DEF FullTuple
    <2>2. QED
      BY <2>1, FullTupleOf, DecodeWhole
  <1>6. QED
    BY <1>1, <1>3, <1>4, <1>5 DEF Decoded

-----------------------------------------------------------------------------
(* The batch and the chunk.                                                *)

\* A statement for an item that can be written yields a table.
LEMMA WriteFull ==
  ASSUME NEW tab \in Tables, NEW it, NEW keep \in BOOLEAN,
         it.source = "cdc" => FullRow(Decoded(log[it.pos])),
         it.source # "cdc" => FullRow(it.data)
  PROVE  Write(tab, it, keep) \in Tables
  <1>1. CASE it.source = "cdc"
    BY <1>1, UpsertFull, DeleteFull DEF Write, Execute
  <1>2. CASE it.source # "cdc"
    BY <1>2, UpsertFull, InsertFull DEF Write
  <1>3. QED
    BY <1>1, <1>2

\* What the buffer's items need for that.
LEMMA ItemsWritable ==
  ASSUME NEW i \in Instances, inst \in [Instances -> Instance], LogOK, ItemsOK(i),
         NEW n \in DOMAIN inst[i].buffer
  PROVE  LET it == inst[i].buffer[n]
         IN /\ it \in Item
            /\ it.source # "cdc" => it.source = "snapshot" /\ FullRow(it.data)
            /\ it.source = "cdc" => it.pos \in DOMAIN log /\ FullRow(Decoded(log[it.pos]))
  <1>1. inst[i].buffer \in Seq(Item)
    BY DEF Instance
  <1>2. inst[i].buffer[n] \in Item
    BY <1>1
  <1>3. inst[i].buffer[n].source \in {"snapshot", "cdc"}
    BY <1>2 DEF Item
  <1>4. QED
    BY <1>2, <1>3 DEF ItemsOK, LogOK

\* The batch is written one statement after the other.
LEMMA WrittenStep ==
  ASSUME NEW i \in Instances, inst \in [Instances -> Instance], target \in Tables,
         LogOK, ItemsOK(i), NEW keep \in BOOLEAN
  PROVE  /\ Written(i, keep)[0] = target
         /\ \A n \in 0 .. Len(inst[i].buffer) : Written(i, keep)[n] \in Tables
         /\ \A n \in 1 .. Len(inst[i].buffer) :
              Written(i, keep)[n] = Write(Written(i, keep)[n - 1], inst[i].buffer[n], keep)
  <1> DEFINE L == Len(inst[i].buffer)
             W == Written(i, keep)
             F == [n \in 1 .. L |-> [tab \in Tables |-> Write(tab, inst[i].buffer[n], keep)]]
  <1>1. L \in Nat /\ DOMAIN inst[i].buffer = 1 .. L
    BY DEF Instance
  <1>2. \A tab \in Tables : \A n \in 1 .. L : Write(tab, inst[i].buffer[n], keep) \in Tables
    <2>1. SUFFICES ASSUME NEW tab \in Tables, NEW n \in 1 .. L
                   PROVE  Write(tab, inst[i].buffer[n], keep) \in Tables
      OBVIOUS
    <2>2. n \in DOMAIN inst[i].buffer
      BY <1>1
    <2>3. /\ inst[i].buffer[n].source # "cdc" => FullRow(inst[i].buffer[n].data)
          /\ inst[i].buffer[n].source = "cdc" => FullRow(Decoded(log[inst[i].buffer[n].pos]))
      BY <2>2, ItemsWritable
    <2>4. QED
      BY <2>3, WriteFull
  <1>3. F \in Steps(L, Tables)
    BY <1>2 DEF Steps
  <1>4. \A tab \in Tables : \A n \in 1 .. L : F[n][tab] = Write(tab, inst[i].buffer[n], keep)
    OBVIOUS
  <1>5. PICK g : IsChain(g, L, Tables, target, F)
    <2> HIDE DEF F, L
    <2>1. QED
      BY <1>1, <1>3, Chain
  <1>6. g = [n \in 0 .. L |-> IF n = 0 THEN target ELSE Write(g[n - 1], inst[i].buffer[n], keep)]
    <2>1. ASSUME NEW n \in 0 .. L
          PROVE  g[n] = IF n = 0 THEN target ELSE Write(g[n - 1], inst[i].buffer[n], keep)
      <3>1. CASE n = 0
        BY <1>5, <3>1 DEF IsChain
      <3>2. CASE n # 0
        <4>1. n \in 1 .. L /\ n - 1 \in 0 .. L
          BY <1>1, <3>2
        <4>2. g[n - 1] \in Tables
          BY <1>5, <4>1 DEF IsChain
        <4>3. QED
          BY <1>4, <1>5, <3>2, <4>1, <4>2 DEF IsChain
      <3>3. QED
        BY <3>1, <3>2
    <2> HIDE DEF F, L
    <2>2. QED
      BY <1>5, <2>1 DEF IsChain
  <1>7. W = [n \in 0 .. L |-> IF n = 0 THEN target ELSE Write(W[n - 1], inst[i].buffer[n], keep)]
    BY <1>6 DEF Written
  <1> HIDE DEF W, F
  <1>8. W[0] = target /\ \A n \in 1 .. L : W[n] = Write(W[n - 1], inst[i].buffer[n], keep)
    <2> HIDE DEF L
    <2>1. QED
      BY <1>1, <1>7
  <1>9. \A n \in 0 .. L : W[n] \in Tables
    <2> DEFINE T == {n \in 0 .. L : W[n] \in Tables}
    <2>1. 0 \in T
      BY <1>1, <1>8
    <2>2. ASSUME NEW n \in 0 .. (L - 1), n \in T PROVE n + 1 \in T
      <3>1. n + 1 \in 1 .. L /\ (n + 1) - 1 = n /\ W[n] \in Tables
        BY <1>1, <2>2
      <3>2. W[n + 1] = Write(W[n], inst[i].buffer[n + 1], keep)
        BY <1>8, <3>1
      <3>3. QED
        BY <1>1, <1>2, <3>1, <3>2
    <2>3. \A n \in 0 .. L : n \in T
      <3> HIDE DEF T, L
      <3>1. QED
        BY <1>1, <2>1, <2>2, UpTo
    <2>4. QED
      BY <2>3
  <1>10. QED
    BY <1>8, <1>9 DEF W

\* The rows that are read from a chunk are rows of the exported snapshot.
LEMMA RowsOfView ==
  ASSUME NEW c \in Chunks, job \in Job
  PROVE  /\ RowsOf(c) \in Seq(Item)
         /\ \A n \in DOMAIN RowsOf(c) :
              /\ RowsOf(c)[n].source = "snapshot"
              /\ FullRow(RowsOf(c)[n].data)
              /\ OfView(RowsOf(c)[n])
  <1> DEFINE keys == ChunkRows[c]
             L == Len(keys)
             Read == {it \in Item : it.source = "snapshot" /\ FullRow(it.data) /\ OfView(it)}
             Next1(rows, n) == IF job.view[keys[n]] = Absent THEN rows
                               ELSE Append(rows, SnapshotItem(c, keys[n]))
             F == [n \in 1 .. L |-> [rows \in Seq(Read) |-> Next1(rows, n)]]
  <1>1. L \in Nat /\ DOMAIN keys = 1 .. L /\ \A n \in 1 .. L : keys[n] \in Keys
    BY ChunkRowsAssumption DEF Chunks
  <1>2. ASSUME NEW k \in Keys, job.view[k] # Absent PROVE SnapshotItem(c, k) \in Read
    <2>1. job.view[k] \in Row
      BY <1>2 DEF Job, Tables
    <2>2. /\ FullTuple(k, job.view[k]) \in Tuple /\ FullRow(FullTuple(k, job.view[k]))
          /\ FullTuple(k, job.view[k])["id"] = k /\ FullTuple(k, job.view[k])["v"] = job.view[k].v
      BY <2>1, FullTupleOf
    <2> DEFINE it == SnapshotItem(c, k)
    <2>3. it.source = "snapshot" /\ it.data = FullTuple(k, job.view[k])
      BY DEF SnapshotItem
    <2>4. it \in Item
      BY <2>2 DEF SnapshotItem, Item
    <2>5. OfView(it)
      BY <1>2, <2>2, <2>3 DEF OfView
    <2> HIDE DEF it
    <2>6. QED
      BY <2>2, <2>3, <2>4, <2>5 DEF it
  <1> HIDE DEF Read
  <1>3. \A rows \in Seq(Read) : \A n \in 1 .. L : Next1(rows, n) \in Seq(Read)
    BY <1>1, <1>2
  <1>4. F \in Steps(L, Seq(Read))
    <2> HIDE DEF Next1
    <2>1. QED
      BY <1>3 DEF Steps
  <1>5. \A rows \in Seq(Read) : \A n \in 1 .. L : F[n][rows] = Next1(rows, n)
    <2> HIDE DEF Next1
    <2>1. QED
      OBVIOUS
  <1>6. PICK g : IsChain(g, L, Seq(Read), << >>, F)
    <2> HIDE DEF F, L
    <2>1. << >> \in Seq(Read)
      OBVIOUS
    <2>2. QED
      BY <1>1, <1>4, <2>1, Chain
  <1>7. g = [n \in 0 .. L |-> IF n = 0 THEN << >> ELSE Next1(g[n - 1], n)]
    <2>1. ASSUME NEW n \in 0 .. L
          PROVE  g[n] = IF n = 0 THEN << >> ELSE Next1(g[n - 1], n)
      <3> HIDE DEF F, Next1, L
      <3>1. CASE n = 0
        BY <1>6, <3>1 DEF IsChain
      <3>2. CASE n # 0
        <4>1. n \in 1 .. L /\ n - 1 \in 0 .. L
          BY <1>1, <3>2
        <4>2. g[n - 1] \in Seq(Read)
          BY <1>6, <4>1, ChainTyped, SMTT(60)
        <4>3. QED
          <5>1. g[n] = F[n][g[n - 1]]
            BY <1>6, <4>1, ChainTyped
          <5>2. QED
            BY <1>5, <3>2, <4>1, <4>2, <5>1
      <3>3. QED
        BY <3>1, <3>2
    <2> HIDE DEF F, L, Next1
    <2>2. QED
      BY <1>6, <2>1 DEF IsChain
  <1> DEFINE r == CHOOSE r : r = [n \in 0 .. L |-> IF n = 0 THEN << >>
                                   ELSE IF job.view[ChunkRows[c][n]] = Absent THEN r[n - 1]
                                   ELSE Append(r[n - 1], SnapshotItem(c, ChunkRows[c][n]))]
  <1>8. r = [n \in 0 .. L |-> IF n = 0 THEN << >> ELSE Next1(r[n - 1], n)]
    BY <1>7, ZenonT(60)
  <1>9. RowsOf(c) = r[L]
    BY DEF RowsOf
  <1> HIDE DEF r, F, Next1
  <1>10. \A n \in 0 .. L : r[n] \in Seq(Read)
    <2> DEFINE T == {n \in 0 .. L : r[n] \in Seq(Read)}
    <2> HIDE DEF L
    <2>0. << >> \in Seq(Read)
      OBVIOUS
    <2>1. 0 \in T
      BY <1>1, <1>8, <2>0
    <2>2. ASSUME NEW n \in 0 .. (L - 1), n \in T PROVE n + 1 \in T
      <3>1. n + 1 \in 1 .. L /\ n + 1 \in 0 .. L /\ (n + 1) - 1 = n /\ n + 1 # 0 /\ r[n] \in Seq(Read)
        BY <1>1, <2>2
      <3>2. r[n + 1] = Next1(r[n], n + 1)
        BY <1>8, <3>1
      <3>3. QED
        BY <1>3, <3>1, <3>2
    <2>3. \A n \in 0 .. L : n \in T
      <3> HIDE DEF T
      <3>1. QED
        BY <1>1, <2>1, <2>2, UpTo
    <2>4. QED
      BY <2>3
  <1>11. RowsOf(c) \in Seq(Read)
    BY <1>1, <1>9, <1>10
  <1>12. \A n \in DOMAIN RowsOf(c) : RowsOf(c)[n] \in Read
    BY <1>11
  <1>13. Read \subseteq Item
    BY DEF Read
  <1>14. RowsOf(c) \in Seq(Item)
    BY <1>11, <1>13
  <1>15. QED
    BY <1>12, <1>14 DEF Read

\* The last change of the batch that is acknowledged.
LEMMA LastCdc ==
  ASSUME NEW i \in Instances, inst[i].size \in Nat, CdcIn(i) # {}
  PROVE  /\ Max(CdcIn(i)) \in CdcIn(i)
         /\ \A n \in CdcIn(i) : n <= Max(CdcIn(i))
  <1> DEFINE D == CdcIn(i)
             s == inst[i].size
             T == {s - y : y \in D}
  <1>1. D \subseteq 1 .. s
    BY DEF CdcIn
  <1>2. T \subseteq Nat /\ T # {}
    BY <1>1
  <1> HIDE DEF D, s
  <1>3. PICK t \in T : \A u \in T : t <= u
    <2> HIDE DEF T
    <2>1. QED
      BY <1>2, LeastNat
  <1>4. PICK x \in D : t = s - x
    OBVIOUS
  <1>5. s \in Nat
    BY DEF s
  <1>6. ASSUME NEW y \in D PROVE x >= y
    <2>1. s - y \in T /\ x \in Nat /\ y \in Nat
      BY <1>1
    <2>2. t <= s - y
      BY <1>3, <2>1
    <2> HIDE DEF T
    <2>3. QED
      BY <1>4, <1>5, <2>1, <2>2
  <1>7. Max(D) \in D /\ \A y \in D : Max(D) >= y
    BY <1>6 DEF Max
  <1>8. QED
    BY <1>1, <1>5, <1>7 DEF D

-----------------------------------------------------------------------------
(* What is kept in memory.                                                 *)

TInv == TypeOK /\ ShapeInv

\* What a process keeps has its type.
LEMMA InstanceFields ==
  ASSUME inst \in [Instances -> Instance], NEW i \in Instances
  PROVE  /\ inst[i] \in Instance
         /\ inst[i].pc \in PCs /\ inst[i].chunk \in {0} \cup Chunks
         /\ inst[i].rows \in Seq(Item) /\ inst[i].buffer \in Seq(Item)
         /\ inst[i].phase \in {"collect", "replay", "ack"} /\ inst[i].size \in 0 .. ChunkSize
         /\ inst[i].size \in Nat
         /\ inst[i].fromSnapshot \in BOOLEAN /\ inst[i].pos \in Nat
  BY SizesAssumption DEF Instance

\* So has an item.
LEMMA ItemFields ==
  ASSUME NEW it \in Item
  PROVE  it.source \in {"snapshot", "cdc"} /\ it.pos \in Nat
  BY DEF Item

\* A step that leaves rows, buffer and batch of a process alone keeps what is said of
\* them.
LEMMA ItemsKept ==
  ASSUME NEW x \in Instances,
         inst'[x].rows = inst[x].rows, inst'[x].buffer = inst[x].buffer,
         inst'[x].phase = inst[x].phase, inst'[x].size = inst[x].size,
         inst[x].pc = "stream" => inst'[x].pc = "stream",
         DOMAIN log \subseteq DOMAIN log', ItemsOK(x), BatchOK(x)
  PROVE  (ItemsOK(x) /\ BatchOK(x))'
  <1>1. CdcIn(x)' = CdcIn(x)
    BY DEF CdcIn
  <1>2. BatchOK(x)'
    BY <1>1 DEF BatchOK
  <1>3. ItemsOK(x)'
    BY DEF ItemsOK, At
  <1>4. QED
    BY <1>2, <1>3

\* A step of process i that leaves its rows, its buffer and its batch alone.
LEMMA ControlStep ==
  ASSUME TInv, NEW i \in Instances, log' = log,
         inst' \in [Instances -> Instance], \A x \in Instances : x # i => inst'[x] = inst[x],
         inst'[i].rows = inst[i].rows, inst'[i].buffer = inst[i].buffer,
         inst'[i].phase = inst[i].phase, inst'[i].size = inst[i].size,
         inst[i].pc = "stream" => inst'[i].pc = "stream"
  PROVE  /\ \A x \in Instances : Len(inst'[x].buffer) <= BufferSize
         /\ LogOK' /\ \A x \in Instances : (ItemsOK(x) /\ BatchOK(x))'
  <1>1. LogOK'
    BY DEF TInv, ShapeInv, LogOK
  <1>2. ASSUME NEW x \in Instances
        PROVE  (ItemsOK(x) /\ BatchOK(x))' /\ inst'[x].buffer = inst[x].buffer
    <2>1. /\ inst'[x].rows = inst[x].rows /\ inst'[x].buffer = inst[x].buffer
          /\ inst'[x].phase = inst[x].phase /\ inst'[x].size = inst[x].size
          /\ inst[x].pc = "stream" => inst'[x].pc = "stream"
      OBVIOUS
    <2>2. ItemsOK(x) /\ BatchOK(x)
      BY DEF TInv, ShapeInv
    <2>3. QED
      BY <2>1, <2>2, ItemsKept
  <1>3. QED
    BY <1>1, <1>2 DEF TInv, TypeOK

LEMMA TStartCompleted ==
  ASSUME TInv, NEW i \in Instances, StartCompleted(i)
  PROVE  TInv'
  <1>0. TypeOK /\ ShapeInv
    BY DEF TInv
  <1>1. inst \in [Instances -> Instance]
    BY <1>0 DEF TypeOK
  <1>2. /\ inst' \in [Instances -> Instance]
        /\ \A x \in Instances : x # i => inst'[x] = inst[x]
        /\ inst'[i] = [inst[i] EXCEPT !.pc = inst'[i].pc]
        /\ inst'[i].pc = IF scenario.only THEN "close" ELSE "wait"
    <2>1. inst' = [inst EXCEPT ![i] = [inst[i] EXCEPT !.pc = IF scenario.only THEN "close" ELSE "wait"]]
      BY <1>1 DEF StartCompleted
    <2>2. [inst[i] EXCEPT !.pc = IF scenario.only THEN "close" ELSE "wait"] \in Instance
      BY <1>1 DEF Instance, PCs
    <2> HIDE DEF Instance
    <2>3. QED
      BY <1>1, <2>1, <2>2 DEF Instance
  <1>3. /\ inst'[i].rows = inst[i].rows /\ inst'[i].buffer = inst[i].buffer
        /\ inst'[i].phase = inst[i].phase /\ inst'[i].size = inst[i].size
        /\ inst'[i].pos = inst[i].pos /\ inst[i].pc # "stream"
    BY <1>1, <1>2 DEF Instance, StartCompleted, At
  <1>4. /\ \A x \in Instances : Len(inst'[x].buffer) <= BufferSize
        /\ LogOK' /\ \A x \in Instances : (ItemsOK(x) /\ BatchOK(x))'
    BY <1>2, <1>3, ControlStep DEF StartCompleted
  <1>5. TypeOK'
    BY <1>0, <1>2, <1>3, <1>4 DEF TypeOK, StartCompleted, history
  <1>6. SlotOK'
    BY <1>0, <1>2 DEF ShapeInv, SlotOK, StartCompleted, At
  <1>7. QED
    BY <1>4, <1>5, <1>6 DEF TInv, ShapeInv

LEMMA TCreateSlot ==
  ASSUME TInv, NEW i \in Instances, CreateSlot(i)
  PROVE  TInv'
  <1>0. TypeOK /\ ShapeInv
    BY DEF TInv
  <1>1. inst \in [Instances -> Instance]
    BY <1>0 DEF TypeOK
  <1>2. /\ inst' \in [Instances -> Instance]
        /\ \A x \in Instances : x # i => inst'[x] = inst[x]
        /\ inst'[i] = [inst[i] EXCEPT !.pc = inst'[i].pc]
        /\ inst'[i].pc = "elect"
    <2>1. inst' = [inst EXCEPT ![i] = [inst[i] EXCEPT !.pc = "elect"]]
      BY <1>1 DEF CreateSlot
    <2>2. [inst[i] EXCEPT !.pc = "elect"] \in Instance
      BY <1>1 DEF Instance, PCs
    <2> HIDE DEF Instance
    <2>3. QED
      BY <1>1, <2>1, <2>2 DEF Instance
  <1>3. /\ inst'[i].rows = inst[i].rows /\ inst'[i].buffer = inst[i].buffer
        /\ inst'[i].phase = inst[i].phase /\ inst'[i].size = inst[i].size
        /\ inst'[i].pos = inst[i].pos /\ inst[i].pc # "stream"
    BY <1>1, <1>2 DEF Instance, CreateSlot, At
  <1>4. /\ \A x \in Instances : Len(inst'[x].buffer) <= BufferSize
        /\ LogOK' /\ \A x \in Instances : (ItemsOK(x) /\ BatchOK(x))'
    BY <1>2, <1>3, ControlStep DEF CreateSlot
  <1>5. /\ confirmed' \in {NoSlot} \cup (0 .. Len(log))
        /\ scenario.only => confirmed' = confirmed
        /\ ~ scenario.only => confirmed' # NoSlot
    <2>1. Len(log) \in Nat
      BY <1>0 DEF TypeOK
    <2>2. QED
      BY <1>0, <2>1 DEF TypeOK, CreateSlot, NoSlot
  <1>6. TypeOK'
    BY <1>0, <1>2, <1>3, <1>4, <1>5 DEF TypeOK, CreateSlot, history
  <1>7. SlotOK'
    <2>1. \A x \in Instances : x # i => inst'[x].pc = inst[x].pc /\ inst'[x].fromSnapshot = inst[x].fromSnapshot
      BY <1>2
    <2>2. UNCHANGED <<scenario, job>>
      BY DEF CreateSlot
    <2>3. QED
      BY <1>0, <1>2, <1>5, <2>1, <2>2 DEF ShapeInv, SlotOK, At
  <1>8. QED
    BY <1>4, <1>6, <1>7 DEF TInv, ShapeInv

LEMMA TElect ==
  ASSUME TInv, NEW i \in Instances, Elect(i)
  PROVE  TInv'
  <1>0. TypeOK /\ ShapeInv
    BY DEF TInv
  <1>1. inst \in [Instances -> Instance]
    BY <1>0 DEF TypeOK
  <1>2. /\ inst' \in [Instances -> Instance]
        /\ \A x \in Instances : x # i => inst'[x] = inst[x]
        /\ inst'[i] = [inst[i] EXCEPT !.pc = inst'[i].pc]
        /\ inst'[i].pc = "export"
    <2>1. inst' = [inst EXCEPT ![i] = [inst[i] EXCEPT !.pc = "export"]]
      BY <1>1 DEF Elect
    <2>2. [inst[i] EXCEPT !.pc = "export"] \in Instance
      BY <1>1 DEF Instance, PCs
    <2> HIDE DEF Instance
    <2>3. QED
      BY <1>1, <2>1, <2>2 DEF Instance
  <1>3. /\ inst'[i].rows = inst[i].rows /\ inst'[i].buffer = inst[i].buffer
        /\ inst'[i].phase = inst[i].phase /\ inst'[i].size = inst[i].size
        /\ inst'[i].pos = inst[i].pos /\ inst[i].pc # "stream" /\ inst'[i].fromSnapshot = inst[i].fromSnapshot
    BY <1>1, <1>2 DEF Instance, Elect, At
  <1>4. /\ \A x \in Instances : Len(inst'[x].buffer) <= BufferSize
        /\ LogOK' /\ \A x \in Instances : (ItemsOK(x) /\ BatchOK(x))'
    BY <1>2, <1>3, ControlStep DEF Elect
  <1>5. /\ job' \in Job /\ job'.lsn = Len(log) /\ job'.state = "preparing" /\ job'.coordinator = i
        /\ Len(log) \in Nat
    <2>1. job \in Job /\ log \in Seq(Message)
      BY <1>0 DEF TypeOK
    <2>2. Len(log) \in Nat
      BY <2>1
    <2>3. QED
      BY <2>1, <2>2 DEF Elect, Job
  <1>6. chunks' \in [Chunks -> {"pending", "completed"} \cup Instances]
    BY DEF Elect
  <1>7. TypeOK'
    BY <1>0, <1>2, <1>3, <1>4, <1>5, <1>6 DEF TypeOK, Elect, history
  <1>8. SlotOK'
    <2>1. /\ scenario'.only => confirmed' = NoSlot
          /\ ~ scenario'.only => confirmed' # NoSlot
      BY <1>0 DEF ShapeInv, SlotOK, Elect
    <2>2. ASSUME NEW x \in Instances, x # i
          PROVE  /\ inst'[x].pc \notin {"stream", "export"}
                 /\ inst'[x].pc = "wait" => ~ scenario.only /\ inst'[x].fromSnapshot
                 /\ inst'[x].pc = "work" => inst'[x].fromSnapshot
      BY <1>0, <1>2, <2>2, NobodyAssumption DEF ShapeInv, SlotOK, Elect, At
    <2>3. scenario' = scenario
      BY DEF Elect
    <2>4. QED
      BY <1>2, <1>5, <2>1, <2>2, <2>3 DEF SlotOK, At
  <1>9. QED
    BY <1>4, <1>7, <1>8 DEF TInv, ShapeInv

LEMMA TExportSnapshot ==
  ASSUME TInv, NEW i \in Instances, ExportSnapshot(i)
  PROVE  TInv'
  <1>0. TypeOK /\ ShapeInv
    BY DEF TInv
  <1>1. inst \in [Instances -> Instance]
    BY <1>0 DEF TypeOK
  <1>2. /\ inst' \in [Instances -> Instance]
        /\ \A x \in Instances : x # i => inst'[x] = inst[x]
        /\ inst'[i] = [inst[i] EXCEPT !.pc = "work", !.fromSnapshot = TRUE]
    <2>1. inst' = [inst EXCEPT ![i] = [inst[i] EXCEPT !.pc = "work", !.fromSnapshot = TRUE]]
      BY <1>1 DEF ExportSnapshot
    <2>2. [inst[i] EXCEPT !.pc = "work", !.fromSnapshot = TRUE] \in Instance
      BY <1>1 DEF Instance, PCs
    <2> HIDE DEF Instance
    <2>3. QED
      BY <1>1, <2>1, <2>2
  <1>3. /\ inst'[i].rows = inst[i].rows /\ inst'[i].buffer = inst[i].buffer
        /\ inst'[i].phase = inst[i].phase /\ inst'[i].size = inst[i].size
        /\ inst'[i].pos = inst[i].pos /\ inst[i].pc # "stream" /\ inst'[i].pc = "work"
        /\ inst'[i].fromSnapshot
    BY <1>1, <1>2 DEF Instance, ExportSnapshot, At
  <1>4. /\ \A x \in Instances : Len(inst'[x].buffer) <= BufferSize
        /\ LogOK' /\ \A x \in Instances : (ItemsOK(x) /\ BatchOK(x))'
    BY <1>2, <1>3, ControlStep DEF ExportSnapshot
  <1>5. /\ job' \in Job /\ job'.lsn = job.lsn /\ job'.state = "open" /\ job'.coordinator = job.coordinator
    BY <1>0 DEF TypeOK, ExportSnapshot, Job
  <1>6. TypeOK'
    BY <1>0, <1>2, <1>3, <1>4, <1>5 DEF TypeOK, ExportSnapshot, Mishaps
  <1>7. SlotOK'
    <2>1. job.state = "preparing" /\ job.coordinator = i
      BY <1>0 DEF ShapeInv, SlotOK, ExportSnapshot
    <2>2. ASSUME NEW x \in Instances, x # i
          PROVE  /\ inst'[x].pc \notin {"stream", "export"}
                 /\ inst'[x].pc = "wait" => ~ scenario.only /\ inst'[x].fromSnapshot
                 /\ inst'[x].pc = "work" => inst'[x].fromSnapshot
                 /\ inst'[x].pc = inst[x].pc
      BY <1>0, <1>2, <2>1, <2>2 DEF ShapeInv, SlotOK, At
    <2>3. QED
      BY <1>0, <1>3, <1>5, <2>1, <2>2 DEF ShapeInv, SlotOK, At, ExportSnapshot
  <1>8. QED
    BY <1>4, <1>6, <1>7 DEF TInv, ShapeInv

LEMMA TJoin ==
  ASSUME TInv, NEW i \in Instances, Join(i)
  PROVE  TInv'
  <1>0. TypeOK /\ ShapeInv
    BY DEF TInv
  <1>1. inst \in [Instances -> Instance]
    BY <1>0 DEF TypeOK
  <1>2. /\ inst' \in [Instances -> Instance]
        /\ \A x \in Instances : x # i => inst'[x] = inst[x]
        /\ inst'[i] = [inst[i] EXCEPT !.pc = "work", !.fromSnapshot = TRUE]
    <2>1. inst' = [inst EXCEPT ![i] = [inst[i] EXCEPT !.pc = "work", !.fromSnapshot = TRUE]]
      BY <1>1 DEF Join
    <2>2. [inst[i] EXCEPT !.pc = "work", !.fromSnapshot = TRUE] \in Instance
      BY <1>1 DEF Instance, PCs
    <2> HIDE DEF Instance
    <2>3. QED
      BY <1>1, <2>1, <2>2
  <1>3. /\ inst'[i].rows = inst[i].rows /\ inst'[i].buffer = inst[i].buffer
        /\ inst'[i].phase = inst[i].phase /\ inst'[i].size = inst[i].size
        /\ inst'[i].pos = inst[i].pos /\ inst[i].pc # "stream" /\ inst'[i].pc = "work"
        /\ inst'[i].fromSnapshot
    BY <1>1, <1>2 DEF Instance, Join, At
  <1>4. /\ \A x \in Instances : Len(inst'[x].buffer) <= BufferSize
        /\ LogOK' /\ \A x \in Instances : (ItemsOK(x) /\ BatchOK(x))'
    BY <1>2, <1>3, ControlStep DEF Join
  <1>5. TypeOK'
    BY <1>0, <1>2, <1>3, <1>4 DEF TypeOK, Join, history
  <1>6. SlotOK'
    BY <1>0, <1>2, <1>3 DEF ShapeInv, SlotOK, At, Join
  <1>7. QED
    BY <1>4, <1>5, <1>6 DEF TInv, ShapeInv

LEMMA TMarkChunkCompleted ==
  ASSUME TInv, NEW i \in Instances, MarkChunkCompleted(i)
  PROVE  TInv'
  <1>0. TypeOK /\ ShapeInv
    BY DEF TInv
  <1>1. inst \in [Instances -> Instance]
    BY <1>0 DEF TypeOK
  <1>2. /\ inst' \in [Instances -> Instance]
        /\ \A x \in Instances : x # i => inst'[x] = inst[x]
        /\ inst'[i] = [inst[i] EXCEPT !.chunk = 0]
    <2>1. inst' = [inst EXCEPT ![i] = [inst[i] EXCEPT !.chunk = 0]]
      BY <1>1 DEF MarkChunkCompleted
    <2>2. [inst[i] EXCEPT !.chunk = 0] \in Instance
      BY <1>1 DEF Instance
    <2> HIDE DEF Instance
    <2>3. QED
      BY <1>1, <2>1, <2>2
  <1>3. /\ inst'[i].rows = inst[i].rows /\ inst'[i].buffer = inst[i].buffer
        /\ inst'[i].phase = inst[i].phase /\ inst'[i].size = inst[i].size
        /\ inst'[i].pos = inst[i].pos /\ inst'[i].pc = inst[i].pc
        /\ inst'[i].fromSnapshot = inst[i].fromSnapshot
    BY <1>1, <1>2 DEF Instance
  <1>4. /\ \A x \in Instances : Len(inst'[x].buffer) <= BufferSize
        /\ LogOK' /\ \A x \in Instances : (ItemsOK(x) /\ BatchOK(x))'
    BY <1>2, <1>3, ControlStep DEF MarkChunkCompleted
  <1>5. chunks' \in [Chunks -> {"pending", "completed"} \cup Instances]
    BY <1>0 DEF TypeOK, MarkChunkCompleted, history
  <1>6. TypeOK'
    BY <1>0, <1>2, <1>3, <1>4, <1>5 DEF TypeOK, MarkChunkCompleted, history
  <1>7. \A x \in Instances : inst'[x].pc = inst[x].pc /\ inst'[x].fromSnapshot = inst[x].fromSnapshot
    BY <1>2, <1>3
  <1>8. SlotOK'
    BY <1>0, <1>7 DEF ShapeInv, SlotOK, At, MarkChunkCompleted
  <1>9. QED
    BY <1>4, <1>6, <1>8 DEF TInv, ShapeInv

LEMMA TFinishSnapshot ==
  ASSUME TInv, NEW i \in Instances, FinishSnapshot(i)
  PROVE  TInv'
  <1>0. TypeOK /\ ShapeInv
    BY DEF TInv
  <1>1. inst \in [Instances -> Instance]
    BY <1>0 DEF TypeOK
  <1>2. /\ inst' \in [Instances -> Instance]
        /\ \A x \in Instances : x # i => inst'[x] = inst[x]
        /\ inst'[i] = [inst[i] EXCEPT !.pc = inst'[i].pc]
        /\ inst'[i].pc = IF scenario.only THEN "close" ELSE "wait"
    <2>1. inst' = [inst EXCEPT ![i] = [inst[i] EXCEPT !.pc = IF scenario.only THEN "close" ELSE "wait"]]
      BY <1>1 DEF FinishSnapshot
    <2>2. [inst[i] EXCEPT !.pc = IF scenario.only THEN "close" ELSE "wait"] \in Instance
      BY <1>1 DEF Instance, PCs
    <2> HIDE DEF Instance
    <2>3. QED
      BY <1>1, <2>1, <2>2 DEF Instance
  <1>3. /\ inst'[i].rows = inst[i].rows /\ inst'[i].buffer = inst[i].buffer
        /\ inst'[i].phase = inst[i].phase /\ inst'[i].size = inst[i].size
        /\ inst'[i].pos = inst[i].pos /\ inst[i].pc # "stream" /\ inst'[i].fromSnapshot = inst[i].fromSnapshot
    BY <1>1, <1>2 DEF Instance, FinishSnapshot, At
  <1>4. /\ \A x \in Instances : Len(inst'[x].buffer) <= BufferSize
        /\ LogOK' /\ \A x \in Instances : (ItemsOK(x) /\ BatchOK(x))'
    BY <1>2, <1>3, ControlStep DEF FinishSnapshot
  <1>5. /\ job' \in Job /\ job'.lsn = job.lsn
        /\ job' = job \/ (job'.state = "completed" /\ job.state # "preparing")
    BY <1>0 DEF TypeOK, FinishSnapshot, Job
  <1>6. TypeOK'
    BY <1>0, <1>2, <1>3, <1>4, <1>5 DEF TypeOK, FinishSnapshot, history
  <1>7. SlotOK'
    <2>1. UNCHANGED <<scenario, confirmed>> /\ At(i, "work")
      BY DEF FinishSnapshot
    <2>2. inst[i].fromSnapshot /\ job.state # "none"
      BY <1>0, <2>1 DEF ShapeInv, SlotOK
    <2>3. QED
      BY <1>0, <1>2, <1>3, <1>5, <2>1, <2>2 DEF ShapeInv, SlotOK, At
  <1>8. QED
    BY <1>4, <1>6, <1>7 DEF TInv, ShapeInv

LEMMA TProduceDone ==
  ASSUME TInv, NEW i \in Instances, ProduceDone(i)
  PROVE  TInv'
  <1>0. TypeOK /\ ShapeInv
    BY DEF TInv
  <1>1. inst \in [Instances -> Instance]
    BY <1>0 DEF TypeOK
  <1>2. /\ inst' \in [Instances -> Instance]
        /\ \A x \in Instances : x # i => inst'[x] = inst[x]
        /\ inst'[i] = [inst[i] EXCEPT !.pc = "done"]
    <2>1. inst' = [inst EXCEPT ![i] = [inst[i] EXCEPT !.pc = "done"]]
      BY <1>1 DEF ProduceDone
    <2>2. [inst[i] EXCEPT !.pc = "done"] \in Instance
      BY <1>1 DEF Instance, PCs
    <2> HIDE DEF Instance
    <2>3. QED
      BY <1>1, <2>1, <2>2
  <1>3. /\ inst'[i].rows = inst[i].rows /\ inst'[i].buffer = inst[i].buffer
        /\ inst'[i].phase = inst[i].phase /\ inst'[i].size = inst[i].size
        /\ inst'[i].pos = inst[i].pos /\ inst[i].pc # "stream" /\ inst'[i].pc = "done"
    BY <1>1, <1>2 DEF Instance, ProduceDone, At
  <1>4. /\ \A x \in Instances : Len(inst'[x].buffer) <= BufferSize
        /\ LogOK' /\ \A x \in Instances : (ItemsOK(x) /\ BatchOK(x))'
    BY <1>2, <1>3, ControlStep DEF ProduceDone
  <1>5. /\ job' \in Job /\ job'.lsn = job.lsn /\ job'.state = job.state
        /\ job.coordinator # i => job'.coordinator = job.coordinator
    BY <1>0 DEF TypeOK, ProduceDone, Job
  <1>6. TypeOK'
    BY <1>0, <1>2, <1>3, <1>4, <1>5 DEF TypeOK, ProduceDone, history
  <1>7. SlotOK'
    BY <1>0, <1>2, <1>3, <1>5 DEF ShapeInv, SlotOK, At, ProduceDone
  <1>8. QED
    BY <1>4, <1>6, <1>7 DEF TInv, ShapeInv

LEMMA TOpenStream ==
  ASSUME TInv, NEW i \in Instances, OpenStream(i)
  PROVE  TInv'
  <1>0. TypeOK /\ ShapeInv
    BY DEF TInv
  <1>1. inst \in [Instances -> Instance]
    BY <1>0 DEF TypeOK
  <1> DEFINE pos == IF inst[i].fromSnapshot /\ confirmed < job.lsn THEN job.lsn ELSE confirmed
  <1>a. ~ scenario.only /\ job.state = "completed" /\ confirmed # NoSlot
    BY <1>0 DEF ShapeInv, SlotOK, OpenStream, At
  <1>b. pos \in Nat /\ pos <= Len(log)
    <2>1. confirmed \in 0 .. Len(log) /\ Len(log) \in Nat /\ job.lsn \in Nat /\ job.lsn <= Len(log)
      BY <1>0, <1>a DEF TypeOK, Job
    <2>2. QED
      BY <2>1
  <1>2. /\ inst' \in [Instances -> Instance]
        /\ \A x \in Instances : x # i => inst'[x] = inst[x]
        /\ inst'[i] = [inst[i] EXCEPT !.pc = "stream", !.pos = pos]
    <2>1. inst' = [inst EXCEPT ![i] = [inst[i] EXCEPT !.pc = "stream", !.pos = pos]]
      BY <1>1 DEF OpenStream
    <2>2. [inst[i] EXCEPT !.pc = "stream", !.pos = pos] \in Instance
      BY <1>1, <1>b DEF Instance, PCs
    <2> HIDE DEF Instance
    <2>3. QED
      BY <1>1, <2>1, <2>2
  <1>3. /\ inst'[i].rows = inst[i].rows /\ inst'[i].buffer = inst[i].buffer
        /\ inst'[i].phase = inst[i].phase /\ inst'[i].size = inst[i].size
        /\ inst'[i].pos = pos /\ inst[i].pc # "stream" /\ inst'[i].pc = "stream"
    BY <1>1, <1>2 DEF Instance, OpenStream, At
  <1>4. /\ \A x \in Instances : Len(inst'[x].buffer) <= BufferSize
        /\ LogOK' /\ \A x \in Instances : (ItemsOK(x) /\ BatchOK(x))'
    BY <1>2, <1>3, ControlStep DEF OpenStream
  <1> HIDE DEF pos
  <1>5. TypeOK'
    <2>1. /\ rewound' \in BOOLEAN /\ mishaps' \subseteq Mishaps /\ streamer' = i
          /\ UNCHANGED <<scenario, source, log, job, chunks, confirmed, target, crashes>>
      BY <1>0 DEF TypeOK, OpenStream, Mishaps
    <2>2. QED
      BY <1>0, <1>2, <1>3, <1>4, <1>b, <2>1 DEF TypeOK
  <1>6. SlotOK'
    BY <1>0, <1>2, <1>3, <1>a DEF ShapeInv, SlotOK, At, OpenStream
  <1>7. QED
    BY <1>4, <1>5, <1>6 DEF TInv, ShapeInv

\* What a commit appends to the log, and what it does to the source.
LEMMA CommitAppends ==
  ASSUME TypeOK, SourceCommit
  PROVE  \E m \in Message :
           /\ log' = Append(log, m)
           /\ FullRow(Decoded(m))
           /\ m.op # "delete" => Decoded(m)["v"] = ValueAt(Len(log) + 1)
           /\ source' \in Tables
           /\ \A k \in Keys : source'[k] # Absent =>
                \/ source'[k] = source[k]
                \/ /\ m.op # "delete" /\ Decoded(m)["id"] = k
                   /\ source'[k].v = ValueAt(Len(log) + 1)
  <1> DEFINE n   == Len(log) + 1
             o   == scenario.ops[n]
             old == source[o.key]
             row == [v |-> ValueAt(n), t |-> IF o.op = "update" /\ o.toasted THEN old.t ELSE ValueAt(n)]
  <1>1. Len(log) \in Nat /\ n \in Nat /\ ValueAt(n) \in Nat
    BY DEF TypeOK, ValueAt
  <1>2. o \in Ops
    <2>1. scenario \in Scenario
      BY ScenariosAssumption DEF TypeOK
    <2>2. scenario.ops \in Seq(Ops)
      BY <2>1 DEF Scenario
    <2>3. n \in 1 .. Len(scenario.ops)
      BY <1>1 DEF SourceCommit
    <2> HIDE DEF n
    <2>4. QED
      BY <2>2, <2>3
  <1>3. /\ o.op \in {"insert", "update", "delete"} /\ o.key \in Keys /\ o.to \in Keys
        /\ o.toasted \in BOOLEAN
    <2> HIDE DEF o
    <2>1. QED
      BY <1>2 DEF Ops
  <1>4. source \in Tables /\ Legal(o)
    BY DEF TypeOK, SourceCommit
  <1>5. o.op # "insert" => old \in Row
    BY <1>3, <1>4 DEF Legal, Tables
  <1>6. row \in Row /\ row.v = ValueAt(n) /\ (o.op = "update" /\ o.toasted => row.t = old.t)
    <2> HIDE DEF o, n, old
    <2>1. CASE o.op = "update" /\ o.toasted
      BY <1>1, <1>5, <2>1 DEF Row
    <2>2. CASE ~ (o.op = "update" /\ o.toasted)
      BY <1>1, <2>2 DEF Row
    <2>3. QED
      BY <2>1, <2>2
  <1>7. row # Absent
    <2> HIDE DEF row
    <2>1. QED
      BY <1>6, AbsentAssumption DEF Row
  <1>8. source' = CASE o.op = "delete" -> [source EXCEPT ![o.key] = Absent]
                    [] o.op = "insert" -> [source EXCEPT ![o.key] = row]
                    [] o.op = "update" -> SourceAfter(source, o.key, o.to, row)
    BY DEF SourceCommit
  <1>9. log' = Append(log, CASE o.op = "delete" -> DeleteMessage(o.key, old)
                             [] o.op = "insert" -> InsertMessage(o.key, row)
                             [] o.op = "update" -> UpdateMessage(o.key, old, o.to, row, o.toasted))
    BY DEF SourceCommit
  <1> HIDE DEF o, n, old, row
  <1>10. CASE o.op = "delete"
    <2> DEFINE m == DeleteMessage(o.key, old)
    <2>1. m \in Message /\ Decoded(m) = FullTuple(o.key, old)
      BY <1>3, <1>5, <1>10, DeleteDecodes
    <2>2. FullRow(Decoded(m)) /\ m.op = "delete"
      BY <1>3, <1>5, <1>10, <2>1, FullTupleOf DEF DeleteMessage
    <2>3. log' = Append(log, m) /\ source' = [source EXCEPT ![o.key] = Absent]
      BY <1>8, <1>9, <1>10
    <2> HIDE DEF m
    <2>4. source' \in Tables /\ \A k \in Keys : source'[k] # Absent => source'[k] = source[k]
      BY <1>3, <1>4, <2>3 DEF Tables
    <2>5. QED
      BY <2>1, <2>2, <2>3, <2>4
  <1>11. CASE o.op = "insert"
    <2> DEFINE m == InsertMessage(o.key, row)
    <2>1. m \in Message /\ Decoded(m) = FullTuple(o.key, row)
      BY <1>3, <1>6, InsertDecodes
    <2>2. /\ FullRow(Decoded(m)) /\ m.op # "delete"
          /\ Decoded(m)["v"] = ValueAt(n) /\ Decoded(m)["id"] = o.key
      BY <1>3, <1>6, <2>1, FullTupleOf DEF InsertMessage
    <2>3. log' = Append(log, m) /\ source' = [source EXCEPT ![o.key] = row]
      BY <1>8, <1>9, <1>11
    <2> HIDE DEF m
    <2>4. /\ source' \in Tables
          /\ \A k \in Keys : source'[k] # Absent =>
               source'[k] = source[k] \/ (k = o.key /\ source'[k].v = ValueAt(n))
      BY <1>3, <1>4, <1>6, <2>3 DEF Tables
    <2>5. QED
      BY <2>1, <2>2, <2>3, <2>4 DEF n
  <1>12. CASE o.op = "update"
    <2> DEFINE m == UpdateMessage(o.key, old, o.to, row, o.toasted)
    <2>1. m \in Message /\ Decoded(m) = FullTuple(o.to, row)
      BY <1>3, <1>5, <1>6, <1>12, UpdateDecodes
    <2>2. /\ FullRow(Decoded(m)) /\ m.op # "delete"
          /\ Decoded(m)["v"] = ValueAt(n) /\ Decoded(m)["id"] = o.to
      BY <1>3, <1>6, <2>1, FullTupleOf DEF UpdateMessage
    <2>3. log' = Append(log, m) /\ source' = SourceAfter(source, o.key, o.to, row)
      BY <1>8, <1>9, <1>12
    <2> HIDE DEF m
    <2>4. /\ source' \in Tables
          /\ \A k \in Keys : source'[k] # Absent =>
               source'[k] = source[k] \/ (k = o.to /\ source'[k].v = ValueAt(n))
      BY <1>3, <1>4, <1>6, <2>3 DEF Tables, SourceAfter
    <2>5. QED
      BY <2>1, <2>2, <2>3, <2>4 DEF n
  <1>13. QED
    BY <1>3, <1>10, <1>11, <1>12

\* The log only grows.
LEMMA LogGrows ==
  ASSUME log \in Seq(Message), NEW m \in Message, log' = Append(log, m)
  PROVE  /\ log' \in Seq(Message) /\ Len(log) \in Nat /\ Len(log') = Len(log) + 1
         /\ DOMAIN log = 1 .. Len(log) /\ DOMAIN log' = 1 .. (Len(log) + 1)
         /\ \A p \in 1 .. Len(log) : log'[p] = log[p]
         /\ log'[Len(log) + 1] = m
  OBVIOUS

LEMMA TSourceCommit ==
  ASSUME TInv, SourceCommit
  PROVE  TInv'
  <1>0. TypeOK /\ ShapeInv
    BY DEF TInv
  <1>1. PICK m \in Message :
          /\ log' = Append(log, m) /\ FullRow(Decoded(m))
          /\ m.op # "delete" => Decoded(m)["v"] = ValueAt(Len(log) + 1)
          /\ source' \in Tables
    BY <1>0, CommitAppends
  <1>2. /\ log' \in Seq(Message) /\ Len(log) \in Nat /\ Len(log') = Len(log) + 1
        /\ DOMAIN log = 1 .. Len(log) /\ DOMAIN log' = 1 .. (Len(log) + 1)
        /\ \A p \in 1 .. Len(log) : log'[p] = log[p]
        /\ log'[Len(log) + 1] = m
    <2>1. log \in Seq(Message)
      BY <1>0 DEF TypeOK
    <2>2. QED
      BY <1>1, <2>1, LogGrows
  <1>3. UNCHANGED <<scenario, job, chunks, confirmed, streamer, target, inst, crashes, rewound, mishaps>>
    BY DEF SourceCommit, history
  <1>4. TypeOK'
    <2>1. job.lsn \in Nat /\ job.lsn <= Len(log')
      BY <1>0, <1>2 DEF TypeOK, Job
    <2>2. confirmed \in {NoSlot} \cup (0 .. Len(log'))
      BY <1>0, <1>2 DEF TypeOK
    <2>3. \A i \in Instances : Len(inst[i].buffer) <= BufferSize /\ inst[i].pos <= Len(log')
      <3>1. ASSUME NEW i \in Instances PROVE inst[i].pos \in Nat /\ inst[i].pos <= Len(log)
        BY <1>0, InstanceFields DEF TypeOK
      <3>2. QED
        BY <1>0, <1>2, <3>1 DEF TypeOK
    <2>4. QED
      BY <1>0, <1>1, <1>2, <1>3, <2>1, <2>2, <2>3 DEF TypeOK
  <1>5. LogOK'
    <2>1. ASSUME NEW p \in DOMAIN log'
          PROVE  /\ FullRow(Decoded(log'[p]))
                 /\ log'[p].op # "delete" => Decoded(log'[p])["v"] = ValueAt(p)
      <3>1. CASE p \in 1 .. Len(log)
        BY <1>0, <1>2, <3>1 DEF ShapeInv, LogOK
      <3>2. CASE p = Len(log) + 1
        BY <1>1, <1>2, <3>2
      <3>3. QED
        BY <1>2, <3>1, <3>2
    <2>2. QED
      BY <2>1 DEF LogOK
  <1>6. SlotOK'
    BY <1>0, <1>3 DEF ShapeInv, SlotOK, At
  <1>7. ASSUME NEW x \in Instances PROVE (ItemsOK(x) /\ BatchOK(x))'
    <2>1. DOMAIN log \subseteq DOMAIN log'
      BY <1>2
    <2>2. ItemsOK(x) /\ BatchOK(x)
      BY <1>0 DEF ShapeInv
    <2>3. QED
      BY <1>3, <2>1, <2>2, ItemsKept
  <1>8. QED
    BY <1>4, <1>5, <1>6, <1>7 DEF TInv, ShapeInv

\* A step of process i that changes its rows, its buffer or its batch, but not what it
\* is at.
LEMMA DataStep ==
  ASSUME TInv, NEW i \in Instances,
         UNCHANGED <<scenario, source, log, job, streamer, crashes, rewound>>,
         mishaps' = mishaps \/ mishaps' \subseteq Mishaps,
         inst' \in [Instances -> Instance], \A x \in Instances : x # i => inst'[x] = inst[x],
         inst'[i].pc = inst[i].pc, inst'[i].fromSnapshot = inst[i].fromSnapshot,
         inst'[i].pos <= Len(log), Len(inst'[i].buffer) <= BufferSize,
         (ItemsOK(i) /\ BatchOK(i))',
         chunks' \in [Chunks -> {"pending", "completed"} \cup Instances],
         target' \in Tables,
         confirmed' \in {NoSlot} \cup (0 .. Len(log)),
         scenario.only => confirmed' = NoSlot, confirmed # NoSlot => confirmed' # NoSlot
  PROVE  TInv'
  <1>0. TypeOK /\ ShapeInv
    BY DEF TInv
  <1>1. TypeOK'
    BY <1>0 DEF TypeOK
  <1>2. LogOK'
    BY <1>0 DEF ShapeInv, LogOK
  <1>3. \A x \in Instances : inst'[x].pc = inst[x].pc /\ inst'[x].fromSnapshot = inst[x].fromSnapshot
    OBVIOUS
  <1>4. SlotOK'
    BY <1>0, <1>3 DEF ShapeInv, SlotOK, At
  <1>5. ASSUME NEW x \in Instances, x # i PROVE (ItemsOK(x) /\ BatchOK(x))'
    <2>1. ItemsOK(x) /\ BatchOK(x)
      BY <1>0 DEF ShapeInv
    <2>2. inst'[x] = inst[x] /\ DOMAIN log \subseteq DOMAIN log'
      BY <1>5
    <2>3. QED
      BY <2>1, <2>2, ItemsKept
  <1>6. QED
    BY <1>1, <1>2, <1>4, <1>5 DEF TInv, ShapeInv

LEMMA TClaimChunk ==
  ASSUME TInv, NEW i \in Instances, ClaimChunk(i)
  PROVE  TInv'
  <1>0. TypeOK /\ ShapeInv
    BY DEF TInv
  <1>1. inst \in [Instances -> Instance] /\ job \in Job
    BY <1>0 DEF TypeOK
  <1>2. PICK c \in Chunks :
          /\ chunks' = [chunks EXCEPT ![c] = i]
          /\ inst' = [inst EXCEPT ![i].chunk = c, ![i].rows = RowsOf(c)]
    BY DEF ClaimChunk
  <1>3. /\ RowsOf(c) \in Seq(Item)
        /\ \A n \in DOMAIN RowsOf(c) : RowsOf(c)[n].source = "snapshot" /\ FullRow(RowsOf(c)[n].data)
    BY <1>1, RowsOfView
  <1>4. inst' = [inst EXCEPT ![i] = [inst[i] EXCEPT !.chunk = c, !.rows = RowsOf(c)]]
    BY <1>1, <1>2
  <1>5. [inst[i] EXCEPT !.chunk = c, !.rows = RowsOf(c)] \in Instance
    BY <1>1, <1>3 DEF Instance
  <1>6. /\ inst' \in [Instances -> Instance] /\ \A x \in Instances : x # i => inst'[x] = inst[x]
        /\ inst'[i] = [inst[i] EXCEPT !.chunk = c, !.rows = RowsOf(c)]
    <2> HIDE DEF Instance
    <2>1. QED
      BY <1>1, <1>4, <1>5
  <1>7. /\ inst'[i].fromSnapshot = inst[i].fromSnapshot
        /\ inst'[i].pc = inst[i].pc /\ inst'[i].pos = inst[i].pos /\ inst'[i].buffer = inst[i].buffer
        /\ inst'[i].phase = inst[i].phase /\ inst'[i].size = inst[i].size /\ inst'[i].rows = RowsOf(c)
    BY <1>1, <1>6 DEF Instance
  <1>8. UNCHANGED <<scenario, source, log, job, confirmed, streamer, target, crashes, rewound, mishaps>>
    BY DEF ClaimChunk, history
  <1>9. (ItemsOK(i) /\ BatchOK(i))'
    <2>1. ItemsOK(i) /\ BatchOK(i)
      BY <1>0 DEF ShapeInv
    <2>2. CdcIn(i)' = CdcIn(i)
      BY <1>7 DEF CdcIn
    <2>3. BatchOK(i)'
      BY <1>7, <2>1, <2>2 DEF BatchOK
    <2>4. ItemsOK(i)'
      BY <1>3, <1>7, <1>8, <2>1 DEF ItemsOK, At
    <2>5. QED
      BY <2>3, <2>4
  <1>10. chunks' \in [Chunks -> {"pending", "completed"} \cup Instances]
    BY <1>0, <1>2 DEF TypeOK
  <1>11. /\ inst[i].pos <= Len(log) /\ Len(inst[i].buffer) <= BufferSize /\ target \in Tables
         /\ confirmed \in {NoSlot} \cup (0 .. Len(log)) /\ (scenario.only => confirmed = NoSlot)
    BY <1>0 DEF TypeOK, ShapeInv, SlotOK
  <1>12. QED
    BY <1>6, <1>7, <1>8, <1>9, <1>10, <1>11, DataStep

LEMMA THandleSnapshot ==
  ASSUME TInv, NEW i \in Instances, HandleSnapshot(i)
  PROVE  TInv'
  <1>0. TypeOK /\ ShapeInv
    BY DEF TInv
  <1>1. inst \in [Instances -> Instance]
    BY <1>0 DEF TypeOK
  <1> DEFINE r == inst[i].rows
             b == inst[i].buffer
  <1>2. r \in Seq(Item) /\ b \in Seq(Item) /\ r # << >> /\ Len(b) < BufferSize
    BY <1>1, InstanceFields DEF HandleSnapshot
  <1>3. /\ Tail(r) \in Seq(Item) /\ Append(b, Head(r)) \in Seq(Item)
        /\ Len(Append(b, Head(r))) = Len(b) + 1 /\ Len(b) \in Nat
    BY <1>2
  <1>4. inst' = [inst EXCEPT ![i] = [inst[i] EXCEPT !.buffer = Append(b, Head(r)), !.rows = Tail(r)]]
    BY <1>1 DEF HandleSnapshot
  <1> HIDE DEF r, b
  <1>5. [inst[i] EXCEPT !.buffer = Append(b, Head(r)), !.rows = Tail(r)] \in Instance
    BY <1>1, <1>3 DEF Instance
  <1>6. /\ inst' \in [Instances -> Instance] /\ \A x \in Instances : x # i => inst'[x] = inst[x]
        /\ inst'[i] = [inst[i] EXCEPT !.buffer = Append(b, Head(r)), !.rows = Tail(r)]
    <2> HIDE DEF Instance
    <2>1. QED
      BY <1>1, <1>4, <1>5
  <1>7. /\ inst'[i].fromSnapshot = inst[i].fromSnapshot
        /\ inst'[i].pc = inst[i].pc /\ inst'[i].pos = inst[i].pos
        /\ inst'[i].buffer = Append(b, Head(r)) /\ inst'[i].rows = Tail(r)
        /\ inst'[i].phase = inst[i].phase /\ inst'[i].size = inst[i].size
    BY <1>1, <1>6 DEF Instance
  <1>8. UNCHANGED <<scenario, source, log, job, chunks, confirmed, streamer, target, crashes, rewound, mishaps>>
    BY DEF HandleSnapshot, history
  <1>9. (ItemsOK(i) /\ BatchOK(i))'
    <2>1. ItemsOK(i) /\ BatchOK(i)
      BY <1>0 DEF ShapeInv
    <2>2. inst[i].phase # "collect" => CdcIn(i)' = CdcIn(i)
      <3>1. SUFFICES ASSUME inst[i].phase # "collect" PROVE CdcIn(i)' = CdcIn(i)
        OBVIOUS
      <3>2. \A n \in 1 .. inst[i].size : n \in 1 .. Len(b)
        BY <1>3, <2>1, <3>1 DEF BatchOK, b
      <3>3. \A n \in 1 .. Len(b) : inst'[i].buffer[n] = inst[i].buffer[n]
        BY <1>2, <1>7 DEF b
      <3>4. QED
        BY <1>7, <3>2, <3>3 DEF CdcIn
    <2>3. BatchOK(i)'
      <3>1. inst[i].phase # "collect" => inst[i].size \in 1 .. Len(inst'[i].buffer)
        BY <1>3, <1>7, <2>1 DEF BatchOK, b
      <3>2. QED
        BY <1>7, <2>1, <2>2, <3>1 DEF BatchOK
    <2>4. \A n \in DOMAIN inst'[i].rows :
            inst'[i].rows[n].source = "snapshot" /\ FullRow(inst'[i].rows[n].data)
      <3>1. ASSUME NEW n \in DOMAIN Tail(r) PROVE n + 1 \in DOMAIN r /\ Tail(r)[n] = r[n + 1]
        BY <1>2
      <3>2. QED
        BY <1>7, <2>1, <3>1 DEF ItemsOK, r
    <2>5. 1 \in DOMAIN r /\ Head(r) = r[1]
      BY <1>2
    <2>6. Head(r).source = "snapshot" /\ FullRow(Head(r).data)
      BY <2>1, <2>5 DEF ItemsOK, r
    <2>7. ASSUME NEW n \in DOMAIN inst'[i].buffer
          PROVE  LET it == inst'[i].buffer[n]
                 IN IF it.source = "snapshot" THEN FullRow(it.data) ELSE it.pos \in DOMAIN log' /\ At(i, "stream")'
      <3>1. CASE n = Len(b) + 1
        <4>1. inst'[i].buffer[n] = Head(r)
          BY <1>2, <1>7, <3>1
        <4>2. QED
          BY <2>6, <4>1
      <3>2. CASE n \in DOMAIN b
        <4>1. inst'[i].buffer[n] = inst[i].buffer[n]
          BY <1>2, <1>7, <3>2 DEF b
        <4>2. n \in DOMAIN inst[i].buffer
          BY <3>2 DEF b
        <4>3. QED
          BY <1>7, <1>8, <2>1, <4>1, <4>2 DEF ItemsOK, At
      <3>3. QED
        BY <1>2, <1>7, <3>1, <3>2
    <2>8. ItemsOK(i)'
      BY <2>4, <2>7 DEF ItemsOK
    <2>9. QED
      BY <2>3, <2>8
  <1>10. /\ inst[i].pos <= Len(log) /\ target \in Tables
         /\ chunks \in [Chunks -> {"pending", "completed"} \cup Instances]
         /\ confirmed \in {NoSlot} \cup (0 .. Len(log)) /\ (scenario.only => confirmed = NoSlot)
    BY <1>0 DEF TypeOK, ShapeInv, SlotOK
  <1>11. Len(inst'[i].buffer) <= BufferSize
    BY <1>2, <1>3, <1>7, SizesAssumption
  <1>12. QED
    BY <1>6, <1>7, <1>8, <1>9, <1>10, <1>11, DataStep

\* What Receive does to the buffer.
LEMMA ReceiveAppends ==
  ASSUME TypeOK, NEW i \in Instances, Receive(i)
  PROVE  /\ inst' \in [Instances -> Instance] /\ \A x \in Instances : x # i => inst'[x] = inst[x]
         /\ inst[i].pos \in Nat /\ inst[i].pos + 1 \in DOMAIN log
         /\ inst'[i].fromSnapshot = inst[i].fromSnapshot
         /\ inst'[i].pc = inst[i].pc /\ inst'[i].pos = inst[i].pos + 1
         /\ inst[i].buffer \in Seq(Item) /\ CdcItem(inst[i].pos + 1) \in Item
         /\ inst'[i].buffer = Append(inst[i].buffer, CdcItem(inst[i].pos + 1))
         /\ inst'[i].rows = inst[i].rows
         /\ inst'[i].phase = inst[i].phase /\ inst'[i].size = inst[i].size
  <1> DEFINE b == Append(inst[i].buffer, CdcItem(inst[i].pos + 1))
             r == [inst[i] EXCEPT !.pos = inst[i].pos + 1, !.buffer = b]
  <1>1. inst \in [Instances -> Instance]
    BY DEF TypeOK
  <1>2. inst[i].pos \in Nat /\ inst[i].buffer \in Seq(Item)
    BY <1>1, InstanceFields
  <1>3. inst[i].pos + 1 \in DOMAIN log
    BY <1>2 DEF TypeOK, Receive
  <1>4. CdcItem(inst[i].pos + 1) \in Item
    <2>1. NoTuple \in Tuple
      BY DEF NoTuple, Tuple, Columns
    <2>2. QED
      BY <1>2, <2>1 DEF CdcItem, Item
  <1>5. b \in Seq(Item)
    BY <1>2, <1>4
  <1>6. inst' = [inst EXCEPT ![i] = r]
    BY <1>1 DEF Receive
  <1> HIDE DEF b
  <1>7. r \in Instance
    <2>1. inst[i] \in Instance /\ inst[i].pos + 1 \in Nat
      BY <1>1, <1>2
    <2>2. QED
      BY <1>5, <2>1 DEF Instance
  <1>8. r.fromSnapshot = inst[i].fromSnapshot /\ r.pc = inst[i].pc /\ r.pos = inst[i].pos + 1 /\ r.buffer = b /\ r.rows = inst[i].rows
        /\ r.phase = inst[i].phase /\ r.size = inst[i].size
    BY <1>1, <1>2 DEF Instance
  <1> HIDE DEF r
  <1>9. QED
    BY <1>1, <1>2, <1>3, <1>4, <1>6, <1>7, <1>8 DEF b

LEMMA TReceive ==
  ASSUME TInv, NEW i \in Instances, Receive(i)
  PROVE  TInv'
  <1>0. TypeOK /\ ShapeInv
    BY DEF TInv
  <1> DEFINE b == inst[i].buffer
             it == CdcItem(inst[i].pos + 1)
  <1>1. /\ inst' \in [Instances -> Instance] /\ \A x \in Instances : x # i => inst'[x] = inst[x]
        /\ inst[i].pos \in Nat /\ inst[i].pos + 1 \in DOMAIN log
        /\ inst'[i].fromSnapshot = inst[i].fromSnapshot
        /\ inst'[i].pc = inst[i].pc /\ inst'[i].pos = inst[i].pos + 1
        /\ b \in Seq(Item) /\ it \in Item /\ inst'[i].buffer = Append(b, it)
        /\ inst'[i].rows = inst[i].rows
        /\ inst'[i].phase = inst[i].phase /\ inst'[i].size = inst[i].size
    BY <1>0, ReceiveAppends
  <1>2. it.source = "cdc" /\ it.pos = inst[i].pos + 1
    BY DEF CdcItem
  <1>3. At(i, "stream") /\ Len(b) < BufferSize /\ inst[i].pos < Len(log)
    BY DEF Receive
  <1>4. UNCHANGED <<scenario, source, log, job, chunks, confirmed, streamer, target, crashes, rewound, mishaps>>
    BY DEF Receive, history
  <1> HIDE DEF it, b
  <1>5. (ItemsOK(i) /\ BatchOK(i))'
    <2>1. ItemsOK(i) /\ BatchOK(i)
      BY <1>0 DEF ShapeInv
    <2>2. inst[i].phase # "collect" => CdcIn(i)' = CdcIn(i)
      <3>1. SUFFICES ASSUME inst[i].phase # "collect" PROVE CdcIn(i)' = CdcIn(i)
        OBVIOUS
      <3>2. \A n \in 1 .. inst[i].size : n \in 1 .. Len(b)
        BY <1>1, <2>1, <3>1 DEF BatchOK, b
      <3>3. \A n \in 1 .. Len(b) : inst'[i].buffer[n] = inst[i].buffer[n]
        BY <1>1 DEF b
      <3>4. QED
        BY <1>1, <3>2, <3>3 DEF CdcIn
    <2>3. BatchOK(i)'
      <3>1. inst[i].phase # "collect" => inst[i].size \in 1 .. Len(inst'[i].buffer)
        BY <1>1, <2>1 DEF BatchOK, b
      <3>2. QED
        BY <1>1, <2>1, <2>2, <3>1 DEF BatchOK
    <2>4. \A n \in DOMAIN inst'[i].rows :
            inst'[i].rows[n].source = "snapshot" /\ FullRow(inst'[i].rows[n].data)
      BY <1>1, <2>1 DEF ItemsOK
    <2>5. ASSUME NEW n \in DOMAIN inst'[i].buffer
          PROVE  LET e == inst'[i].buffer[n]
                 IN IF e.source = "snapshot" THEN FullRow(e.data) ELSE e.pos \in DOMAIN log' /\ At(i, "stream")'
      <3>1. CASE n = Len(b) + 1
        <4>1. inst'[i].buffer[n] = it
          BY <1>1, <3>1
        <4>2. QED
          BY <1>1, <1>2, <1>3, <1>4, <4>1 DEF At
      <3>2. CASE n \in DOMAIN b
        <4>1. inst'[i].buffer[n] = inst[i].buffer[n]
          BY <1>1, <3>2 DEF b
        <4>2. n \in DOMAIN inst[i].buffer
          BY <3>2 DEF b
        <4>3. QED
          BY <1>1, <1>4, <2>1, <4>1, <4>2 DEF ItemsOK, At
      <3>3. QED
        BY <1>1, <3>1, <3>2
    <2>6. ItemsOK(i)'
      BY <2>4, <2>5 DEF ItemsOK
    <2>7. QED
      BY <2>3, <2>6
  <1>6. /\ target \in Tables
        /\ chunks \in [Chunks -> {"pending", "completed"} \cup Instances]
        /\ confirmed \in {NoSlot} \cup (0 .. Len(log)) /\ (scenario.only => confirmed = NoSlot)
    BY <1>0 DEF TypeOK, ShapeInv, SlotOK
  <1>7. Len(inst'[i].buffer) <= BufferSize /\ inst'[i].pos <= Len(log)
    <2>1. Len(log) \in Nat /\ BufferSize \in Nat
      BY <1>0, SizesAssumption DEF TypeOK
    <2>2. QED
      BY <1>1, <1>3, <2>1
  <1>8. QED
    BY <1>1, <1>4, <1>5, <1>6, <1>7, DataStep

\* What is left of a buffer when its first n items are dropped.
LEMMA DropItems ==
  ASSUME inst \in [Instances -> Instance], NEW i \in Instances, NEW n \in 0 .. Len(inst[i].buffer)
  PROVE  /\ Drop(i, n) \in Seq(Item)
         /\ Len(inst[i].buffer) \in Nat /\ DOMAIN inst[i].buffer = 1 .. Len(inst[i].buffer)
         /\ Len(Drop(i, n)) = Len(inst[i].buffer) - n
         /\ DOMAIN Drop(i, n) = 1 .. (Len(inst[i].buffer) - n)
         /\ \A m \in 1 .. (Len(inst[i].buffer) - n) : Drop(i, n)[m] = inst[i].buffer[m + n]
  <1>1. inst[i].buffer \in Seq(Item)
    BY InstanceFields
  <1> DEFINE b == inst[i].buffer
  <1> HIDE DEF b
  <1>2. b \in Seq(Item) /\ n \in 0 .. Len(b) /\ Drop(i, n) = SubSeq(b, n + 1, Len(b))
    BY <1>1 DEF b, Drop
  <1>3. QED
    BY <1>2 DEF b

\* The rest of the buffer can be written.
LEMMA DropKeeps ==
  ASSUME inst \in [Instances -> Instance], NEW i \in Instances, NEW n \in 0 .. Len(inst[i].buffer),
         ItemsOK(i), log' = log, inst'[i].pc = inst[i].pc, inst'[i].rows = inst[i].rows,
         inst'[i].buffer = Drop(i, n), inst'[i].phase = "collect"
  PROVE  (ItemsOK(i) /\ BatchOK(i))'
  <1>1. BatchOK(i)'
    BY DEF BatchOK
  <1>2. ASSUME NEW m \in DOMAIN inst'[i].buffer
        PROVE  LET it == inst'[i].buffer[m]
               IN IF it.source = "snapshot" THEN FullRow(it.data) ELSE it.pos \in DOMAIN log' /\ At(i, "stream")'
    <2> DEFINE L == Len(inst[i].buffer)
    <2>a. /\ L \in Nat /\ DOMAIN inst[i].buffer = 1 .. L /\ DOMAIN Drop(i, n) = 1 .. (L - n)
          /\ \A e \in 1 .. (L - n) : Drop(i, n)[e] = inst[i].buffer[e + n]
      BY DropItems
    <2>b. m \in 1 .. (L - n) /\ n \in 0 .. L
      BY <2>a
    <2> HIDE DEF L
    <2>c. m + n \in 1 .. L
      BY <2>a, <2>b
    <2>1. inst'[i].buffer[m] = inst[i].buffer[m + n] /\ m + n \in DOMAIN inst[i].buffer
      BY <2>a, <2>b, <2>c
    <2>2. QED
      BY <2>1 DEF ItemsOK, At
  <1>3. ItemsOK(i)'
    BY <1>2 DEF ItemsOK
  <1>4. QED
    BY <1>1, <1>3

\* What a flush does to the process.
LEMMA CopyFlushes ==
  ASSUME TypeOK, NEW i \in Instances, FlushSnapshotCopy(i)
  PROVE  \E n \in 1 .. Len(inst[i].buffer) :
           /\ inst' \in [Instances -> Instance] /\ \A x \in Instances : x # i => inst'[x] = inst[x]
           /\ inst'[i].fromSnapshot = inst[i].fromSnapshot
           /\ inst'[i].pc = inst[i].pc /\ inst'[i].pos = inst[i].pos /\ inst'[i].rows = inst[i].rows
           /\ inst[i].phase = "collect"
           /\ \A m \in 1 .. n : inst[i].buffer[m].source = "snapshot"
           /\ \/ /\ inst'[i].phase = "replay" /\ inst'[i].size = n
                 /\ inst'[i].buffer = inst[i].buffer /\ target' = target
              \/ /\ inst'[i].phase = "collect" /\ inst'[i].size = inst[i].size
                 /\ inst'[i].buffer = Drop(i, n) /\ target' = Written(i, FALSE)[n]
  <1>1. inst \in [Instances -> Instance]
    BY DEF TypeOK
  <1>2. inst[i].buffer \in Seq(Item)
    BY <1>1, InstanceFields
  <1>3. PICK n \in BatchSizes(i) :
          LET items == SubSeq(inst[i].buffer, 1, n)
          IN /\ AllSnapshot(items)
             /\ IF Conflict(items)
                  THEN /\ inst' = [inst EXCEPT ![i].phase = "replay", ![i].size = n]
                       /\ UNCHANGED target
                  ELSE /\ target' = Written(i, FALSE)[n]
                       /\ inst' = [inst EXCEPT ![i].buffer = Drop(i, n)]
    BY DEF FlushSnapshotCopy
  <1>4. n \in 1 .. Len(inst[i].buffer) /\ n \in 0 .. ChunkSize
    BY <1>2, SizesAssumption DEF BatchSizes
  <1>5. \A m \in 1 .. n : inst[i].buffer[m].source = "snapshot"
    <2>1. ASSUME NEW m \in 1 .. n
          PROVE  m \in DOMAIN SubSeq(inst[i].buffer, 1, n)
                 /\ SubSeq(inst[i].buffer, 1, n)[m] = inst[i].buffer[m]
      <3> DEFINE b == inst[i].buffer
      <3>1. b \in Seq(Item) /\ n \in 1 .. Len(b)
        BY <1>2, <1>4
      <3> HIDE DEF b
      <3>2. m \in DOMAIN SubSeq(b, 1, n) /\ SubSeq(b, 1, n)[m] = b[m]
        BY <3>1
      <3>3. QED
        BY <3>2 DEF b
    <2>2. QED
      BY <1>3, <2>1 DEF AllSnapshot
  <1>6. inst[i].phase = "collect" /\ inst[i] \in Instance
    BY <1>1 DEF FlushSnapshotCopy
  <1> DEFINE r1 == [inst[i] EXCEPT !.phase = "replay", !.size = n]
             r2 == [inst[i] EXCEPT !.buffer = Drop(i, n)]
  <1>7. /\ r1 \in Instance /\ r1.fromSnapshot = inst[i].fromSnapshot
        /\ r1.pc = inst[i].pc /\ r1.pos = inst[i].pos /\ r1.rows = inst[i].rows
        /\ r1.phase = "replay" /\ r1.size = n /\ r1.buffer = inst[i].buffer
    BY <1>4, <1>6 DEF Instance
  <1>8. /\ r2 \in Instance /\ r2.fromSnapshot = inst[i].fromSnapshot
        /\ r2.pc = inst[i].pc /\ r2.pos = inst[i].pos /\ r2.rows = inst[i].rows
        /\ r2.phase = "collect" /\ r2.size = inst[i].size /\ r2.buffer = Drop(i, n)
    <2>1. Drop(i, n) \in Seq(Item)
      <3>1. n \in 0 .. Len(inst[i].buffer)
        BY <1>4
      <3>2. QED
        BY <1>1, <3>1, DropItems
    <2>2. QED
      BY <1>6, <2>1 DEF Instance
  <1>9. \/ inst' = [inst EXCEPT ![i] = r1] /\ target' = target
        \/ inst' = [inst EXCEPT ![i] = r2] /\ target' = Written(i, FALSE)[n]
    BY <1>1, <1>3
  <1> HIDE DEF r1, r2
  <1>10. CASE inst' = [inst EXCEPT ![i] = r1] /\ target' = target
    BY <1>1, <1>4, <1>5, <1>6, <1>7, <1>10
  <1>11. CASE inst' = [inst EXCEPT ![i] = r2] /\ target' = Written(i, FALSE)[n]
    BY <1>1, <1>4, <1>5, <1>6, <1>8, <1>11
  <1>12. QED
    BY <1>9, <1>10, <1>11

\* What the replay of a batch, and its acknowledgement, do to the process.
LEMMA BatchDropped ==
  ASSUME TypeOK, NEW i \in Instances, BatchOK(i), inst[i].phase # "collect",
         inst' = [inst EXCEPT ![i].phase = "collect", ![i].size = 0,
                              ![i].buffer = Drop(i, inst[i].size)]
  PROVE  /\ inst[i].size \in 1 .. Len(inst[i].buffer)
         /\ inst' \in [Instances -> Instance] /\ \A x \in Instances : x # i => inst'[x] = inst[x]
         /\ inst'[i].fromSnapshot = inst[i].fromSnapshot
         /\ inst'[i].pc = inst[i].pc /\ inst'[i].pos = inst[i].pos /\ inst'[i].rows = inst[i].rows
         /\ inst'[i].phase = "collect" /\ inst'[i].buffer = Drop(i, inst[i].size)
  <1>1. inst \in [Instances -> Instance]
    BY DEF TypeOK
  <1>2. inst[i].size \in 1 .. Len(inst[i].buffer)
    BY DEF BatchOK
  <1>3. Drop(i, inst[i].size) \in Seq(Item)
    <2>1. inst[i].size \in 0 .. Len(inst[i].buffer)
      BY <1>2
    <2>2. QED
      BY <1>1, <2>1, DropItems
  <1> DEFINE r == [inst[i] EXCEPT !.phase = "collect", !.size = 0, !.buffer = Drop(i, inst[i].size)]
  <1>4. inst' = [inst EXCEPT ![i] = r]
    BY <1>1
  <1>5. /\ r \in Instance /\ r.fromSnapshot = inst[i].fromSnapshot
        /\ r.pc = inst[i].pc /\ r.pos = inst[i].pos /\ r.rows = inst[i].rows
        /\ r.phase = "collect" /\ r.buffer = Drop(i, inst[i].size)
    <2>1. inst[i] \in Instance /\ 0 \in 0 .. ChunkSize
      BY <1>1, SizesAssumption
    <2>2. QED
      BY <1>3, <2>1 DEF Instance
  <1> HIDE DEF r
  <1>6. QED
    BY <1>1, <1>2, <1>4, <1>5, ZenonT(60)

LEMMA GenericFlushes ==
  ASSUME TypeOK, NEW i \in Instances, FlushGeneric(i)
  PROVE  \E n \in 1 .. Len(inst[i].buffer) :
           /\ inst' \in [Instances -> Instance] /\ \A x \in Instances : x # i => inst'[x] = inst[x]
           /\ inst'[i].fromSnapshot = inst[i].fromSnapshot
           /\ inst'[i].pc = inst[i].pc /\ inst'[i].pos = inst[i].pos /\ inst'[i].rows = inst[i].rows
           /\ inst[i].phase = "collect" /\ inst'[i].phase = "ack" /\ inst'[i].size = n
           /\ inst'[i].buffer = inst[i].buffer /\ target' = Written(i, FALSE)[n]
           /\ \E m \in 1 .. n : inst[i].buffer[m].source = "cdc"
  <1>1. inst \in [Instances -> Instance]
    BY DEF TypeOK
  <1>2. inst[i].buffer \in Seq(Item)
    BY <1>1, InstanceFields
  <1>3. PICK n \in BatchSizes(i) :
          /\ ~ AllSnapshot(SubSeq(inst[i].buffer, 1, n))
          /\ target' = Written(i, FALSE)[n]
          /\ inst' = [inst EXCEPT ![i].phase = "ack", ![i].size = n]
    BY DEF FlushGeneric
  <1>4. n \in 1 .. Len(inst[i].buffer) /\ n \in 0 .. ChunkSize
    BY <1>2, SizesAssumption DEF BatchSizes
  <1>5. \E m \in 1 .. n : inst[i].buffer[m].source = "cdc"
    <2> DEFINE b == inst[i].buffer
    <2>1. b \in Seq(Item) /\ n \in 1 .. Len(b)
      BY <1>2, <1>4
    <2>2. PICK m \in DOMAIN SubSeq(b, 1, n) : SubSeq(b, 1, n)[m].source # "snapshot"
      BY <1>3 DEF AllSnapshot
    <2> HIDE DEF b
    <2>3. m \in 1 .. n /\ SubSeq(b, 1, n)[m] = b[m] /\ b[m] \in Item
      BY <2>1
    <2>4. b[m].source = "cdc"
      BY <2>2, <2>3 DEF Item
    <2>5. QED
      BY <2>3, <2>4 DEF b
  <1>6. inst[i].phase = "collect" /\ inst[i] \in Instance
    BY <1>1 DEF FlushGeneric
  <1> DEFINE r == [inst[i] EXCEPT !.phase = "ack", !.size = n]
  <1>7. /\ r \in Instance /\ r.fromSnapshot = inst[i].fromSnapshot
        /\ r.pc = inst[i].pc /\ r.pos = inst[i].pos /\ r.rows = inst[i].rows
        /\ r.phase = "ack" /\ r.size = n /\ r.buffer = inst[i].buffer
    BY <1>4, <1>6 DEF Instance
  <1>8. inst' = [inst EXCEPT ![i] = r]
    BY <1>1, <1>3
  <1> HIDE DEF r
  <1>9. /\ inst' \in [Instances -> Instance] /\ \A x \in Instances : x # i => inst'[x] = inst[x]
        /\ inst'[i] = r
    BY <1>1, <1>7, <1>8
  <1>10. QED
    BY <1>3, <1>4, <1>5, <1>6, <1>7, <1>9

LEMMA TFlushSnapshotCopy ==
  ASSUME TInv, NEW i \in Instances, FlushSnapshotCopy(i)
  PROVE  TInv'
  <1>0. TypeOK /\ ShapeInv
    BY DEF TInv
  <1>1. /\ inst \in [Instances -> Instance] /\ target \in Tables /\ LogOK /\ ItemsOK(i) /\ BatchOK(i)
        /\ inst[i].pos <= Len(log) /\ Len(inst[i].buffer) <= BufferSize
        /\ chunks \in [Chunks -> {"pending", "completed"} \cup Instances]
        /\ confirmed \in {NoSlot} \cup (0 .. Len(log)) /\ (scenario.only => confirmed = NoSlot)
    BY <1>0 DEF TypeOK, ShapeInv, SlotOK
  <1>2. PICK n \in 1 .. Len(inst[i].buffer) :
          /\ inst' \in [Instances -> Instance] /\ \A x \in Instances : x # i => inst'[x] = inst[x]
          /\ inst'[i].fromSnapshot = inst[i].fromSnapshot
          /\ inst'[i].pc = inst[i].pc /\ inst'[i].pos = inst[i].pos /\ inst'[i].rows = inst[i].rows
          /\ inst[i].phase = "collect"
          /\ \A m \in 1 .. n : inst[i].buffer[m].source = "snapshot"
          /\ \/ /\ inst'[i].phase = "replay" /\ inst'[i].size = n
                /\ inst'[i].buffer = inst[i].buffer /\ target' = target
             \/ /\ inst'[i].phase = "collect" /\ inst'[i].size = inst[i].size
                /\ inst'[i].buffer = Drop(i, n) /\ target' = Written(i, FALSE)[n]
    BY <1>0, CopyFlushes
  <1>3. UNCHANGED <<scenario, source, log, job, chunks, confirmed, streamer, crashes, rewound, mishaps>>
    BY DEF FlushSnapshotCopy, history
  <1>4. n \in 0 .. Len(inst[i].buffer)
    OBVIOUS
  <1>5. CASE /\ inst'[i].phase = "replay" /\ inst'[i].size = n
             /\ inst'[i].buffer = inst[i].buffer /\ target' = target
    <2>1. ItemsOK(i)'
      BY <1>1, <1>2, <1>3, <1>5 DEF ItemsOK, At
    <2>2. CdcIn(i)' = {}
      BY <1>2, <1>5 DEF CdcIn
    <2>3. BatchOK(i)'
      BY <1>5, <2>2 DEF BatchOK
    <2>4. QED
      BY <1>1, <1>2, <1>3, <1>5, <2>1, <2>3, DataStep
  <1>6. CASE /\ inst'[i].phase = "collect" /\ inst'[i].size = inst[i].size
             /\ inst'[i].buffer = Drop(i, n) /\ target' = Written(i, FALSE)[n]
    <2>1. (ItemsOK(i) /\ BatchOK(i))'
      BY <1>1, <1>2, <1>3, <1>4, <1>6, DropKeeps
    <2>2. target' \in Tables
      BY <1>1, <1>4, <1>6, WrittenStep
    <2>3. Len(inst'[i].buffer) <= BufferSize
      <3>1. Len(inst'[i].buffer) = Len(inst[i].buffer) - n /\ Len(inst[i].buffer) \in Nat
        BY <1>1, <1>4, <1>6, DropItems
      <3>2. QED
        BY <1>1, <3>1, SizesAssumption
    <2>4. QED
      BY <1>1, <1>2, <1>3, <2>1, <2>2, <2>3, DataStep
  <1>7. QED
    BY <1>2, <1>5, <1>6

LEMMA TFlushSnapshotDoNothing ==
  ASSUME TInv, NEW i \in Instances, FlushSnapshotDoNothing(i)
  PROVE  TInv'
  <1>0. TypeOK /\ ShapeInv
    BY DEF TInv
  <1>1. /\ inst \in [Instances -> Instance] /\ target \in Tables /\ LogOK /\ ItemsOK(i) /\ BatchOK(i)
        /\ inst[i].pos <= Len(log) /\ Len(inst[i].buffer) <= BufferSize
        /\ chunks \in [Chunks -> {"pending", "completed"} \cup Instances]
        /\ confirmed \in {NoSlot} \cup (0 .. Len(log)) /\ (scenario.only => confirmed = NoSlot)
    BY <1>0 DEF TypeOK, ShapeInv, SlotOK
  <1> DEFINE n == inst[i].size
  <1>2. /\ n \in 1 .. Len(inst[i].buffer)
        /\ inst' \in [Instances -> Instance] /\ \A x \in Instances : x # i => inst'[x] = inst[x]
        /\ inst'[i].fromSnapshot = inst[i].fromSnapshot
        /\ inst'[i].pc = inst[i].pc /\ inst'[i].pos = inst[i].pos /\ inst'[i].rows = inst[i].rows
        /\ inst'[i].phase = "collect" /\ inst'[i].buffer = Drop(i, n)
    BY <1>0, <1>1, BatchDropped DEF FlushSnapshotDoNothing
  <1>3. /\ UNCHANGED <<scenario, source, log, job, chunks, confirmed, streamer, crashes, rewound, mishaps>>
        /\ target' = Written(i, TRUE)[n]
    BY DEF FlushSnapshotDoNothing, history
  <1> HIDE DEF n
  <1>4. n \in 0 .. Len(inst[i].buffer)
    BY <1>2
  <1>5. (ItemsOK(i) /\ BatchOK(i))'
    BY <1>1, <1>2, <1>3, <1>4, DropKeeps
  <1>6. target' \in Tables
    BY <1>1, <1>3, <1>4, WrittenStep
  <1>7. Len(inst'[i].buffer) <= BufferSize
    <2>1. Len(inst'[i].buffer) = Len(inst[i].buffer) - n /\ Len(inst[i].buffer) \in Nat
      BY <1>1, <1>2, <1>4, DropItems
    <2>2. QED
      BY <1>1, <1>4, <2>1, SizesAssumption
  <1>8. QED
    BY <1>1, <1>2, <1>3, <1>5, <1>6, <1>7, DataStep

LEMMA TFlushGeneric ==
  ASSUME TInv, NEW i \in Instances, FlushGeneric(i)
  PROVE  TInv'
  <1>0. TypeOK /\ ShapeInv
    BY DEF TInv
  <1>1. /\ inst \in [Instances -> Instance] /\ target \in Tables /\ LogOK /\ ItemsOK(i) /\ BatchOK(i)
        /\ inst[i].pos <= Len(log) /\ Len(inst[i].buffer) <= BufferSize
        /\ chunks \in [Chunks -> {"pending", "completed"} \cup Instances]
        /\ confirmed \in {NoSlot} \cup (0 .. Len(log)) /\ (scenario.only => confirmed = NoSlot)
    BY <1>0 DEF TypeOK, ShapeInv, SlotOK
  <1>2. PICK n \in 1 .. Len(inst[i].buffer) :
          /\ inst' \in [Instances -> Instance] /\ \A x \in Instances : x # i => inst'[x] = inst[x]
          /\ inst'[i].fromSnapshot = inst[i].fromSnapshot
          /\ inst'[i].pc = inst[i].pc /\ inst'[i].pos = inst[i].pos /\ inst'[i].rows = inst[i].rows
          /\ inst[i].phase = "collect" /\ inst'[i].phase = "ack" /\ inst'[i].size = n
          /\ inst'[i].buffer = inst[i].buffer /\ target' = Written(i, FALSE)[n]
          /\ \E m \in 1 .. n : inst[i].buffer[m].source = "cdc"
    BY <1>0, GenericFlushes
  <1>3. /\ UNCHANGED <<scenario, source, log, job, chunks, confirmed, streamer, crashes, rewound>>
        /\ mishaps' \subseteq Mishaps
    BY <1>0 DEF FlushGeneric, TypeOK, Mishaps
  <1>4. ItemsOK(i)'
    BY <1>1, <1>2, <1>3 DEF ItemsOK, At
  <1>5. CdcIn(i)' # {}
    BY <1>2 DEF CdcIn
  <1>6. BatchOK(i)'
    BY <1>2, <1>5 DEF BatchOK
  <1>7. target' \in Tables
    <2>1. n \in 0 .. Len(inst[i].buffer)
      OBVIOUS
    <2>2. QED
      BY <1>1, <1>2, <2>1, WrittenStep
  <1>8. QED
    BY <1>1, <1>2, <1>3, <1>4, <1>6, <1>7, DataStep

\* What is confirmed when a batch is acknowledged: the last change of it.
LEMMA AckConfirms ==
  ASSUME TInv, NEW i \in Instances, AckBatch(i)
  PROVE  \E n \in 1 .. inst[i].size :
           /\ Cdc(i, n) /\ PosAt(i, n) = confirmed' /\ confirmed' \in DOMAIN log
           /\ At(i, "stream")
           /\ \A m \in 1 .. inst[i].size : Cdc(i, m) => m <= n
  <1>0. TypeOK /\ ShapeInv
    BY DEF TInv
  <1>1. inst \in [Instances -> Instance] /\ ItemsOK(i) /\ BatchOK(i)
    BY <1>0 DEF TypeOK, ShapeInv
  <1>2. inst[i].size \in 1 .. Len(inst[i].buffer) /\ CdcIn(i) # {} /\ inst[i].size \in Nat
    BY <1>1, InstanceFields DEF AckBatch, BatchOK
  <1>3. /\ Max(CdcIn(i)) \in CdcIn(i) /\ \A m \in CdcIn(i) : m <= Max(CdcIn(i))
    BY <1>2, LastCdc
  <1>4. PICK n : n = Max(CdcIn(i))
    OBVIOUS
  <1>5. n \in CdcIn(i) /\ (\A m \in CdcIn(i) : m <= n) /\ confirmed' = inst[i].buffer[n].pos
    BY <1>3, <1>4 DEF AckBatch
  <1>6. n \in 1 .. inst[i].size /\ inst[i].buffer[n].source = "cdc"
    BY <1>5 DEF CdcIn
  <1>7. \A m \in 1 .. inst[i].size : m \in DOMAIN inst[i].buffer
    <2>1. inst[i].buffer \in Seq(Item)
      BY <1>1, InstanceFields
    <2>2. DOMAIN inst[i].buffer = 1 .. Len(inst[i].buffer) /\ Len(inst[i].buffer) \in Nat
      BY <2>1
    <2>3. QED
      BY <1>2, <2>2
  <1>8. Cdc(i, n) /\ PosAt(i, n) = confirmed'
    BY <1>5, <1>6, <1>7 DEF Cdc, PosAt
  <1>9. confirmed' \in DOMAIN log /\ At(i, "stream")
    BY <1>1, <1>5, <1>6, <1>7 DEF ItemsOK
  <1>10. \A m \in 1 .. inst[i].size : Cdc(i, m) => m <= n
    BY <1>5 DEF Cdc, CdcIn
  <1>11. QED
    BY <1>6, <1>8, <1>9, <1>10

LEMMA TAckBatch ==
  ASSUME TInv, NEW i \in Instances, AckBatch(i)
  PROVE  TInv'
  <1>0. TypeOK /\ ShapeInv
    BY DEF TInv
  <1>1. /\ inst \in [Instances -> Instance] /\ target \in Tables /\ ItemsOK(i) /\ BatchOK(i)
        /\ inst[i].pos <= Len(log) /\ Len(inst[i].buffer) <= BufferSize
        /\ chunks \in [Chunks -> {"pending", "completed"} \cup Instances]
        /\ log \in Seq(Message)
    BY <1>0 DEF TypeOK, ShapeInv
  <1> DEFINE n == inst[i].size
  <1>2. /\ n \in 1 .. Len(inst[i].buffer)
        /\ inst' \in [Instances -> Instance] /\ \A x \in Instances : x # i => inst'[x] = inst[x]
        /\ inst'[i].fromSnapshot = inst[i].fromSnapshot
        /\ inst'[i].pc = inst[i].pc /\ inst'[i].pos = inst[i].pos /\ inst'[i].rows = inst[i].rows
        /\ inst'[i].phase = "collect" /\ inst'[i].buffer = Drop(i, n)
    BY <1>0, <1>1, BatchDropped DEF AckBatch
  <1>3. UNCHANGED <<scenario, source, log, job, chunks, streamer, target, crashes, rewound, mishaps>>
    BY DEF AckBatch, history
  <1> HIDE DEF n
  <1>4. n \in 0 .. Len(inst[i].buffer)
    BY <1>2
  <1>5. (ItemsOK(i) /\ BatchOK(i))'
    BY <1>1, <1>2, <1>3, <1>4, DropKeeps
  <1>6. confirmed' \in DOMAIN log /\ At(i, "stream")
    BY AckConfirms
  <1>7. ~ scenario.only
    BY <1>0, <1>6 DEF ShapeInv, SlotOK, At
  <1>8. confirmed' \in {NoSlot} \cup (0 .. Len(log)) /\ confirmed' # NoSlot
    BY <1>1, <1>6 DEF NoSlot
  <1>9. Len(inst'[i].buffer) <= BufferSize
    <2>1. Len(inst'[i].buffer) = Len(inst[i].buffer) - n /\ Len(inst[i].buffer) \in Nat
      BY <1>1, <1>2, <1>4, DropItems
    <2>2. QED
      BY <1>1, <1>4, <2>1, SizesAssumption
  <1>10. QED
    BY <1>1, <1>2, <1>3, <1>5, <1>7, <1>8, <1>9, DataStep

\* A process that starts has nothing in memory.
LEMMA FreshInstance ==
  ASSUME NEW p \in PCs
  PROVE  LET f == [Fresh EXCEPT !.pc = p]
         IN /\ f \in Instance /\ f.pc = p /\ f.rows = << >> /\ f.buffer = << >>
            /\ f.phase = "collect" /\ f.pos = 0
  <1>1. /\ Fresh \in Instance /\ Fresh.rows = << >> /\ Fresh.buffer = << >>
        /\ Fresh.phase = "collect" /\ Fresh.pos = 0
    BY SizesAssumption DEF Fresh, Instance, PCs
  <1> HIDE DEF Fresh
  <1> DEFINE f == [Fresh EXCEPT !.pc = p]
  <1>2. /\ f \in Instance /\ f.pc = p /\ f.rows = Fresh.rows /\ f.buffer = Fresh.buffer
        /\ f.phase = Fresh.phase /\ f.pos = Fresh.pos
    BY <1>1 DEF Instance
  <1> HIDE DEF f
  <1>3. QED
    BY <1>1, <1>2 DEF f

\* What a crash, a restart and an election that comes too late leave of the process, and
\* what they leave alone.
LEMMA CrashOrRestart ==
  ASSUME TypeOK, NEW i \in Instances, Crash(i) \/ Restart(i) \/ ElectTooLate(i)
  PROVE  /\ inst' \in [Instances -> Instance] /\ \A x \in Instances : x # i => inst'[x] = inst[x]
         /\ inst'[i].pc \in {"down", "start"} /\ inst'[i].rows = << >> /\ inst'[i].buffer = << >>
         /\ inst'[i].phase = "collect" /\ inst'[i].pos = 0
         /\ UNCHANGED <<scenario, source, log, chunks, confirmed, target>>
         /\ job' = [job EXCEPT !.coordinator = job'.coordinator]
         /\ job'.coordinator \in {job.coordinator, Nobody}
         /\ job'.coordinator # job.coordinator => job.coordinator = i
         /\ streamer' \in {streamer, Nobody} /\ (streamer' # streamer => streamer = i)
         /\ crashes' \in 0 .. MaxCrashes /\ rewound' = rewound /\ mishaps \subseteq mishaps'
         /\ mishaps' \subseteq Mishaps /\ (InOrder' => InOrder)
  <1>1. inst \in [Instances -> Instance] /\ job \in Job /\ crashes \in 0 .. MaxCrashes
    BY DEF TypeOK
  <1> DEFINE f(p) == [Fresh EXCEPT !.pc = p]
  <1>2. CASE Crash(i)
    <2>1. inst' = [inst EXCEPT ![i] = f("down")]
      BY <1>2 DEF Crash
    <2>2. /\ f("down") \in Instance /\ f("down").pc = "down" /\ f("down").rows = << >>
          /\ f("down").buffer = << >> /\ f("down").phase = "collect" /\ f("down").pos = 0
      BY FreshInstance DEF PCs
    <2> HIDE DEF f
    <2>3. /\ inst' \in [Instances -> Instance] /\ \A x \in Instances : x # i => inst'[x] = inst[x]
          /\ inst'[i] = f("down")
      BY <1>1, <2>1, <2>2
    <2>4. crashes' \in 0 .. MaxCrashes
      BY <1>1, <1>2, MaxCrashesAssumption DEF Crash
    <2>5. /\ job' = [job EXCEPT !.coordinator = job'.coordinator]
          /\ job'.coordinator \in {job.coordinator, Nobody}
          /\ job'.coordinator # job.coordinator => job.coordinator = i
      BY <1>1, <1>2 DEF Crash, Job
    <2>6. /\ UNCHANGED <<scenario, source, log, chunks, confirmed, target>>
          /\ streamer' \in {streamer, Nobody} /\ (streamer' # streamer => streamer = i)
      BY <1>2 DEF Crash
    <2>7. /\ rewound' = rewound /\ mishaps \subseteq mishaps' /\ mishaps' \subseteq Mishaps
          /\ InOrder' => InOrder
      BY <1>2 DEF Crash, TypeOK, Mishaps, InOrder
    <2>8. QED
      BY <2>2, <2>3, <2>4, <2>5, <2>6, <2>7
  <1>3. CASE Restart(i)
    <2>0. Fresh = f("start")
      BY DEF Fresh
    <2>1. inst' = [inst EXCEPT ![i] = f("start")]
      BY <1>3, <2>0 DEF Restart
    <2>2. /\ f("start") \in Instance /\ f("start").pc = "start" /\ f("start").rows = << >>
          /\ f("start").buffer = << >> /\ f("start").phase = "collect" /\ f("start").pos = 0
      BY FreshInstance DEF PCs
    <2> HIDE DEF f
    <2>3. /\ inst' \in [Instances -> Instance] /\ \A x \in Instances : x # i => inst'[x] = inst[x]
          /\ inst'[i] = f("start")
      BY <1>1, <2>1, <2>2
    <2>4. /\ job' = [job EXCEPT !.coordinator = job'.coordinator]
          /\ job'.coordinator \in {job.coordinator, Nobody}
          /\ job'.coordinator # job.coordinator => job.coordinator = i
      BY <1>1, <1>3 DEF Restart, Job
    <2>5. QED
      BY <1>1, <1>3, <2>2, <2>3, <2>4 DEF Restart, history, TypeOK, InOrder
  <1>4. CASE ElectTooLate(i)
    <2>1. inst' = [inst EXCEPT ![i] = f("down")]
      BY <1>4 DEF ElectTooLate
    <2>2. /\ f("down") \in Instance /\ f("down").pc = "down" /\ f("down").rows = << >>
          /\ f("down").buffer = << >> /\ f("down").phase = "collect" /\ f("down").pos = 0
      BY FreshInstance DEF PCs
    <2> HIDE DEF f
    <2>3. /\ inst' \in [Instances -> Instance] /\ \A x \in Instances : x # i => inst'[x] = inst[x]
          /\ inst'[i] = f("down")
      BY <1>1, <2>1, <2>2
    <2>4. /\ job' = [job EXCEPT !.coordinator = job'.coordinator]
          /\ job'.coordinator \in {job.coordinator, Nobody}
          /\ job'.coordinator # job.coordinator => job.coordinator = i
      BY <1>1, <1>4 DEF ElectTooLate, Job
    <2>5. QED
      BY <1>1, <1>4, <2>2, <2>3, <2>4 DEF ElectTooLate, history, TypeOK, InOrder
  <1>5. QED
    BY <1>2, <1>3, <1>4

LEMMA TCrashOrRestart ==
  ASSUME TInv, NEW i \in Instances, Crash(i) \/ Restart(i) \/ ElectTooLate(i)
  PROVE  TInv'
  <1>0. TypeOK /\ ShapeInv
    BY DEF TInv
  <1>1. /\ inst' \in [Instances -> Instance] /\ \A x \in Instances : x # i => inst'[x] = inst[x]
        /\ inst'[i].pc \in {"down", "start"} /\ inst'[i].rows = << >> /\ inst'[i].buffer = << >>
        /\ inst'[i].phase = "collect" /\ inst'[i].pos = 0
        /\ UNCHANGED <<scenario, source, log, chunks, confirmed, target>>
        /\ job' = [job EXCEPT !.coordinator = job'.coordinator]
        /\ job'.coordinator \in {job.coordinator, Nobody}
        /\ job'.coordinator # job.coordinator => job.coordinator = i
        /\ streamer' \in {streamer, Nobody} /\ (streamer' # streamer => streamer = i)
        /\ crashes' \in 0 .. MaxCrashes /\ rewound' = rewound /\ mishaps' \subseteq Mishaps
    BY <1>0, CrashOrRestart
  <1>2. /\ job' \in Job /\ job'.lsn = job.lsn /\ job'.state = job.state
    BY <1>0, <1>1 DEF TypeOK, Job
  <1>3. \A x \in Instances : Len(inst'[x].buffer) <= BufferSize /\ inst'[x].pos <= Len(log)
    <2>1. Len(<< >>) <= BufferSize /\ 0 <= Len(log)
      BY <1>0, SizesAssumption DEF TypeOK
    <2>2. QED
      BY <1>0, <1>1, <2>1 DEF TypeOK
  <1>4. TypeOK'
    BY <1>0, <1>1, <1>2, <1>3 DEF TypeOK
  <1>5. LogOK'
    BY <1>0, <1>1 DEF ShapeInv, LogOK
  <1>6. SlotOK'
    <2>1. ASSUME NEW x \in Instances, x # i
          PROVE  /\ inst'[x] = inst[x]
                 /\ inst'[x].pc = "export" => job'.coordinator = x /\ job.state = "preparing"
      BY <1>0, <1>1, <2>1 DEF ShapeInv, SlotOK, At
    <2>2. QED
      BY <1>0, <1>1, <1>2, <2>1 DEF ShapeInv, SlotOK, At
  <1>7. ASSUME NEW x \in Instances PROVE (ItemsOK(x) /\ BatchOK(x))'
    <2>1. CASE x = i
      BY <1>1, <2>1 DEF ItemsOK, BatchOK
    <2>2. CASE x # i
      <3>1. ItemsOK(x) /\ BatchOK(x) /\ inst'[x] = inst[x] /\ DOMAIN log \subseteq DOMAIN log'
        BY <1>0, <1>1, <2>2 DEF ShapeInv
      <3>2. QED
        BY <3>1, ItemsKept
    <2>3. QED
      BY <2>1, <2>2
  <1>8. QED
    BY <1>4, <1>5, <1>6, <1>7 DEF TInv, ShapeInv

\* Initially.
LEMMA TInit ==
  ASSUME Init
  PROVE  TInv
  <1> DEFINE row == [v |-> 1, t |-> 1]
  <1>1. source \in Tables /\ target \in Tables
    BY DEF Init, Tables, Row
  <1>2. job \in Job /\ job.lsn = 0 /\ job.state = "none" /\ job.coordinator = Nobody
    BY <1>1 DEF Init, Job
  <1>3. log \in Seq(Message) /\ log = << >> /\ Len(log) = 0
    BY DEF Init
  <1>4. /\ Fresh \in Instance /\ Fresh.pc = "start" /\ Fresh.rows = << >> /\ Fresh.buffer = << >>
        /\ Fresh.phase = "collect" /\ Fresh.pos = 0
    BY SizesAssumption DEF Fresh, Instance, PCs
  <1>5. inst \in [Instances -> Instance] /\ \A i \in Instances : inst[i] = Fresh
    <2> HIDE DEF Fresh
    <2>1. QED
      BY <1>4 DEF Init
  <1>6. TypeOK
    <2>1. \A i \in Instances : Len(inst[i].buffer) <= BufferSize /\ inst[i].pos <= Len(log)
      BY <1>3, <1>4, <1>5, SizesAssumption
    <2>2. crashes \in 0 .. MaxCrashes /\ rewound \in BOOLEAN /\ mishaps \subseteq Mishaps
      <3>1. crashes \in 0 .. MaxCrashes
        BY MaxCrashesAssumption DEF Init
      <3>2. rewound \in BOOLEAN /\ mishaps \subseteq Mishaps
        BY Zenon DEF Init
      <3>3. QED
        BY <3>1, <3>2
    <2>3. /\ scenario \in Scenarios /\ chunks \in [Chunks -> {"pending", "completed"} \cup Instances]
          /\ confirmed \in {NoSlot} \cup (0 .. Len(log)) /\ streamer \in Instances \cup {Nobody}
      BY DEF Init
    <2>4. job.lsn <= Len(log)
      BY <1>2, <1>3
    <2>5. QED
      BY <1>1, <1>2, <1>3, <1>5, <2>1, <2>2, <2>3, <2>4, Zenon DEF TypeOK
  <1>7. LogOK
    BY <1>3 DEF LogOK
  <1>8. SlotOK
    BY <1>2, <1>4, <1>5 DEF Init, SlotOK, At
  <1>9. \A i \in Instances : ItemsOK(i) /\ BatchOK(i)
    BY <1>4, <1>5 DEF ItemsOK, BatchOK
  <1>10. QED
    BY <1>6, <1>7, <1>8, <1>9 DEF TInv, ShapeInv

LEMMA TStutter ==
  ASSUME TInv, UNCHANGED vars
  PROVE  TInv'
  <1>1. UNCHANGED <<scenario, source, log, job, chunks, confirmed, streamer, target, inst, crashes,
                  rewound, mishaps>>
    BY DEF vars, history
  <1>2. TypeOK'
    BY <1>1 DEF TInv, TypeOK
  <1>3. LogOK' /\ SlotOK'
    BY <1>1 DEF TInv, ShapeInv, LogOK, SlotOK, At
  <1>4. ASSUME NEW x \in Instances PROVE (ItemsOK(x) /\ BatchOK(x))'
    <2>1. ItemsOK(x) /\ BatchOK(x)
      BY DEF TInv, ShapeInv
    <2>2. QED
      BY <1>1, <2>1, ItemsKept
  <1>5. QED
    BY <1>2, <1>3, <1>4 DEF TInv, ShapeInv

LEMMA TStep ==
  ASSUME TInv, [Next]_vars
  PROVE  TInv'
  <1>1. CASE SourceCommit
    BY <1>1, TSourceCommit
  <1>2. ASSUME NEW i \in Instances, SnapshotStep(i) PROVE TInv'
    BY <1>2, TStartCompleted, TCreateSlot, TElect, TCrashOrRestart, TExportSnapshot, TJoin, TClaimChunk, THandleSnapshot,
       TMarkChunkCompleted, TFinishSnapshot, TProduceDone DEF SnapshotStep
  <1>3. ASSUME NEW i \in Instances, StreamStep(i) PROVE TInv'
    BY <1>3, TOpenStream, TReceive DEF StreamStep
  <1>4. ASSUME NEW i \in Instances, ProduceStep(i) PROVE TInv'
    BY <1>4, TFlushSnapshotCopy, TFlushSnapshotDoNothing, TFlushGeneric, TAckBatch DEF ProduceStep
  <1>5. ASSUME NEW i \in Instances, Crash(i) \/ Restart(i) PROVE TInv'
    BY <1>5, TCrashOrRestart
  <1>6. CASE UNCHANGED vars
    BY <1>6, TStutter
  <1>7. QED
    BY <1>1, <1>2, <1>3, <1>4, <1>5, <1>6 DEF Next

\* The memory of the processes, the job and the slot have their types: a batch fits,
\* no position is past the log, and every statement is about one whole row.
THEOREM MigrationTypeCorrect == Spec => []TypeOK
  <1>1. Init => TInv
    BY TInit
  <1>2. TInv /\ [Next]_vars => TInv'
    BY TStep
  <1>3. TInv => TypeOK
    BY DEF TInv
  <1>4. QED
    BY <1>1, <1>2, <1>3, PTL DEF Spec

-----------------------------------------------------------------------------
(* Why a kept row is current.                                              *)

MInv == TypeOK /\ ShapeInv /\ CurrentInv

\* The types that the argument needs.
LEMMA MTypes ==
  ASSUME TypeOK
  PROVE  /\ inst \in [Instances -> Instance] /\ job \in Job /\ job.view \in Tables
         /\ job.lsn \in Nat /\ confirmed \in Int /\ target \in Tables /\ source \in Tables
         /\ log \in Seq(Message) /\ Len(log) \in Nat /\ DOMAIN log = 1 .. Len(log)
         /\ scenario \in Scenarios
  BY DEF TypeOK, Job, NoSlot

\* A step that leaves alone what is written, what is on its way to be written, and who
\* streams.
LEMMA Quiet ==
  ASSUME TypeOK, CurrentInv,
         UNCHANGED <<source, log, confirmed, streamer, target, rewound>>,
         job'.view = job.view, job'.lsn = job.lsn,
         \A x \in Instances :
           /\ inst'[x].rows = inst[x].rows /\ inst'[x].buffer = inst[x].buffer
           /\ inst'[x].phase = inst[x].phase /\ inst'[x].size = inst[x].size
           /\ inst'[x].pos = inst[x].pos /\ At(x, "stream")' = At(x, "stream"),
         JobOK(target)'
  PROVE  CurrentInv'
  <1>1. ShowsLast(source)' /\ ShowsLast(job.view)'
    BY DEF CurrentInv, ShowsLast
  <1>2. ASSUME NEW x \in Instances PROVE (ViewOK(x) /\ StreamOK(x))'
    <2>1. ViewOK(x) /\ StreamOK(x)
      BY SMTT(60) DEF CurrentInv
    <2>2. ViewOK(x)'
      BY <2>1 DEF ViewOK, OfView
    <2>3. StreamOK(x)'
      <3>1. \A n : (Cdc(x, n) <=> Cdc(x, n)') /\ PosAt(x, n)' = PosAt(x, n)
        BY DEF Cdc, PosAt
      <3>2. QED
        BY <2>1, <3>1 DEF StreamOK
    <2>4. QED
      BY <2>2, <2>3
  <1>3. CurrentOK'
    <2>1. ASSUME NEW x \in Instances
          PROVE  ComingAfter(x, Executed(x))' = ComingAfter(x, Executed(x))
      <3>1. \A n : (Cdc(x, n) <=> Cdc(x, n)') /\ PosAt(x, n)' = PosAt(x, n)
        BY DEF Cdc, PosAt
      <3>2. Executed(x)' = Executed(x)
        BY DEF Executed
      <3>3. QED
        BY <3>1, <3>2 DEF ComingAfter
    <2>2. \A k \in Keys : Lacking(target, k)' = Lacking(target, k)
      BY DEF Lacking
    <2>3. CurrentOK
      BY SMTT(60) DEF CurrentInv
    <2>4. QED
      BY <2>1, <2>2, <2>3 DEF CurrentOK, Coming
  <1>4. QED
    BY <1>1, <1>2, <1>3 DEF CurrentInv

\* What is said of a process that takes no step.
LEMMA OtherView ==
  ASSUME NEW x \in Instances, inst'[x] = inst[x], job'.view = job.view, ViewOK(x)
  PROVE  ViewOK(x)'
  BY DEF ViewOK, OfView

LEMMA OtherStream ==
  ASSUME NEW x \in Instances, inst'[x] = inst[x], confirmed' = confirmed,
         rewound' = rewound, job'.lsn = job.lsn,
         At(x, "stream") => streamer' = x, StreamOK(x)
  PROVE  StreamOK(x)'
  <1>1. \A n : (Cdc(x, n) <=> Cdc(x, n)') /\ PosAt(x, n)' = PosAt(x, n)
    BY DEF Cdc, PosAt
  <1>2. At(x, "stream")' = At(x, "stream")
    BY DEF At
  <1>3. QED
    BY <1>1, <1>2 DEF StreamOK

LEMMA OtherComing ==
  ASSUME NEW x \in Instances, inst'[x] = inst[x]
  PROVE  ComingAfter(x, Executed(x))' = ComingAfter(x, Executed(x))
  BY DEF ComingAfter, Executed, At, Cdc, PosAt

\* Only a process that streams has changes.
LEMMA NoChanges ==
  ASSUME NEW x \in Instances, ItemsOK(x), ~ At(x, "stream")
  PROVE  \A n \in DOMAIN inst[x].buffer : ~ Cdc(x, n)
  BY DEF ItemsOK, Cdc

LEMMA IdleStream ==
  ASSUME NEW x \in Instances, inst'[x] = inst[x], ItemsOK(x), ~ At(x, "stream")
  PROVE  StreamOK(x)'
  <1>1. \A n \in DOMAIN inst'[x].buffer : ~ Cdc(x, n)'
    BY NoChanges DEF Cdc
  <1>2. ~ At(x, "stream")'
    BY DEF At
  <1>3. QED
    BY <1>1, <1>2 DEF StreamOK

\* The positions of the items are numbers.
LEMMA PosTyped ==
  ASSUME inst \in [Instances -> Instance], NEW i \in Instances, NEW n \in DOMAIN inst[i].buffer
  PROVE  PosAt(i, n) \in Nat
  <1>1. inst[i].buffer \in Seq(Item)
    BY InstanceFields
  <1>2. inst[i].buffer[n] \in Item
    BY <1>1
  <1>3. QED
    BY <1>2, ItemFields DEF PosAt

\* The changes in a buffer whose first n items were dropped.
LEMMA DropChanges ==
  ASSUME inst \in [Instances -> Instance], NEW i \in Instances,
         NEW L, L = Len(inst[i].buffer), NEW n \in 0 .. L,
         inst'[i].buffer = Drop(i, n)
  PROVE  /\ DOMAIN inst'[i].buffer = 1 .. (L - n)
         /\ \A m \in 1 .. (L - n) :
              /\ m + n \in DOMAIN inst[i].buffer /\ inst'[i].buffer[m] = inst[i].buffer[m + n]
              /\ Cdc(i, m)' <=> Cdc(i, m + n)
              /\ PosAt(i, m)' = PosAt(i, m + n)
  <1>1. /\ L \in Nat /\ DOMAIN inst[i].buffer = 1 .. L
        /\ DOMAIN Drop(i, n) = 1 .. (L - n)
        /\ \A m \in 1 .. (L - n) : Drop(i, n)[m] = inst[i].buffer[m + n]
    BY DropItems
  <1>2. DOMAIN inst'[i].buffer = 1 .. (L - n)
    BY <1>1
  <1>3. ASSUME NEW m \in 1 .. (L - n)
        PROVE  /\ m + n \in DOMAIN inst[i].buffer /\ inst'[i].buffer[m] = inst[i].buffer[m + n]
               /\ Cdc(i, m)' <=> Cdc(i, m + n)
               /\ PosAt(i, m)' = PosAt(i, m + n)
    <2>1. m + n \in 1 .. L
      BY <1>1
    <2>2. inst'[i].buffer[m] = inst[i].buffer[m + n] /\ m \in DOMAIN inst'[i].buffer
      BY <1>1, <1>2
    <2>3. QED
      BY <1>1, <2>1, <2>2 DEF Cdc, PosAt
  <1>4. QED
    BY <1>2, <1>3

\* What is coming later when e items of process i are executed and the target would be
\* the table tab.
Later(tab, i, e) ==
  /\ JobOK(tab)
  /\ \A k \in Keys : Lacking(tab, k) =>
       LET p == PositionOf(job.view[k].v)
       IN /\ (rewound \/ job.lsn < p) /\ confirmed < p
          /\ \A x \in Instances : x # i => p \in ComingAfter(x, Executed(x))
          /\ p \in ComingAfter(i, e)

LEMMA CurrentLater ==
  ASSUME JobOK(target), CurrentOK, NEW i \in Instances
  PROVE  Later(target, i, Executed(i))
  BY DEF CurrentOK, Coming, Later

\* A change the stream brings next but one item that is not it.
LEMMA ComingNext ==
  ASSUME NEW i \in Instances, NEW e \in Nat, NEW p \in ComingAfter(i, e),
         Cdc(i, e + 1) => PosAt(i, e + 1) # p, DOMAIN inst[i].buffer \subseteq Nat
  PROVE  p \in ComingAfter(i, e + 1)
  <1>1. p \in Nat
    BY DEF ComingAfter
  <1>2. ASSUME At(i, "stream")
        PROVE  \/ inst[i].pos < p
               \/ \E n \in DOMAIN inst[i].buffer : e + 1 < n /\ Cdc(i, n) /\ PosAt(i, n) = p
    <2>1. CASE inst[i].pos < p
      BY <2>1
    <2>2. CASE \E n \in DOMAIN inst[i].buffer : e < n /\ Cdc(i, n) /\ PosAt(i, n) = p
      <3>1. PICK n \in DOMAIN inst[i].buffer : e < n /\ Cdc(i, n) /\ PosAt(i, n) = p
        BY <2>2
      <3>2. n # e + 1
        BY <3>1
      <3>3. n \in Nat
        OBVIOUS
      <3>4. e + 1 < n
        BY <3>1, <3>2, <3>3
      <3>5. QED
        BY <3>1, <3>4
    <2>3. QED
      BY <1>2, <2>1, <2>2 DEF ComingAfter
  <1>3. QED
    BY <1>1, <1>2 DEF ComingAfter

\* The statement for the next item keeps what is coming: the row it writes is that of
\* the snapshot, or it is the change at q; a row of the snapshot that is newer than
\* that was written by a change after q, which the stream has still to bring.  The
\* change that wrote another row of the snapshot is not the one at q.
LEMMA WriteLater ==
  ASSUME MInv, NEW i \in Instances, NEW tab \in Tables, NEW keep \in BOOLEAN,
         NEW e \in 0 .. (Len(inst[i].buffer) - 1), Later(tab, i, e)
  PROVE  Later(Write(tab, inst[i].buffer[e + 1], keep), i, e + 1)
  <1>0. TypeOK /\ ShapeInv /\ CurrentInv
    BY DEF MInv
  <1>1. /\ inst \in [Instances -> Instance] /\ job.view \in Tables /\ job.lsn \in Nat /\ confirmed \in Int
        /\ LogOK /\ ItemsOK(i) /\ StreamOK(i) /\ ViewOK(i) /\ ShowsLast(job.view)
        /\ DOMAIN log = 1 .. Len(log) /\ Len(log) \in Nat
    BY <1>0, MTypes DEF ShapeInv, CurrentInv
  <1>s. At(i, "stream") => job.state = "completed" /\ confirmed \in Nat
    BY <1>0 DEF ShapeInv, SlotOK, TypeOK, NoSlot
  <1> DEFINE b == inst[i].buffer
             it == b[e + 1]
             new == Write(tab, it, keep)
  <1>2. b \in Seq(Item)
    BY <1>1, InstanceFields
  <1>3. e + 1 \in DOMAIN b /\ DOMAIN b \subseteq Nat /\ e \in Nat
    BY <1>2
  <1>4. /\ it \in Item
        /\ it.source # "cdc" => it.source = "snapshot" /\ FullRow(it.data)
        /\ it.source = "cdc" => it.pos \in DOMAIN log /\ FullRow(Decoded(log[it.pos]))
    BY <1>1, <1>3, ItemsWritable
  <1>5. new \in Tables
    BY <1>4, WriteFull
  <1>j. JobOK(new)
    <2>1. CASE it.source = "cdc"
      <3>1. At(i, "stream")
        BY <1>1, <1>3, <2>1 DEF ItemsOK
      <3>2. QED
        BY <1>s, <3>1 DEF JobOK
    <2>2. CASE it.source # "cdc"
      <3>1. /\ FullRow(it.data) /\ it.data["id"] \in Keys /\ job.view[it.data["id"]] # Absent
            /\ it.data["v"] = job.view[it.data["id"]].v
        BY <1>1, <1>3, <1>4, <2>2 DEF FullRow, ViewOK, OfView
      <3>2. new = InsertDoNothing(tab, it.data) \/ new = Upsert(tab, it.data)
        BY <2>2 DEF Write
      <3> HIDE DEF new, it
      <3>3. /\ \A x \in Keys : x # it.data["id"] => new[x] = tab[x]
            /\ new = tab \/ new[it.data["id"]].v = it.data["v"]
        <4>1. CASE new = InsertDoNothing(tab, it.data)
          BY <3>1, <4>1, InsertFull
        <4>2. CASE new = Upsert(tab, it.data)
          BY <3>1, <4>2, UpsertFull
        <4>3. QED
          BY <3>2, <4>1, <4>2
      <3>4. JobOK(tab)
        BY DEF Later
      <3>5. QED
        BY <3>1, <3>3, <3>4 DEF JobOK
    <2>3. QED
      BY <2>1, <2>2
  <1> DEFINE P(k) == PositionOf(job.view[k].v)
  <1>6. SUFFICES ASSUME NEW k \in Keys, Lacking(new, k)
                 PROVE  /\ (rewound \/ job.lsn < P(k)) /\ confirmed < P(k)
                        /\ \A x \in Instances : x # i => P(k) \in ComingAfter(x, Executed(x))
                        /\ P(k) \in ComingAfter(i, e + 1)
    BY <1>j DEF Later
  <1>7. /\ job.view[k] \in Row /\ job.view[k].v \in Nat /\ P(k) \in Int
        /\ job.view[k] # Absent /\ P(k) = job.view[k].v - 1
    <2>1. job.view[k] \in Row /\ job.view[k] # Absent
      BY <1>1, <1>6 DEF Lacking, Tables
    <2>2. job.view[k].v \in Nat
      BY <2>1 DEF Row
    <2>3. QED
      BY <2>1, <2>2 DEF PositionOf
  <1>8. /\ P(k) \in 0 .. Len(log)
        /\ P(k) > 0 => log[P(k)].op # "delete" /\ Decoded(log[P(k)])["id"] = k
    BY <1>1, <1>7 DEF ShowsLast
  <1>9. new[k].v < job.view[k].v /\ new[k] # Absent
    BY <1>6 DEF Lacking
  <1> HIDE DEF P
  <1>10. CASE new[k] = tab[k] /\ (Cdc(i, e + 1) => PosAt(i, e + 1) # P(k))
    <2>1. Lacking(tab, k)
      BY <1>7, <1>9, <1>10 DEF Lacking
    <2>2. /\ (rewound \/ job.lsn < P(k)) /\ confirmed < P(k)
          /\ \A x \in Instances : x # i => P(k) \in ComingAfter(x, Executed(x))
          /\ P(k) \in ComingAfter(i, e)
      BY <2>1 DEF Later, P
    <2>3. P(k) \in ComingAfter(i, e + 1)
      BY <1>3, <1>10, <2>2, ComingNext
    <2>4. QED
      BY <2>2, <2>3
  <1>11. CASE it.source # "cdc"
    <2>1. ~ Cdc(i, e + 1)
      BY <1>11 DEF Cdc
    <2>2. new[k] = tab[k]
      <3>a. FullRow(it.data) /\ it.data["id"] \in Keys
        BY <1>4, <1>11 DEF FullRow
      <3>b. new = InsertDoNothing(tab, it.data) \/ new = Upsert(tab, it.data)
        BY <1>11 DEF Write
      <3> HIDE DEF new, it
      <3>c. /\ \A x \in Keys : x # it.data["id"] => new[x] = tab[x]
            /\ new = tab \/ new[it.data["id"]].v = it.data["v"]
        <4>1. CASE new = InsertDoNothing(tab, it.data)
          BY <3>a, <4>1, InsertFull
        <4>2. CASE new = Upsert(tab, it.data)
          BY <3>a, <4>2, UpsertFull
        <4>3. QED
          BY <3>b, <4>1, <4>2
      <3>1. CASE k # it.data["id"]
        BY <3>1, <3>c
      <3>2. CASE k = it.data["id"]
        <4>1. it.data["v"] = job.view[k].v
          BY <1>1, <1>3, <1>4, <1>11, <3>2 DEF ViewOK, OfView, it
        <4>2. new = tab \/ new[k].v = it.data["v"]
          BY <3>2, <3>c
        <4>3. new[k].v # it.data["v"]
          BY <1>7, <1>9, <4>1
        <4>4. QED
          BY <4>2, <4>3
      <3>3. QED
        BY <3>1, <3>2
    <2>3. QED
      BY <1>10, <2>1, <2>2
  <1>12. CASE it.source = "cdc"
    <2> DEFINE q == it.pos
               d == Decoded(log[q])
    <2>1. q \in DOMAIN log /\ q \in Nat /\ FullRow(d) /\ d["id"] \in Keys
      BY <1>1, <1>4, <1>12 DEF FullRow
    <2>2. new = Execute(tab, log[q])
      BY <1>12 DEF Write
    <2>3. Cdc(i, e + 1) /\ PosAt(i, e + 1) = q
      BY <1>3, <1>12 DEF Cdc, PosAt
    <2>4. At(i, "stream")
      BY <1>1, <1>3, <1>12 DEF ItemsOK
    <2> HIDE DEF new, it
    <2>5. CASE k # d["id"]
      <3>1. new[k] = tab[k]
        BY <2>1, <2>2, <2>5, UpsertFull, DeleteFull DEF Execute
      <3>2. Lacking(tab, k)
        BY <1>7, <1>9, <3>1 DEF Lacking
      <3>3. confirmed < P(k)
        BY <3>2 DEF Later, P
      <3>4. P(k) > 0
        BY <1>s, <1>7, <2>4, <3>3
      <3>5. P(k) # q
        BY <1>8, <2>5, <3>4
      <3>6. QED
        BY <1>10, <2>3, <3>1, <3>5
    <2>6. CASE k = d["id"]
      <3>1. log[q].op # "delete" /\ new[k].v = d["v"]
        BY <1>9, <2>1, <2>2, <2>6, UpsertFull, DeleteFull DEF Execute
      <3>2. d["v"] = q + 1
        BY <1>1, <2>1, <3>1 DEF LogOK, ValueAt
      <3>3. q < P(k)
        BY <1>7, <1>9, <2>1, <3>1, <3>2
      <3>4. /\ confirmed < q /\ (rewound \/ job.lsn < q)
            /\ \A r \in (q + 1) .. inst[i].pos :
                 \E m \in DOMAIN b : e + 1 < m /\ Cdc(i, m) /\ PosAt(i, m) = r
        BY <1>1, <1>3, <2>3 DEF StreamOK
      <3>5. confirmed < P(k)
        BY <1>1, <1>7, <2>1, <3>3, <3>4
      <3>7. rewound \/ job.lsn < P(k)
        BY <1>1, <1>7, <2>1, <3>3, <3>4
      <3>8. ASSUME NEW x \in Instances, x # i PROVE P(k) \in ComingAfter(x, Executed(x))
        <4>1. ~ At(x, "stream")
          BY <1>0, <1>1, <2>4, <3>8 DEF CurrentInv, StreamOK
        <4>2. P(k) \in Nat
          BY <1>8, <1>1
        <4>3. QED
          BY <4>1, <4>2 DEF ComingAfter
      <3>9. P(k) \in ComingAfter(i, e + 1)
        <4>1. P(k) \in Nat /\ inst[i].pos \in Nat
          BY <1>8, <1>1, InstanceFields
        <4>2. CASE inst[i].pos < P(k)
          BY <4>1, <4>2 DEF ComingAfter
        <4>3. CASE P(k) <= inst[i].pos
          <5>1. P(k) \in (q + 1) .. inst[i].pos
            BY <2>1, <3>3, <4>1, <4>3
          <5>2. QED
            BY <3>4, <4>1, <5>1 DEF ComingAfter
        <4>4. QED
          BY <4>1, <4>2, <4>3
      <3>10. QED
        BY <3>5, <3>7, <3>8, <3>9
    <2>7. QED
      BY <2>5, <2>6
  <1>13. QED
    BY <1>11, <1>12

\* So does the batch.
LEMMA BatchLater ==
  ASSUME MInv, NEW i \in Instances, NEW keep \in BOOLEAN, Executed(i) = 0
  PROVE  \A n \in 0 .. Len(inst[i].buffer) : Later(Written(i, keep)[n], i, n)
  <1>0. TypeOK /\ ShapeInv /\ CurrentInv
    BY DEF MInv
  <1> DEFINE L == Len(inst[i].buffer)
             W == Written(i, keep)
             T == {n \in 0 .. L : Later(W[n], i, n)}
  <1>1. L \in Nat
    BY <1>0, MTypes, InstanceFields
  <1>2. /\ W[0] = target /\ \A n \in 0 .. L : W[n] \in Tables
        /\ \A n \in 1 .. L : W[n] = Write(W[n - 1], inst[i].buffer[n], keep)
    BY <1>0, MTypes, WrittenStep DEF ShapeInv
  <1> HIDE DEF W
  <1>3. 0 \in T
    <2>1. Later(target, i, 0)
      BY <1>0, CurrentLater DEF CurrentInv
    <2>2. QED
      BY <1>1, <1>2, <2>1
  <1>4. ASSUME NEW n \in 0 .. (L - 1), n \in T PROVE n + 1 \in T
    <2>1. n + 1 \in 1 .. L /\ n + 1 \in 0 .. L /\ (n + 1) - 1 = n /\ n \in 0 .. L
      BY <1>1
    <2>2. W[n] \in Tables /\ Later(W[n], i, n)
      BY <1>2, <1>4, <2>1
    <2>3. Later(Write(W[n], inst[i].buffer[n + 1], keep), i, n + 1)
      BY <2>2, WriteLater
    <2>4. W[n + 1] = Write(W[n], inst[i].buffer[n + 1], keep)
      BY <1>2, <2>1
    <2>5. QED
      BY <2>1, <2>3, <2>4
  <1>5. \A n \in 0 .. L : n \in T
    <2> HIDE DEF T, L
    <2>1. QED
      BY <1>1, <1>3, <1>4, UpTo
  <1>6. QED
    BY <1>5 DEF W

\* Steps that leave rows, changes and the target alone.
LEMMA MStartCompleted ==
  ASSUME MInv, NEW i \in Instances, StartCompleted(i)
  PROVE  CurrentInv'
  <1>0. TypeOK /\ CurrentInv
    BY DEF MInv
  <1>1. inst \in [Instances -> Instance]
    BY <1>0, MTypes
  <1>2. \A x \in Instances :
          /\ inst'[x].rows = inst[x].rows /\ inst'[x].buffer = inst[x].buffer
          /\ inst'[x].phase = inst[x].phase /\ inst'[x].size = inst[x].size
          /\ inst'[x].pos = inst[x].pos /\ At(x, "stream")' = At(x, "stream")
    BY <1>1 DEF StartCompleted, At, Instance
  <1>3. UNCHANGED <<scenario, source, log, job, confirmed, streamer, target, rewound>>
    BY DEF StartCompleted, history
  <1>4. JobOK(target)'
    BY <1>0, <1>2, <1>3 DEF CurrentInv, JobOK
  <1>5. QED
    BY <1>0, <1>2, <1>3, <1>4, Quiet

LEMMA MJoin ==
  ASSUME MInv, NEW i \in Instances, Join(i)
  PROVE  CurrentInv'
  <1>0. TypeOK /\ CurrentInv
    BY DEF MInv
  <1>1. inst \in [Instances -> Instance]
    BY <1>0, MTypes
  <1>2. \A x \in Instances :
          /\ inst'[x].rows = inst[x].rows /\ inst'[x].buffer = inst[x].buffer
          /\ inst'[x].phase = inst[x].phase /\ inst'[x].size = inst[x].size
          /\ inst'[x].pos = inst[x].pos /\ At(x, "stream")' = At(x, "stream")
    BY <1>1 DEF Join, At, Instance
  <1>3. UNCHANGED <<scenario, source, log, job, confirmed, streamer, target, rewound>>
    BY DEF Join, history
  <1>4. JobOK(target)'
    BY <1>0, <1>2, <1>3 DEF CurrentInv, JobOK
  <1>5. QED
    BY <1>0, <1>2, <1>3, <1>4, Quiet

LEMMA MMarkChunkCompleted ==
  ASSUME MInv, NEW i \in Instances, MarkChunkCompleted(i)
  PROVE  CurrentInv'
  <1>0. TypeOK /\ CurrentInv
    BY DEF MInv
  <1>1. inst \in [Instances -> Instance]
    BY <1>0, MTypes
  <1>2. \A x \in Instances :
          /\ inst'[x].rows = inst[x].rows /\ inst'[x].buffer = inst[x].buffer
          /\ inst'[x].phase = inst[x].phase /\ inst'[x].size = inst[x].size
          /\ inst'[x].pos = inst[x].pos /\ At(x, "stream")' = At(x, "stream")
    BY <1>1 DEF MarkChunkCompleted, At, Instance
  <1>3. UNCHANGED <<scenario, source, log, job, confirmed, streamer, target, rewound>>
    BY DEF MarkChunkCompleted, history
  <1>4. JobOK(target)'
    BY <1>0, <1>2, <1>3 DEF CurrentInv, JobOK
  <1>5. QED
    BY <1>0, <1>2, <1>3, <1>4, Quiet

LEMMA MFinishSnapshot ==
  ASSUME MInv, NEW i \in Instances, FinishSnapshot(i)
  PROVE  CurrentInv'
  <1>0. TypeOK /\ CurrentInv
    BY DEF MInv
  <1>1. inst \in [Instances -> Instance] /\ job \in Job
    BY <1>0, MTypes
  <1>2. \A x \in Instances :
          /\ inst'[x].rows = inst[x].rows /\ inst'[x].buffer = inst[x].buffer
          /\ inst'[x].phase = inst[x].phase /\ inst'[x].size = inst[x].size
          /\ inst'[x].pos = inst[x].pos /\ At(x, "stream")' = At(x, "stream")
    BY <1>1 DEF FinishSnapshot, At, Instance
  <1>3. UNCHANGED <<scenario, source, log, confirmed, streamer, target, rewound>>
    BY DEF FinishSnapshot, history
  <1>4. job'.view = job.view /\ job'.lsn = job.lsn /\ job'.state \in {job.state, "completed"}
    BY <1>1 DEF FinishSnapshot, Job
  <1>5. JobOK(target)'
    BY <1>0, <1>2, <1>3, <1>4 DEF CurrentInv, JobOK
  <1>6. QED
    BY <1>0, <1>2, <1>3, <1>4, <1>5, Quiet

LEMMA MProduceDone ==
  ASSUME MInv, NEW i \in Instances, ProduceDone(i)
  PROVE  CurrentInv'
  <1>0. TypeOK /\ CurrentInv
    BY DEF MInv
  <1>1. inst \in [Instances -> Instance] /\ job \in Job
    BY <1>0, MTypes
  <1>2. \A x \in Instances :
          /\ inst'[x].rows = inst[x].rows /\ inst'[x].buffer = inst[x].buffer
          /\ inst'[x].phase = inst[x].phase /\ inst'[x].size = inst[x].size
          /\ inst'[x].pos = inst[x].pos /\ At(x, "stream")' = At(x, "stream")
    BY <1>1 DEF ProduceDone, At, Instance
  <1>3. UNCHANGED <<scenario, source, log, confirmed, streamer, target, rewound>>
    BY DEF ProduceDone, history
  <1>4. job'.view = job.view /\ job'.lsn = job.lsn /\ job'.state = job.state
    BY <1>1 DEF ProduceDone, Job
  <1>5. JobOK(target)'
    BY <1>0, <1>3, <1>4 DEF CurrentInv, JobOK
  <1>6. QED
    BY <1>0, <1>2, <1>3, <1>4, <1>5, Quiet

LEMMA MStutter ==
  ASSUME MInv, UNCHANGED vars
  PROVE  CurrentInv'
  <1>0. TypeOK /\ CurrentInv
    BY DEF MInv
  <1>1. UNCHANGED <<scenario, source, log, job, confirmed, streamer, target, inst, rewound>>
    BY DEF vars, history
  <1>2. \A x \in Instances : At(x, "stream")' = At(x, "stream")
    BY <1>1 DEF At
  <1>3. JobOK(target)'
    BY <1>0, <1>1 DEF CurrentInv, JobOK
  <1>4. QED
    BY <1>0, <1>1, <1>2, <1>3, Quiet

\* The rows of the source and of the snapshot show the change that wrote them last.
LEMMA MSourceCommit ==
  ASSUME MInv, SourceCommit
  PROVE  CurrentInv'
  <1>0. TypeOK /\ CurrentInv
    BY DEF MInv
  <1>1. PICK m \in Message :
          /\ log' = Append(log, m)
          /\ source' \in Tables
          /\ \A k \in Keys : source'[k] # Absent =>
               \/ source'[k] = source[k]
               \/ /\ m.op # "delete" /\ Decoded(m)["id"] = k
                  /\ source'[k].v = ValueAt(Len(log) + 1)
    BY <1>0, CommitAppends
  <1>2. UNCHANGED <<scenario, job, confirmed, streamer, target, inst, rewound>>
    BY DEF SourceCommit, history
  <1>3. log \in Seq(Message) /\ Len(log) \in Nat /\ source \in Tables /\ job.view \in Tables
    BY <1>0, MTypes
  <1>4. /\ Len(log') = Len(log) + 1 /\ \A p \in 1 .. Len(log) : log'[p] = log[p]
        /\ log'[Len(log) + 1] = m
    BY <1>1, <1>3, LogGrows
  <1>5. ASSUME NEW tab \in Tables, ShowsLast(tab), NEW k \in Keys, tab[k] # Absent
        PROVE  LET p == PositionOf(tab[k].v)
               IN /\ p \in 0 .. Len(log')
                  /\ p > 0 => log'[p].op # "delete" /\ Decoded(log'[p])["id"] = k
    <2>1. PICK p : p = PositionOf(tab[k].v)
      OBVIOUS
    <2>2. p \in 0 .. Len(log) /\ (p > 0 => log[p].op # "delete" /\ Decoded(log[p])["id"] = k)
      BY <1>5, <2>1 DEF ShowsLast
    <2>3. p > 0 => log'[p] = log[p]
      BY <1>3, <1>4, <2>2
    <2>4. p \in 0 .. Len(log')
      BY <1>3, <1>4, <2>2
    <2>5. QED
      BY <2>1, <2>2, <2>3, <2>4
  <1>6. ShowsLast(job.view)'
    BY <1>0, <1>2, <1>3, <1>5 DEF CurrentInv, ShowsLast
  <1>7. ShowsLast(source)'
    <2>1. ASSUME NEW k \in Keys, source'[k] # Absent
          PROVE  LET p == PositionOf(source'[k].v)
                 IN /\ p \in 0 .. Len(log')
                    /\ p > 0 => log'[p].op # "delete" /\ Decoded(log'[p])["id"] = k
      <3>1. CASE source'[k] = source[k]
        BY <1>0, <1>3, <1>5, <2>1, <3>1 DEF CurrentInv
      <3>2. CASE /\ m.op # "delete" /\ Decoded(m)["id"] = k
                 /\ source'[k].v = ValueAt(Len(log) + 1)
        <4>1. PositionOf(source'[k].v) = Len(log) + 1
          BY <1>3, <3>2 DEF PositionOf, ValueAt
        <4>2. Len(log) + 1 \in 0 .. Len(log')
          BY <1>3, <1>4
        <4>3. QED
          BY <1>4, <3>2, <4>1, <4>2
      <3>3. QED
        BY <1>1, <2>1, <3>1, <3>2
    <2>2. QED
      BY <2>1 DEF ShowsLast
  <1>8. JobOK(target)'
    BY <1>0, <1>2 DEF CurrentInv, JobOK
  <1>9. ASSUME NEW x \in Instances PROVE (ViewOK(x) /\ StreamOK(x))'
    BY <1>0, <1>2 DEF CurrentInv, ViewOK, OfView, StreamOK, At, Cdc, PosAt
  <1>10. CurrentOK'
    BY <1>0, <1>2 DEF CurrentInv, CurrentOK, Coming, Lacking, ComingAfter, Executed, At, Cdc, PosAt
  <1>11. QED
    BY <1>6, <1>7, <1>8, <1>9, <1>10 DEF CurrentInv

\* Before the job is completed nobody streams, and no row is older than the exported
\* one.
LEMMA Before ==
  ASSUME TInv', job'.state # "completed", JobOK(target)',
         (ShowsLast(source) /\ ShowsLast(job.view))', \A x \in Instances : ViewOK(x)'
  PROVE  CurrentInv'
  <1>0. TypeOK' /\ ShapeInv'
    BY DEF TInv
  <1>1. ASSUME NEW x \in Instances PROVE StreamOK(x)'
    <2>1. ~ At(x, "stream")'
      BY <1>0 DEF ShapeInv, SlotOK
    <2>2. ItemsOK(x)'
      BY <1>0 DEF ShapeInv
    <2>3. \A n \in DOMAIN inst'[x].buffer : ~ Cdc(x, n)'
      BY <2>1, <2>2 DEF ItemsOK, Cdc
    <2>4. QED
      BY <2>1, <2>3 DEF StreamOK
  <1>2. CurrentOK'
    <2>1. ASSUME NEW k \in Keys PROVE ~ Lacking(target, k)'
      <3>1. target'[k] \in Row \cup {Absent}
        BY <1>0 DEF TypeOK, Tables
      <3>2. target'[k] # Absent => target'[k].v \in Nat /\ target'[k].v = job'.view[k].v
        BY <3>1 DEF JobOK, Row
      <3>3. QED
        BY <3>2 DEF Lacking
    <2>2. QED
      BY <2>1 DEF CurrentOK
  <1>3. QED
    BY <1>1, <1>2 DEF CurrentInv

LEMMA MCreateSlot ==
  ASSUME MInv, NEW i \in Instances, CreateSlot(i)
  PROVE  CurrentInv'
  <1>0. TypeOK /\ CurrentInv /\ TInv
    BY DEF MInv, TInv
  <1>1. TInv'
    BY <1>0, TCreateSlot
  <1>2. inst \in [Instances -> Instance]
    BY <1>0, MTypes
  <1>3. \A x \in Instances : inst'[x].rows = inst[x].rows /\ inst'[x].buffer = inst[x].buffer
    BY <1>2 DEF CreateSlot, Instance
  <1>4. UNCHANGED <<source, log, job, target>> /\ job.state # "completed"
    BY DEF CreateSlot
  <1>5. JobOK(target)' /\ (ShowsLast(source) /\ ShowsLast(job.view))'
    BY <1>0, <1>4 DEF CurrentInv, JobOK, ShowsLast
  <1>6. \A x \in Instances : ViewOK(x)'
    BY <1>0, <1>3, <1>4 DEF CurrentInv, ViewOK, OfView
  <1>7. QED
    BY <1>1, <1>4, <1>5, <1>6, Before

\* A second election changes the LSN of a job whose rows may have been written already:
\* nothing has been streamed yet.
LEMMA MElect ==
  ASSUME MInv, NEW i \in Instances, Elect(i)
  PROVE  CurrentInv'
  <1>0. TypeOK /\ CurrentInv /\ TInv
    BY DEF MInv, TInv
  <1>1. TInv'
    BY <1>0, TElect
  <1>2. inst \in [Instances -> Instance] /\ job \in Job
    BY <1>0, MTypes
  <1>3. \A x \in Instances : inst'[x].rows = inst[x].rows /\ inst'[x].buffer = inst[x].buffer
    BY <1>2 DEF Elect, Instance
  <1>4. /\ UNCHANGED <<source, log, target>> /\ job.state # "completed"
        /\ job'.view = job.view /\ job'.state = "preparing"
    BY <1>2 DEF Elect, Job
  <1>5. JobOK(target)' /\ (ShowsLast(source) /\ ShowsLast(job.view))'
    BY <1>0, <1>4 DEF CurrentInv, JobOK, ShowsLast
  <1>6. \A x \in Instances : ViewOK(x)'
    BY <1>0, <1>3, <1>4 DEF CurrentInv, ViewOK, OfView
  <1>7. QED
    BY <1>1, <1>4, <1>5, <1>6, Before

\* A second job exports what the first one did, or nothing of the first has been read.
LEMMA MExportSnapshot ==
  ASSUME MInv, InOrder', NEW i \in Instances, ExportSnapshot(i)
  PROVE  CurrentInv'
  <1>0. TypeOK /\ CurrentInv /\ TInv /\ ShapeInv
    BY DEF MInv, TInv
  <1>1. TInv'
    BY <1>0, TExportSnapshot
  <1>2. inst \in [Instances -> Instance] /\ job \in Job
    BY <1>0, MTypes
  <1>3. \A x \in Instances : inst'[x].rows = inst[x].rows /\ inst'[x].buffer = inst[x].buffer
    BY <1>2 DEF ExportSnapshot, Instance
  <1>4. UNCHANGED <<source, log, target>> /\ job'.view = source /\ job'.state = "open"
    BY <1>2 DEF ExportSnapshot, Job
  <1>5. job.state = "preparing"
    BY <1>0 DEF ShapeInv, SlotOK, ExportSnapshot
  <1>6. job.view = source \/ Untouched
    BY DEF ExportSnapshot, InOrder
  <1>7. (ShowsLast(source) /\ ShowsLast(job.view))'
    BY <1>0, <1>4 DEF CurrentInv, ShowsLast
  <1>8. JobOK(target)'
    BY <1>0, <1>4, <1>5, <1>6 DEF CurrentInv, JobOK, Untouched
  <1>9. ASSUME NEW x \in Instances PROVE ViewOK(x)'
    <2>1. CASE job.view = source
      BY <1>0, <1>3, <1>4, <2>1 DEF CurrentInv, ViewOK, OfView
    <2>2. CASE Untouched
      BY <1>3, <2>2 DEF ViewOK, Untouched
    <2>3. QED
      BY <1>6, <2>1, <2>2
  <1>10. QED
    BY <1>1, <1>4, <1>7, <1>8, <1>9, Before

LEMMA MClaimChunk ==
  ASSUME MInv, NEW i \in Instances, ClaimChunk(i)
  PROVE  CurrentInv'
  <1>0. TypeOK /\ CurrentInv
    BY DEF MInv
  <1>1. inst \in [Instances -> Instance] /\ job \in Job
    BY <1>0, MTypes
  <1>2. PICK c \in Chunks : inst' = [inst EXCEPT ![i].chunk = c, ![i].rows = RowsOf(c)]
    BY DEF ClaimChunk, history
  <1>3. \A n \in DOMAIN RowsOf(c) : OfView(RowsOf(c)[n])
    BY <1>1, RowsOfView
  <1>4. \A x \in Instances :
          /\ x # i => inst'[x].rows = inst[x].rows
          /\ inst'[x].buffer = inst[x].buffer
          /\ inst'[x].phase = inst[x].phase /\ inst'[x].size = inst[x].size
          /\ inst'[x].pos = inst[x].pos /\ inst'[x].pc = inst[x].pc
    BY <1>1, <1>2 DEF Instance
  <1>5. inst'[i].rows = RowsOf(c)
    BY <1>1, <1>2 DEF Instance
  <1>6. UNCHANGED <<scenario, source, log, job, confirmed, streamer, target, rewound>>
    BY DEF ClaimChunk, history
  <1>7. JobOK(target)'
    BY <1>0, <1>6 DEF CurrentInv, JobOK
  <1>8. ASSUME NEW x \in Instances PROVE (ViewOK(x) /\ StreamOK(x))'
    <2>1. ViewOK(x)'
      <3>1. CASE x = i
        BY <1>0, <1>3, <1>4, <1>5, <1>6, <3>1, SMTT(60) DEF CurrentInv, ViewOK, OfView
      <3>2. CASE x # i
        BY <1>0, <1>4, <1>6, <3>2 DEF CurrentInv, ViewOK, OfView
      <3>3. QED
        BY <3>1, <3>2, SMTT(60)
    <2>2. StreamOK(x)'
      <3>1. \A n : (Cdc(x, n) <=> Cdc(x, n)') /\ PosAt(x, n)' = PosAt(x, n)
        BY <1>4 DEF Cdc, PosAt
      <3>2. QED
        BY <1>0, <1>4, <1>6, <3>1 DEF CurrentInv, StreamOK, At
    <2>3. QED
      BY <2>1, <2>2
  <1>9. CurrentOK'
    <2>1. ASSUME NEW x \in Instances
          PROVE  ComingAfter(x, Executed(x))' = ComingAfter(x, Executed(x))
      <3>1. \A n : (Cdc(x, n) <=> Cdc(x, n)') /\ PosAt(x, n)' = PosAt(x, n)
        BY <1>4 DEF Cdc, PosAt
      <3>2. Executed(x)' = Executed(x)
        BY <1>4 DEF Executed
      <3>3. QED
        BY <1>4, <3>1, <3>2 DEF ComingAfter, At
    <2>2. QED
      BY <1>0, <1>6, <2>1 DEF CurrentInv, CurrentOK, Coming, Lacking
  <1>10. ShowsLast(source)' /\ ShowsLast(job.view)'
    BY <1>0, <1>6 DEF CurrentInv, ShowsLast
  <1>11. QED
    BY <1>7, <1>8, <1>9, <1>10 DEF CurrentInv

\* A step that appends one item to the buffer of process i: another row of the
\* snapshot, or the change after the last one received.
LEMMA Appends ==
  ASSUME MInv, NEW i \in Instances, NEW it \in Item,
         UNCHANGED <<scenario, source, log, job, confirmed, streamer, target, rewound>>,
         \A x \in Instances : x # i => inst'[x] = inst[x],
         inst'[i].buffer = Append(inst[i].buffer, it),
         inst'[i].phase = inst[i].phase, inst'[i].size = inst[i].size, inst'[i].pc = inst[i].pc,
         \A n \in DOMAIN inst'[i].rows : OfView(inst'[i].rows[n]),
         OfView(it),
         \/ it.source = "snapshot" /\ inst'[i].pos = inst[i].pos
         \/ /\ it.source = "cdc" /\ it.pos = inst[i].pos + 1 /\ inst'[i].pos = it.pos
            /\ At(i, "stream")
  PROVE  CurrentInv'
  <1>0. TypeOK /\ CurrentInv /\ ShapeInv
    BY DEF MInv
  <1> DEFINE b == inst[i].buffer
  <1>a. PICK L : L = Len(b)
    OBVIOUS
  <1>1. b \in Seq(Item) /\ inst[i].pos \in Nat /\ inst[i].size \in Nat /\ confirmed \in Int
        /\ job.lsn \in Nat
    BY <1>0, MTypes, InstanceFields
  <1>2. /\ L \in Nat /\ DOMAIN b = 1 .. L /\ DOMAIN inst'[i].buffer = 1 .. (L + 1)
        /\ \A n \in 1 .. L : inst'[i].buffer[n] = b[n]
        /\ inst'[i].buffer[L + 1] = it
    BY <1>a, <1>1
  <1>3. \A n \in 1 .. L : (Cdc(i, n)' <=> Cdc(i, n)) /\ PosAt(i, n)' = PosAt(i, n)
    BY <1>2 DEF Cdc, PosAt
  <1>4. (Cdc(i, L + 1)' <=> it.source = "cdc") /\ PosAt(i, L + 1)' = it.pos
    BY <1>2 DEF Cdc, PosAt
  <1>5. ViewOK(i) /\ StreamOK(i)
    BY <1>0 DEF CurrentInv
  <1>6. \A n \in 1 .. L : Cdc(i, n) => PosAt(i, n) \in Nat /\ PosAt(i, n) <= inst[i].pos /\ confirmed < PosAt(i, n)
    <2>1. ASSUME NEW n \in 1 .. L, Cdc(i, n)
          PROVE  PosAt(i, n) \in Nat /\ PosAt(i, n) <= inst[i].pos /\ confirmed < PosAt(i, n)
      <3>1. n \in DOMAIN inst[i].buffer
        BY <1>2
      <3>2. PosAt(i, n) \in Nat
        BY <1>0, <3>1, MTypes, PosTyped, SMTT(60)
      <3>3. QED
        BY <1>2, <1>5, <2>1, <3>2 DEF StreamOK
    <2>2. QED
      BY <2>1
  <1> HIDE DEF b
  <1>7. ViewOK(i)'
    <2>1. ASSUME NEW n \in DOMAIN inst'[i].buffer PROVE OfView(inst'[i].buffer[n])
      <3>1. CASE n \in 1 .. L
        BY <1>2, <1>5, <3>1 DEF ViewOK, b
      <3>2. CASE n = L + 1
        BY <1>2, <3>2
      <3>3. QED
        BY <1>2, <3>1, <3>2
    <2>2. QED
      BY <2>1, ZenonT(60) DEF ViewOK, OfView
  <1>8. StreamOK(i)'
    <2>1. At(i, "stream")' => /\ streamer' = i /\ confirmed' <= inst'[i].pos
                              /\ rewound' \/ job'.lsn <= inst'[i].pos
      BY <1>1, <1>5 DEF StreamOK, At
    <2>2. ASSUME NEW n \in DOMAIN inst'[i].buffer, Cdc(i, n)'
          PROVE  /\ confirmed' < PosAt(i, n)' /\ PosAt(i, n)' <= inst'[i].pos
                 /\ rewound' \/ job'.lsn < PosAt(i, n)'
                 /\ \A m \in DOMAIN inst'[i].buffer : Cdc(i, m)' /\ n < m => PosAt(i, n)' < PosAt(i, m)'
                 /\ \A q \in (PosAt(i, n)' + 1) .. inst'[i].pos :
                      \E m \in DOMAIN inst'[i].buffer : n < m /\ Cdc(i, m)' /\ PosAt(i, m)' = q
      <3>1. CASE n = L + 1
        <4>1. /\ it.source = "cdc" /\ it.pos = inst[i].pos + 1 /\ inst'[i].pos = it.pos
              /\ At(i, "stream") /\ PosAt(i, n)' = it.pos
          BY <1>4, <2>2, <3>1
        <4>2. confirmed <= inst[i].pos /\ (rewound \/ job.lsn <= inst[i].pos)
          BY <1>5, <4>1 DEF StreamOK
        <4>3. /\ confirmed' < PosAt(i, n)' /\ PosAt(i, n)' <= inst'[i].pos
              /\ rewound' \/ job'.lsn < PosAt(i, n)'
          BY <1>1, <4>1, <4>2
        <4>4. \A m \in DOMAIN inst'[i].buffer : ~ (n < m)
          BY <1>2, <3>1
        <4>5. (PosAt(i, n)' + 1) .. inst'[i].pos = {}
          BY <1>1, <4>1
        <4>6. QED
          BY <4>3, <4>4, <4>5
      <3>2. CASE n \in 1 .. L
        <4>1. /\ Cdc(i, n) /\ PosAt(i, n)' = PosAt(i, n) /\ PosAt(i, n) \in Nat
              /\ PosAt(i, n) <= inst[i].pos /\ confirmed < PosAt(i, n)
          BY <1>3, <1>6, <2>2, <3>2
        <4>a. n \in DOMAIN inst[i].buffer
          BY <1>2, <3>2 DEF b
        <4>b. rewound \/ job.lsn < PosAt(i, n)
          BY <1>5, <4>1, <4>a DEF StreamOK
        <4>2. /\ confirmed' < PosAt(i, n)' /\ PosAt(i, n)' <= inst'[i].pos
              /\ rewound' \/ job'.lsn < PosAt(i, n)'
          BY <1>1, <4>1, <4>b
        <4>3. ASSUME NEW m \in DOMAIN inst'[i].buffer, Cdc(i, m)', n < m
              PROVE  PosAt(i, n)' < PosAt(i, m)'
          <5>1. CASE m = L + 1
            BY <1>1, <1>4, <4>1, <4>3, <5>1
          <5>2. CASE m \in 1 .. L
            <6>1. Cdc(i, m) /\ PosAt(i, m)' = PosAt(i, m)
              BY <1>3, <4>3, <5>2
            <6>2. n \in DOMAIN inst[i].buffer /\ m \in DOMAIN inst[i].buffer
              BY <1>2, <3>2, <5>2 DEF b
            <6>3. PosAt(i, n) < PosAt(i, m)
              BY <1>5, <4>1, <4>3, <6>1, <6>2 DEF StreamOK
            <6>4. QED
              BY <4>1, <6>1, <6>3
          <5>3. QED
            BY <1>2, <5>1, <5>2
        <4>4. ASSUME NEW q \in (PosAt(i, n)' + 1) .. inst'[i].pos
              PROVE  \E m \in DOMAIN inst'[i].buffer : n < m /\ Cdc(i, m)' /\ PosAt(i, m)' = q
          <5>1. CASE q <= inst[i].pos
            <6>1. q \in (PosAt(i, n) + 1) .. inst[i].pos
              BY <1>1, <4>1, <5>1
            <6>2. PICK m \in DOMAIN inst[i].buffer : n < m /\ Cdc(i, m) /\ PosAt(i, m) = q
              BY <1>2, <1>5, <3>2, <4>1, <6>1 DEF StreamOK, b
            <6>3. m \in 1 .. L /\ m \in DOMAIN inst'[i].buffer
              BY <1>2 DEF b
            <6>4. QED
              BY <1>3, <6>2, <6>3
          <5>2. CASE ~ (q <= inst[i].pos)
            <6>1. q \in Int /\ q <= inst'[i].pos
              BY <1>1, <4>1
            <6>2. it.source = "cdc" /\ q = it.pos
              BY <1>1, <5>2, <6>1
            <6>3. L + 1 \in DOMAIN inst'[i].buffer /\ n < L + 1
              BY <1>2, <3>2
            <6>4. QED
              BY <1>4, <6>2, <6>3
          <5>3. QED
            BY <5>1, <5>2
        <4>5. QED
          BY <4>2, <4>3, <4>4
      <3>3. QED
        BY <1>2, <3>1, <3>2
    <2>3. QED
      BY <2>1, <2>2 DEF StreamOK
  <1>9. Executed(i)' = Executed(i) /\ Executed(i) \in 0 .. L
    <2>1. BatchOK(i)
      BY <1>0 DEF ShapeInv
    <2>2. QED
      BY <1>a, <1>2, <2>1 DEF Executed, BatchOK, b
  <1>10. ASSUME NEW p \in ComingAfter(i, Executed(i)) PROVE p \in ComingAfter(i, Executed(i))'
    <2>1. p \in Nat
      BY DEF ComingAfter
    <2>2. ASSUME At(i, "stream")
          PROVE  \/ inst'[i].pos < p
                 \/ \E n \in DOMAIN inst'[i].buffer : Executed(i) < n /\ Cdc(i, n)' /\ PosAt(i, n)' = p
      <3>1. CASE inst[i].pos < p
        <4>1. CASE inst'[i].pos < p
          BY <4>1
        <4>2. CASE ~ (inst'[i].pos < p)
          <5>1. it.source = "cdc" /\ it.pos = p
            BY <1>1, <2>1, <3>1, <4>2
          <5>2. L + 1 \in DOMAIN inst'[i].buffer /\ Executed(i) < L + 1
            BY <1>2, <1>9
          <5>3. QED
            BY <1>4, <5>1, <5>2
        <4>3. QED
          BY <4>1, <4>2
      <3>2. CASE \E n \in DOMAIN inst[i].buffer : Executed(i) < n /\ Cdc(i, n) /\ PosAt(i, n) = p
        <4>1. PICK n \in DOMAIN inst[i].buffer : Executed(i) < n /\ Cdc(i, n) /\ PosAt(i, n) = p
          BY <3>2
        <4>2. n \in 1 .. L /\ n \in DOMAIN inst'[i].buffer
          BY <1>2 DEF b
        <4>3. QED
          BY <1>3, <4>1, <4>2
      <3>3. QED
        BY <2>2, <3>1, <3>2 DEF ComingAfter
    <2>3. At(i, "stream")' = At(i, "stream")
      BY DEF At
    <2>4. QED
      BY <1>9, <2>1, <2>2, <2>3 DEF ComingAfter
  <1>11. ASSUME NEW x \in Instances, x # i
         PROVE  (ViewOK(x) /\ StreamOK(x))' /\ ComingAfter(x, Executed(x))' = ComingAfter(x, Executed(x))
    <2>1. inst'[x] = inst[x] /\ ViewOK(x) /\ StreamOK(x)
      BY <1>0, <1>11 DEF CurrentInv
    <2>2. At(x, "stream") => streamer' = x
      BY <2>1 DEF StreamOK
    <2>3. QED
      BY <2>1, <2>2, OtherView, OtherStream, OtherComing
  <1>12. CurrentOK'
    <2>1. \A k \in Keys : Lacking(target, k)' = Lacking(target, k)
      BY DEF Lacking
    <2>2. CurrentOK
      BY <1>0 DEF CurrentInv
    <2>3. QED
      BY <1>10, <1>11, <2>1, <2>2 DEF CurrentOK, Coming
  <1>13. JobOK(target)'
    BY <1>0 DEF CurrentInv, JobOK
  <1>14. ShowsLast(source)' /\ ShowsLast(job.view)'
    BY <1>0 DEF CurrentInv, ShowsLast
  <1>15. QED
    BY <1>7, <1>8, <1>11, <1>12, <1>13, <1>14 DEF CurrentInv

LEMMA MHandleSnapshot ==
  ASSUME MInv, NEW i \in Instances, HandleSnapshot(i)
  PROVE  CurrentInv'
  <1>0. TypeOK /\ CurrentInv /\ ShapeInv
    BY DEF MInv
  <1>1. inst \in [Instances -> Instance]
    BY <1>0, MTypes
  <1> DEFINE r == inst[i].rows
  <1>2. r \in Seq(Item) /\ r # << >>
    BY <1>1, InstanceFields DEF HandleSnapshot
  <1>3. /\ \A x \in Instances : x # i => inst'[x] = inst[x]
        /\ inst'[i].buffer = Append(inst[i].buffer, Head(r)) /\ inst'[i].rows = Tail(r)
        /\ inst'[i].phase = inst[i].phase /\ inst'[i].size = inst[i].size
        /\ inst'[i].pc = inst[i].pc /\ inst'[i].pos = inst[i].pos
    BY <1>1 DEF HandleSnapshot, Instance
  <1>4. UNCHANGED <<scenario, source, log, job, confirmed, streamer, target, rewound>>
    BY DEF HandleSnapshot, history
  <1> HIDE DEF r
  <1>6. 1 \in DOMAIN r /\ Head(r) = r[1] /\ Head(r) \in Item
    BY <1>2
  <1>7. OfView(Head(r)) /\ Head(r).source = "snapshot"
    BY <1>0, <1>6 DEF CurrentInv, ViewOK, ShapeInv, ItemsOK, r
  <1>8. \A n \in DOMAIN Tail(r) : n + 1 \in DOMAIN r /\ Tail(r)[n] = r[n + 1]
    BY <1>2
  <1>9. \A n \in DOMAIN inst'[i].rows : OfView(inst'[i].rows[n])
    BY <1>0, <1>3, <1>8 DEF CurrentInv, ViewOK, r
  <1>10. QED
    BY <1>3, <1>4, <1>6, <1>7, <1>9, Appends

LEMMA MReceive ==
  ASSUME MInv, NEW i \in Instances, Receive(i)
  PROVE  CurrentInv'
  <1>0. TypeOK /\ CurrentInv /\ ShapeInv
    BY DEF MInv
  <1> DEFINE it == CdcItem(inst[i].pos + 1)
  <1>1. /\ \A x \in Instances : x # i => inst'[x] = inst[x]
        /\ inst'[i].pc = inst[i].pc /\ inst'[i].pos = inst[i].pos + 1
        /\ it \in Item /\ inst'[i].buffer = Append(inst[i].buffer, it)
        /\ inst'[i].rows = inst[i].rows
        /\ inst'[i].phase = inst[i].phase /\ inst'[i].size = inst[i].size
    BY <1>0, ReceiveAppends
  <1>2. it.source = "cdc" /\ it.pos = inst[i].pos + 1
    BY DEF CdcItem
  <1>3. At(i, "stream") /\ UNCHANGED <<scenario, source, log, job, confirmed, streamer, target, rewound>>
    BY DEF Receive, history
  <1> HIDE DEF it
  <1>4. OfView(it)
    BY <1>2 DEF OfView
  <1>6. \A n \in DOMAIN inst'[i].rows : OfView(inst'[i].rows[n])
    BY <1>0, <1>1 DEF CurrentInv, ViewOK
  <1>7. QED
    BY <1>1, <1>2, <1>3, <1>4, <1>6, Appends

\* The stream opens where the slot is, or at the job's LSN if no stream went back behind
\* it.
LEMMA MOpenStream ==
  ASSUME MInv, InOrder', NEW i \in Instances, OpenStream(i)
  PROVE  CurrentInv'
  <1>0. TypeOK /\ CurrentInv /\ ShapeInv
    BY DEF MInv
  <1>1. inst \in [Instances -> Instance] /\ confirmed \in Int /\ job.lsn \in Nat
    BY <1>0, MTypes
  <1>2. confirmed # NoSlot /\ ~ scenario.only
    BY <1>0 DEF ShapeInv, SlotOK, OpenStream, At
  <1> DEFINE pos == IF inst[i].fromSnapshot /\ confirmed < job.lsn THEN job.lsn ELSE confirmed
  <1>3. /\ pos \in Int /\ confirmed <= pos /\ (rewound' \/ job.lsn <= pos) /\ (rewound => rewound')
        /\ pos = confirmed \/ (pos = job.lsn /\ ~ rewound)
    <2>1. CASE inst[i].fromSnapshot /\ confirmed < job.lsn
      <3>1. ~ rewound
        BY <2>1 DEF OpenStream, InOrder
      <3>2. QED
        BY <1>1, <2>1, <3>1
    <2>2. CASE ~ (inst[i].fromSnapshot /\ confirmed < job.lsn)
      <3>1. rewound' = (rewound \/ confirmed < job.lsn)
        BY <2>2 DEF OpenStream
      <3>2. pos = confirmed /\ confirmed <= confirmed /\ (confirmed < job.lsn \/ job.lsn <= confirmed)
        BY <1>1, <2>2
      <3>3. (rewound' \/ job.lsn <= pos) /\ (rewound => rewound')
        BY <3>1, <3>2, Zenon
      <3>4. QED
        BY <1>1, <3>2, <3>3
    <2>3. QED
      BY <2>1, <2>2
  <1>4. /\ \A x \in Instances : x # i => inst'[x] = inst[x]
        /\ inst'[i] = [inst[i] EXCEPT !.pc = "stream", !.pos = pos]
    <2>1. inst' = [inst EXCEPT ![i].pc = "stream", ![i].pos = pos]
      BY DEF OpenStream
    <2>2. QED
      BY <1>1, <2>1
  <1> HIDE DEF pos
  <1>5. /\ inst'[i].rows = inst[i].rows /\ inst'[i].buffer = inst[i].buffer
        /\ inst'[i].phase = inst[i].phase /\ inst'[i].size = inst[i].size
        /\ inst'[i].pos = pos /\ inst'[i].pc = "stream"
    BY <1>1, <1>4 DEF Instance
  <1>6. /\ UNCHANGED <<scenario, source, log, job, confirmed, target>> /\ streamer' = i
        /\ streamer = Nobody /\ inst[i].pc = "wait"
    BY DEF OpenStream, At
  <1>7. \A x \in Instances : ~ At(x, "stream")
    BY <1>0, <1>6, NobodyAssumption DEF CurrentInv, StreamOK
  <1>8. \A x \in Instances : \A n \in DOMAIN inst[x].buffer : ~ Cdc(x, n)
    BY <1>0, <1>7, NoChanges DEF ShapeInv
  <1>9. \A x \in Instances : inst'[x].rows = inst[x].rows /\ inst'[x].buffer = inst[x].buffer
    BY <1>4, <1>5
  <1>10. \A x \in Instances : x # i => ~ At(x, "stream")'
    BY <1>4, <1>7 DEF At
  <1>11. ASSUME NEW x \in Instances PROVE (ViewOK(x) /\ StreamOK(x))'
    <2>1. ViewOK(x)'
      BY <1>0, <1>6, <1>9 DEF CurrentInv, ViewOK, OfView
    <2>2. \A n \in DOMAIN inst'[x].buffer : ~ Cdc(x, n)'
      BY <1>8, <1>9 DEF Cdc
    <2>3. At(x, "stream")' => /\ streamer' = x /\ confirmed' <= inst'[x].pos
                              /\ rewound' \/ job'.lsn <= inst'[x].pos
      BY <1>1, <1>3, <1>5, <1>6, <1>10
    <2>4. StreamOK(x)'
      BY <2>2, <2>3 DEF StreamOK
    <2>5. QED
      BY <2>1, <2>4
  <1>12. CurrentOK'
    <2>1. SUFFICES ASSUME NEW k \in Keys, Lacking(target, k)',
                          NEW p, p = PositionOf(job.view[k].v)
                   PROVE  /\ (rewound' \/ job.lsn < p) /\ confirmed < p
                          /\ \A x \in Instances : p \in ComingAfter(x, Executed(x))'
      BY <1>6 DEF CurrentOK, Coming
    <2>2. /\ (rewound \/ job.lsn < p) /\ confirmed < p
          /\ \A x \in Instances : p \in ComingAfter(x, Executed(x))
      BY <1>0, <1>6, <2>1 DEF CurrentInv, CurrentOK, Coming, Lacking
    <2>3. ASSUME NEW x \in Instances PROVE p \in ComingAfter(x, Executed(x))'
      <3>1. p \in Nat
        BY <2>2 DEF ComingAfter
      <3>2. CASE x = i
        <4>1. pos < p
          BY <1>1, <1>3, <2>2, <3>1
        <4>2. QED
          BY <1>5, <3>1, <3>2, <4>1 DEF ComingAfter
      <3>3. CASE x # i
        BY <1>10, <3>1, <3>3 DEF ComingAfter
      <3>4. QED
        BY <3>2, <3>3
    <2>4. QED
      BY <1>3, <2>2, <2>3
  <1>13. JobOK(target)'
    BY <1>0, <1>6, <1>9 DEF CurrentInv, JobOK
  <1>14. ShowsLast(source)' /\ ShowsLast(job.view)'
    BY <1>0, <1>6 DEF CurrentInv, ShowsLast
  <1>15. QED
    BY <1>11, <1>12, <1>13, <1>14 DEF CurrentInv

\* A step of process i that executes or drops items of its buffer.  What a write or an
\* acknowledgement has to establish is the rest of the hypotheses.
LEMMA Executes ==
  ASSUME MInv, NEW i \in Instances, NEW n \in 0 .. Len(inst[i].buffer),
         UNCHANGED <<scenario, source, log, job, streamer, rewound>>,
         \A x \in Instances : x # i => inst'[x] = inst[x],
         inst'[i].pc = inst[i].pc, inst'[i].pos = inst[i].pos, inst'[i].rows = inst[i].rows,
         inst'[i].buffer = inst[i].buffer \/ inst'[i].buffer = Drop(i, n),
         JobOK(target)',
         \A x \in Instances : At(x, "stream") /\ confirmed' # confirmed => x = i,
         At(i, "stream") => confirmed' <= inst[i].pos,
         \A m \in DOMAIN inst[i].buffer : Cdc(i, m) /\ (n < m \/ confirmed' = confirmed) => confirmed' < PosAt(i, m),
         inst'[i].buffer = Drop(i, n) \/ confirmed' = confirmed,
         \A k \in Keys : Lacking(target, k)' =>
           LET p == PositionOf(job.view[k].v)
           IN /\ (rewound \/ job.lsn < p) /\ confirmed' < p
              /\ \A x \in Instances : x # i => p \in ComingAfter(x, Executed(x))
              /\ IF inst'[i].buffer = Drop(i, n)
                   THEN p \in ComingAfter(i, n) /\ Executed(i)' = 0
                   ELSE p \in ComingAfter(i, Executed(i)')
  PROVE  CurrentInv'
  <1>0. TypeOK /\ CurrentInv /\ ShapeInv
    BY DEF MInv
  <1>1. inst \in [Instances -> Instance] /\ confirmed \in Int
    BY <1>0, MTypes
  <1>a. PICK L : L = Len(inst[i].buffer)
    OBVIOUS
  <1>2. /\ L \in Nat /\ DOMAIN inst[i].buffer = 1 .. L /\ n \in 0 .. L
        /\ DOMAIN Drop(i, n) = 1 .. (L - n)
        /\ \A m \in 1 .. (L - n) : Drop(i, n)[m] = inst[i].buffer[m + n]
    BY <1>1, <1>a, DropItems
  <1>3. ViewOK(i) /\ StreamOK(i)
    BY <1>0 DEF CurrentInv
  <1>4. inst'[i].buffer = inst[i].buffer =>
          \A m : (Cdc(i, m)' <=> Cdc(i, m)) /\ PosAt(i, m)' = PosAt(i, m)
    BY DEF Cdc, PosAt
  <1>5. inst'[i].buffer = Drop(i, n) =>
          \A m \in 1 .. (L - n) :
            /\ m + n \in DOMAIN inst[i].buffer /\ inst'[i].buffer[m] = inst[i].buffer[m + n]
            /\ Cdc(i, m)' <=> Cdc(i, m + n)
            /\ PosAt(i, m)' = PosAt(i, m + n)
    <2>1. HAVE inst'[i].buffer = Drop(i, n)
    <2>2. TAKE m \in 1 .. (L - n)
    <2>3. m + n \in DOMAIN inst[i].buffer /\ inst'[i].buffer[m] = inst[i].buffer[m + n]
      BY <1>2, <2>1
    <2>4. m \in DOMAIN inst'[i].buffer
      BY <1>2, <2>1
    <2>5. QED
      BY <2>3, <2>4 DEF Cdc, PosAt
  <1>6. ViewOK(i)'
    <2>1. ASSUME NEW m \in DOMAIN inst'[i].buffer PROVE OfView(inst'[i].buffer[m])
      BY <1>2, <1>3, <1>5 DEF ViewOK
    <2>2. QED
      BY <1>3, <2>1, ZenonT(60) DEF ViewOK, OfView
  <1>7. StreamOK(i)'
    <2>1. At(i, "stream")' => /\ streamer' = i /\ confirmed' <= inst'[i].pos
                              /\ rewound' \/ job'.lsn <= inst'[i].pos
      BY <1>3 DEF StreamOK, At
    <2>2. CASE inst'[i].buffer = inst[i].buffer /\ confirmed' = confirmed
      BY <1>3, <1>4, <2>1, <2>2 DEF StreamOK
    <2>3. CASE inst'[i].buffer = Drop(i, n)
      <3>1. ASSUME NEW m \in DOMAIN inst'[i].buffer, Cdc(i, m)'
            PROVE  /\ confirmed' < PosAt(i, m)' /\ PosAt(i, m)' <= inst'[i].pos
                   /\ rewound' \/ job'.lsn < PosAt(i, m)'
                   /\ \A l \in DOMAIN inst'[i].buffer : Cdc(i, l)' /\ m < l => PosAt(i, m)' < PosAt(i, l)'
                   /\ \A q \in (PosAt(i, m)' + 1) .. inst'[i].pos :
                        \E l \in DOMAIN inst'[i].buffer : m < l /\ Cdc(i, l)' /\ PosAt(i, l)' = q
        <4>1. m \in 1 .. (L - n) /\ n < m + n
          BY <1>2, <2>3
        <4>2. m + n \in DOMAIN inst[i].buffer /\ Cdc(i, m + n) /\ PosAt(i, m)' = PosAt(i, m + n)
          BY <1>5, <2>3, <3>1, <4>1
        <4>3. /\ confirmed' < PosAt(i, m)' /\ PosAt(i, m)' <= inst'[i].pos
              /\ rewound' \/ job'.lsn < PosAt(i, m)'
          BY <1>3, <4>1, <4>2 DEF StreamOK
        <4>4. ASSUME NEW l \in DOMAIN inst'[i].buffer, Cdc(i, l)', m < l
              PROVE  PosAt(i, m)' < PosAt(i, l)'
          <5>1. l \in 1 .. (L - n)
            BY <1>2, <2>3
          <5>2. m + n < l + n
            BY <1>2, <4>1, <4>4, <5>1
          <5>3. l + n \in DOMAIN inst[i].buffer /\ Cdc(i, l + n) /\ PosAt(i, l)' = PosAt(i, l + n)
            BY <1>5, <2>3, <4>4, <5>1
          <5>4. QED
            BY <1>3, <4>2, <5>2, <5>3 DEF StreamOK
        <4>5. ASSUME NEW q \in (PosAt(i, m)' + 1) .. inst'[i].pos
              PROVE  \E l \in DOMAIN inst'[i].buffer : m < l /\ Cdc(i, l)' /\ PosAt(i, l)' = q
          <5>1. q \in (PosAt(i, m + n) + 1) .. inst[i].pos
            BY <4>2, <4>5
          <5>2. PICK l \in DOMAIN inst[i].buffer : m + n < l /\ Cdc(i, l) /\ PosAt(i, l) = q
            BY <1>3, <4>2, <5>1 DEF StreamOK
          <5>3. l - n \in 1 .. (L - n) /\ (l - n) + n = l /\ m < l - n
            BY <1>2, <4>1, <5>2
          <5>4. Cdc(i, l - n)' /\ PosAt(i, l - n)' = q /\ l - n \in DOMAIN inst'[i].buffer
            BY <1>2, <1>5, <2>3, <5>2, <5>3
          <5>5. QED
            BY <5>3, <5>4
        <4>6. QED
          BY <4>3, <4>4, <4>5
      <3>2. QED
        BY <2>1, <3>1 DEF StreamOK
    <2>4. QED
      BY <2>2, <2>3
  <1>8. ASSUME NEW x \in Instances, x # i
        PROVE  (ViewOK(x) /\ StreamOK(x))' /\ ComingAfter(x, Executed(x))' = ComingAfter(x, Executed(x))
    <2>1. inst'[x] = inst[x] /\ ViewOK(x) /\ StreamOK(x) /\ ItemsOK(x)
      BY <1>0, <1>8 DEF CurrentInv, ShapeInv
    <2>2. StreamOK(x)'
      <3>1. CASE confirmed' = confirmed
        <4>1. At(x, "stream") => streamer' = x
          BY <2>1 DEF StreamOK
        <4>2. QED
          BY <2>1, <3>1, <4>1, OtherStream
      <3>2. CASE confirmed' # confirmed
        <4>1. ~ At(x, "stream")
          BY <1>8, <3>2
        <4>2. QED
          BY <2>1, <4>1, IdleStream
      <3>3. QED
        BY <3>1, <3>2
    <2>3. QED
      BY <2>1, <2>2, OtherView, OtherComing
  <1>9. CurrentOK'
    <2>1. SUFFICES ASSUME NEW k \in Keys, Lacking(target, k)',
                          NEW p, p = PositionOf(job.view[k].v)
                   PROVE  /\ (rewound \/ job.lsn < p) /\ confirmed' < p
                          /\ \A x \in Instances : p \in ComingAfter(x, Executed(x))'
      BY DEF CurrentOK, Coming
    <2>2. /\ (rewound \/ job.lsn < p) /\ confirmed' < p
          /\ \A x \in Instances : x # i => p \in ComingAfter(x, Executed(x))
          /\ IF inst'[i].buffer = Drop(i, n)
               THEN p \in ComingAfter(i, n) /\ Executed(i)' = 0
               ELSE p \in ComingAfter(i, Executed(i)')
      BY <2>1
    <2>3. p \in ComingAfter(i, Executed(i))'
      <3>1. CASE inst'[i].buffer = Drop(i, n)
        <4>1. p \in Nat /\ p \in ComingAfter(i, n)
          BY <2>2, <3>1 DEF ComingAfter
        <4>2. ASSUME At(i, "stream")
              PROVE  \/ inst'[i].pos < p
                     \/ \E m \in DOMAIN inst'[i].buffer : 0 < m /\ Cdc(i, m)' /\ PosAt(i, m)' = p
          <5>1. CASE inst[i].pos < p
            BY <5>1
          <5>2. CASE \E m \in DOMAIN inst[i].buffer : n < m /\ Cdc(i, m) /\ PosAt(i, m) = p
            <6>1. PICK m \in DOMAIN inst[i].buffer : n < m /\ Cdc(i, m) /\ PosAt(i, m) = p
              BY <5>2
            <6>2. m - n \in 1 .. (L - n) /\ (m - n) + n = m /\ 0 < m - n
              BY <1>2, <6>1
            <6>3. Cdc(i, m - n)' /\ PosAt(i, m - n)' = p /\ m - n \in DOMAIN inst'[i].buffer
              BY <1>2, <1>5, <3>1, <6>1, <6>2
            <6>4. QED
              BY <6>2, <6>3
          <5>3. QED
            BY <4>1, <4>2, <5>1, <5>2 DEF ComingAfter
        <4>3. At(i, "stream")' = At(i, "stream")
          BY DEF At
        <4>4. QED
          BY <2>2, <3>1, <4>1, <4>2, <4>3 DEF ComingAfter
      <3>2. CASE inst'[i].buffer = inst[i].buffer /\ inst'[i].buffer # Drop(i, n)
        <4>1. p \in ComingAfter(i, Executed(i)')
          BY <2>2, <3>2
        <4>2. QED
          BY <1>4, <3>2, <4>1 DEF ComingAfter, At
      <3>3. QED
        BY <3>1, <3>2
    <2>4. QED
      BY <1>8, <2>2, <2>3
  <1>10. ShowsLast(source)' /\ ShowsLast(job.view)'
    BY <1>0 DEF CurrentInv, ShowsLast
  <1>11. QED
    BY <1>6, <1>7, <1>8, <1>9, <1>10 DEF CurrentInv

\* What StreamOK says of the changes in the buffer, as Executes needs it.
LEMMA StreamFacts ==
  ASSUME MInv, NEW i \in Instances
  PROVE  /\ At(i, "stream") => streamer = i /\ confirmed <= inst[i].pos
         /\ \A m \in DOMAIN inst[i].buffer : Cdc(i, m) => confirmed < PosAt(i, m)
         /\ JobOK(target)
  BY DEF MInv, CurrentInv, StreamOK

LEMMA MFlushSnapshotCopy ==
  ASSUME MInv, NEW i \in Instances, FlushSnapshotCopy(i)
  PROVE  CurrentInv'
  <1>0. TypeOK /\ CurrentInv /\ ShapeInv
    BY DEF MInv
  <1>1. PICK n \in 1 .. Len(inst[i].buffer) :
          /\ \A x \in Instances : x # i => inst'[x] = inst[x]
          /\ inst'[i].pc = inst[i].pc /\ inst'[i].pos = inst[i].pos /\ inst'[i].rows = inst[i].rows
          /\ inst[i].phase = "collect"
          /\ \/ /\ inst'[i].phase = "replay"
                /\ inst'[i].buffer = inst[i].buffer /\ target' = target
             \/ /\ inst'[i].phase = "collect"
                /\ inst'[i].buffer = Drop(i, n) /\ target' = Written(i, FALSE)[n]
    BY <1>0, CopyFlushes
  <1>2. UNCHANGED <<scenario, source, log, job, confirmed, streamer, rewound>>
    BY DEF FlushSnapshotCopy, history
  <1>3. Executed(i) = 0 /\ Executed(i)' = 0
    BY <1>1 DEF Executed
  <1>4. inst[i].buffer # << >> /\ n \in 0 .. Len(inst[i].buffer) /\ 0 \in 0 .. Len(inst[i].buffer)
    <2>1. inst[i].buffer \in Seq(Item)
      BY <1>0, MTypes, InstanceFields
    <2>2. QED
      BY <1>1, <2>1
  <1>5. CASE inst'[i].buffer = inst[i].buffer /\ target' = target
    <2>1. Later(target, i, 0)
      BY <1>0, <1>3, CurrentLater DEF CurrentInv
    <2>2. Drop(i, 0) = inst[i].buffer
      <3>1. inst[i].buffer \in Seq(Item)
        BY <1>0, MTypes, InstanceFields
      <3>2. QED
        BY <3>1 DEF Drop
    <2>3. \A k \in Keys : Lacking(target, k)' =>
            LET p == PositionOf(job.view[k].v)
            IN /\ (rewound \/ job.lsn < p) /\ confirmed' < p
               /\ \A x \in Instances : x # i => p \in ComingAfter(x, Executed(x))
               /\ p \in ComingAfter(i, 0) /\ Executed(i)' = 0
      BY <1>2, <1>3, <1>5, <2>1 DEF Later, Lacking
    <2>4. JobOK(target)'
      BY <1>2, <1>5, <2>1 DEF Later, JobOK
    <2>5. QED
      BY <1>1, <1>2, <1>4, <1>5, <2>2, <2>3, <2>4, StreamFacts, Executes
  <1>6. CASE inst'[i].buffer = Drop(i, n) /\ target' = Written(i, FALSE)[n]
    <2>1. Later(target', i, n)
      BY <1>3, <1>4, <1>6, BatchLater
    <2>2. \A k \in Keys : Lacking(target, k)' =>
            LET p == PositionOf(job.view[k].v)
            IN /\ (rewound \/ job.lsn < p) /\ confirmed' < p
               /\ \A x \in Instances : x # i => p \in ComingAfter(x, Executed(x))
               /\ p \in ComingAfter(i, n) /\ Executed(i)' = 0
      BY <1>2, <1>3, <2>1 DEF Later, Lacking
    <2>3. JobOK(target)'
      BY <1>2, <2>1 DEF Later, JobOK
    <2>4. QED
      BY <1>1, <1>2, <1>4, <1>6, <2>2, <2>3, StreamFacts, Executes
  <1>7. QED
    BY <1>1, <1>5, <1>6

LEMMA MFlushSnapshotDoNothing ==
  ASSUME MInv, NEW i \in Instances, FlushSnapshotDoNothing(i)
  PROVE  CurrentInv'
  <1>0. TypeOK /\ CurrentInv /\ ShapeInv /\ BatchOK(i)
    BY DEF MInv, ShapeInv
  <1>a. PICK n : n = inst[i].size
    OBVIOUS
  <1>1. /\ n \in 1 .. Len(inst[i].buffer)
        /\ \A x \in Instances : x # i => inst'[x] = inst[x]
        /\ inst'[i].pc = inst[i].pc /\ inst'[i].pos = inst[i].pos /\ inst'[i].rows = inst[i].rows
        /\ inst'[i].phase = "collect" /\ inst'[i].buffer = Drop(i, n)
    BY <1>0, <1>a, BatchDropped DEF FlushSnapshotDoNothing
  <1>2. /\ UNCHANGED <<scenario, source, log, job, confirmed, streamer, rewound>>
        /\ target' = Written(i, TRUE)[n] /\ inst[i].phase = "replay"
    BY <1>a DEF FlushSnapshotDoNothing, history
  <1>3. Executed(i) = 0 /\ Executed(i)' = 0
    BY <1>1, <1>2 DEF Executed
  <1>4. inst[i].buffer # << >> /\ n \in 0 .. Len(inst[i].buffer)
    <2>1. inst[i].buffer \in Seq(Item)
      BY <1>0, MTypes, InstanceFields
    <2>2. QED
      BY <1>1, <2>1
  <1>5. Later(target', i, n)
    BY <1>2, <1>3, <1>4, BatchLater
  <1>6. \A k \in Keys : Lacking(target, k)' =>
          LET p == PositionOf(job.view[k].v)
          IN /\ (rewound \/ job.lsn < p) /\ confirmed' < p
             /\ \A x \in Instances : x # i => p \in ComingAfter(x, Executed(x))
             /\ p \in ComingAfter(i, n) /\ Executed(i)' = 0
    BY <1>2, <1>3, <1>5 DEF Later, Lacking
  <1>7. JobOK(target)'
    BY <1>2, <1>5 DEF Later, JobOK
  <1>8. QED
    BY <1>1, <1>2, <1>4, <1>6, <1>7, StreamFacts, Executes

LEMMA MFlushGeneric ==
  ASSUME MInv, NEW i \in Instances, FlushGeneric(i)
  PROVE  CurrentInv'
  <1>0. TypeOK /\ CurrentInv /\ ShapeInv
    BY DEF MInv
  <1>1. PICK n \in 1 .. Len(inst[i].buffer) :
          /\ \A x \in Instances : x # i => inst'[x] = inst[x]
          /\ inst'[i].pc = inst[i].pc /\ inst'[i].pos = inst[i].pos /\ inst'[i].rows = inst[i].rows
          /\ inst[i].phase = "collect" /\ inst'[i].phase = "ack" /\ inst'[i].size = n
          /\ inst'[i].buffer = inst[i].buffer /\ target' = Written(i, FALSE)[n]
    BY <1>0, GenericFlushes
  <1>2. UNCHANGED <<scenario, source, log, job, confirmed, streamer, rewound>>
    BY DEF FlushGeneric
  <1>3. Executed(i) = 0 /\ Executed(i)' = n
    BY <1>1 DEF Executed
  <1>4. inst[i].buffer # << >> /\ n \in 0 .. Len(inst[i].buffer)
    <2>1. inst[i].buffer \in Seq(Item)
      BY <1>0, MTypes, InstanceFields
    <2>2. QED
      BY <1>1, <2>1
  <1>5. Drop(i, n) # inst[i].buffer
    <2>1. Len(Drop(i, n)) = Len(inst[i].buffer) - n /\ Len(inst[i].buffer) \in Nat
      BY <1>0, <1>4, MTypes, DropItems
    <2>2. Len(Drop(i, n)) # Len(inst[i].buffer)
      BY <1>1, <2>1
    <2>3. QED
      BY <2>2
  <1>6. Later(target', i, n)
    BY <1>1, <1>3, <1>4, BatchLater
  <1>7. \A k \in Keys : Lacking(target, k)' =>
          LET p == PositionOf(job.view[k].v)
          IN /\ (rewound \/ job.lsn < p) /\ confirmed' < p
             /\ \A x \in Instances : x # i => p \in ComingAfter(x, Executed(x))
             /\ p \in ComingAfter(i, Executed(i)')
    BY <1>2, <1>3, <1>6 DEF Later, Lacking
  <1>8. JobOK(target)'
    BY <1>2, <1>6 DEF Later, JobOK
  <1>9. QED
    BY <1>1, <1>2, <1>4, <1>5, <1>7, <1>8, StreamFacts, Executes

\* The changes that are confirmed have been executed, and those still in the buffer
\* come after them.
LEMMA MAckBatch ==
  ASSUME MInv, NEW i \in Instances, AckBatch(i)
  PROVE  CurrentInv'
  <1>0. TypeOK /\ CurrentInv /\ ShapeInv /\ BatchOK(i) /\ StreamOK(i) /\ TInv
    BY DEF MInv, ShapeInv, CurrentInv, TInv
  <1>a. PICK n : n = inst[i].size
    OBVIOUS
  <1>1. /\ n \in 1 .. Len(inst[i].buffer)
        /\ \A x \in Instances : x # i => inst'[x] = inst[x]
        /\ inst'[i].pc = inst[i].pc /\ inst'[i].pos = inst[i].pos /\ inst'[i].rows = inst[i].rows
        /\ inst'[i].phase = "collect" /\ inst'[i].buffer = Drop(i, n)
    BY <1>0, <1>a, BatchDropped DEF AckBatch
  <1>2. UNCHANGED <<scenario, source, log, job, streamer, target, rewound>> /\ inst[i].phase = "ack"
    BY DEF AckBatch, history
  <1>3. Executed(i) = n /\ Executed(i)' = 0
    BY <1>a, <1>1, <1>2 DEF Executed
  <1>4. PICK l \in 1 .. n :
          /\ Cdc(i, l) /\ PosAt(i, l) = confirmed' /\ confirmed' \in DOMAIN log
          /\ At(i, "stream")
    BY <1>0, <1>a, AckConfirms
  <1>5. /\ confirmed \in Int /\ confirmed' \in Int /\ job.lsn \in Nat /\ inst[i].pos \in Nat
        /\ inst[i].buffer \in Seq(Item)
    BY <1>0, <1>4, MTypes, InstanceFields
  <1>6. DOMAIN inst[i].buffer \subseteq Nat /\ n \in 0 .. Len(inst[i].buffer) /\ l \in DOMAIN inst[i].buffer
    BY <1>1, <1>4, <1>5
  <1>7. confirmed < confirmed' /\ confirmed' <= inst[i].pos
    BY <1>0, <1>4, <1>6 DEF StreamOK
  <1>8. \A m \in DOMAIN inst[i].buffer : Cdc(i, m) /\ n < m => confirmed' < PosAt(i, m)
    <2>1. SUFFICES ASSUME NEW m \in DOMAIN inst[i].buffer, Cdc(i, m), n < m
                   PROVE  confirmed' < PosAt(i, m)
      OBVIOUS
    <2>2. l < m
      BY <1>1, <1>4, <1>6, <2>1
    <2>3. QED
      BY <1>0, <1>4, <1>6, <2>1, <2>2 DEF StreamOK
  <1>9. JobOK(target)'
    BY <1>0, <1>2 DEF CurrentInv, JobOK
  <1>11. \A x \in Instances : At(x, "stream") => x = i
    BY <1>0, <1>4 DEF CurrentInv, StreamOK
  <1>12. Later(target, i, n)
    BY <1>0, <1>3, CurrentLater DEF CurrentInv
  <1>13. \A k \in Keys : Lacking(target, k)' =>
           LET p == PositionOf(job.view[k].v)
           IN /\ (rewound \/ job.lsn < p) /\ confirmed' < p
              /\ \A x \in Instances : x # i => p \in ComingAfter(x, Executed(x))
              /\ p \in ComingAfter(i, n) /\ Executed(i)' = 0
    <2>1. SUFFICES ASSUME NEW k \in Keys, Lacking(target, k)', NEW p, p = PositionOf(job.view[k].v)
                   PROVE  /\ (rewound \/ job.lsn < p) /\ confirmed' < p
                          /\ \A x \in Instances : x # i => p \in ComingAfter(x, Executed(x))
                          /\ p \in ComingAfter(i, n) /\ Executed(i)' = 0
      OBVIOUS
    <2>2. /\ rewound \/ job.lsn < p
          /\ \A x \in Instances : x # i => p \in ComingAfter(x, Executed(x))
          /\ p \in ComingAfter(i, n)
      BY <1>2, <1>12, <2>1 DEF Later, Lacking
    <2>3. /\ p \in Nat
          /\ \/ inst[i].pos < p
             \/ \E m \in DOMAIN inst[i].buffer : n < m /\ Cdc(i, m) /\ PosAt(i, m) = p
      BY <1>4, <2>2 DEF ComingAfter
    <2>4. confirmed' < p
      BY <1>5, <1>7, <1>8, <2>3
    <2>5. QED
      BY <1>3, <2>2, <2>4
  <1>14. confirmed' # confirmed
    BY <1>5, <1>7
  <1>15. QED
    BY <1>1, <1>2, <1>6, <1>7, <1>8, <1>9, <1>11, <1>13, <1>14, Executes

\* The memory of a process that died is gone.
LEMMA MCrashOrRestart ==
  ASSUME MInv, NEW i \in Instances, Crash(i) \/ Restart(i) \/ ElectTooLate(i)
  PROVE  CurrentInv'
  <1>0. TypeOK /\ CurrentInv /\ ShapeInv
    BY DEF MInv
  <1>1. /\ \A x \in Instances : x # i => inst'[x] = inst[x]
        /\ inst'[i].pc \in {"down", "start"} /\ inst'[i].rows = << >> /\ inst'[i].buffer = << >>
        /\ inst'[i].phase = "collect"
        /\ UNCHANGED <<scenario, source, log, confirmed, target, rewound>>
        /\ job' = [job EXCEPT !.coordinator = job'.coordinator]
        /\ job'.coordinator \in {job.coordinator, Nobody}
        /\ streamer' \in {streamer, Nobody} /\ (streamer' # streamer => streamer = i)
    BY <1>0, CrashOrRestart
  <1>2. job'.lsn = job.lsn /\ job'.state = job.state /\ job'.view = job.view
    BY <1>0, <1>1, MTypes DEF Job
  <1>3. ~ At(i, "stream")'
    BY <1>1 DEF At
  <1>4. JobOK(target)'
    BY <1>0, <1>1, <1>2 DEF CurrentInv, JobOK
  <1>5. ASSUME NEW x \in Instances PROVE (ViewOK(x) /\ StreamOK(x))'
    <2>1. CASE x = i
      BY <1>1, <1>3, <2>1 DEF ViewOK, StreamOK
    <2>2. CASE x # i
      <3>1. inst'[x] = inst[x] /\ ViewOK(x) /\ StreamOK(x)
        BY <1>0, <1>1, <2>2 DEF CurrentInv
      <3>2. At(x, "stream") => streamer' = x
        BY <1>1, <2>2, <3>1 DEF StreamOK
      <3>3. QED
        BY <1>1, <1>2, <3>1, <3>2, OtherView, OtherStream
    <2>3. QED
      BY <2>1, <2>2
  <1>6. ASSUME NEW x \in Instances, NEW p \in ComingAfter(x, Executed(x))
        PROVE  p \in ComingAfter(x, Executed(x))'
    <2>1. CASE x = i
      BY <1>3, <2>1 DEF ComingAfter
    <2>2. CASE x # i
      <3>1. inst'[x] = inst[x]
        BY <1>1, <2>2
      <3>2. QED
        BY <3>1, OtherComing
    <2>3. QED
      BY <2>1, <2>2
  <1>7. CurrentOK'
    <2>1. \A k \in Keys : Lacking(target, k)' = Lacking(target, k)
      BY <1>1, <1>2 DEF Lacking
    <2>2. CurrentOK
      BY <1>0 DEF CurrentInv
    <2>3. QED
      BY <1>1, <1>2, <1>6, <2>1, <2>2 DEF CurrentOK, Coming
  <1>8. ShowsLast(source)' /\ ShowsLast(job.view)'
    BY <1>0, <1>1, <1>2 DEF CurrentInv, ShowsLast
  <1>9. QED
    BY <1>4, <1>5, <1>7, <1>8 DEF CurrentInv

LEMMA MInit ==
  ASSUME Init
  PROVE  MInv
  <1>0. TInv
    BY TInit
  <1>1. /\ \A i \in Instances : /\ inst[i].rows = << >> /\ inst[i].buffer = << >>
                                /\ inst[i].pc = "start"
        /\ \A k \in Keys : target[k] = Absent
        /\ log = << >> /\ confirmed = NoSlot
        /\ job.state = "none" /\ job.view = source
    BY DEF Init, Fresh
  <1>2. JobOK(target)
    BY <1>1 DEF JobOK
  <1>3. ShowsLast(source)
    <2>1. \A k \in Keys : source[k].v = 1
      BY DEF Init
    <2>2. Len(log) = 0
      BY <1>1
    <2>3. QED
      BY <2>1, <2>2 DEF ShowsLast, PositionOf
  <1>4. \A i \in Instances : ViewOK(i) /\ StreamOK(i)
    BY <1>1 DEF ViewOK, StreamOK, At
  <1>5. CurrentOK
    BY <1>1 DEF CurrentOK, Lacking
  <1>6. ShowsLast(job.view)
    BY <1>1, <1>3 DEF ShowsLast
  <1>7. QED
    BY <1>0, <1>1, <1>2, <1>3, <1>4, <1>5, <1>6 DEF MInv, TInv, CurrentInv

\* The two mishaps are not undone.
LEMMA InOrderBefore ==
  ASSUME [Next]_vars, InOrder'
  PROVE  InOrder
  <1>1. CASE SourceCommit \/ UNCHANGED vars
    BY <1>1 DEF SourceCommit, vars, history, InOrder
  <1>2. ASSUME NEW i \in Instances, SnapshotStep(i) PROVE mishaps \subseteq mishaps'
    BY <1>2 DEF SnapshotStep, StartCompleted, CreateSlot, Elect, ElectTooLate, ExportSnapshot, Join,
       ClaimChunk, HandleSnapshot, MarkChunkCompleted, FinishSnapshot, ProduceDone, history
  <1>3. ASSUME NEW i \in Instances, StreamStep(i) PROVE mishaps \subseteq mishaps'
    BY <1>3 DEF StreamStep, OpenStream, Receive, history
  <1>4. ASSUME NEW i \in Instances, ProduceStep(i) PROVE mishaps \subseteq mishaps'
    BY <1>4 DEF ProduceStep, FlushSnapshotCopy, FlushSnapshotDoNothing, FlushGeneric, AckBatch, history
  <1>5. ASSUME NEW i \in Instances, Crash(i) \/ Restart(i) PROVE mishaps \subseteq mishaps'
    BY <1>5 DEF Crash, Restart, history
  <1>6. mishaps \subseteq mishaps' \/ InOrder
    BY <1>1, <1>2, <1>3, <1>4, <1>5 DEF Next
  <1>7. QED
    BY <1>6 DEF InOrder

WInv == TypeOK /\ MigrationInv

LEMMA WStep ==
  ASSUME WInv, [Next]_vars
  PROVE  WInv'
  <1>0. TInv
    BY DEF WInv, MigrationInv, TInv
  <1>1. TInv'
    BY <1>0, TStep
  <1>2. ASSUME InOrder' PROVE CurrentInv'
    <2>0. MInv
      BY <1>2, InOrderBefore DEF WInv, MigrationInv, MInv
    <2>1. CASE SourceCommit
      BY <2>0, <2>1, MSourceCommit
    <2>2. ASSUME NEW i \in Instances, SnapshotStep(i) PROVE CurrentInv'
      BY <1>2, <2>0, <2>2, MStartCompleted, MCreateSlot, MElect, MCrashOrRestart, MExportSnapshot,
         MJoin, MClaimChunk, MHandleSnapshot, MMarkChunkCompleted, MFinishSnapshot, MProduceDone
         DEF SnapshotStep
    <2>3. ASSUME NEW i \in Instances, StreamStep(i) PROVE CurrentInv'
      BY <1>2, <2>0, <2>3, MOpenStream, MReceive DEF StreamStep
    <2>4. ASSUME NEW i \in Instances, ProduceStep(i) PROVE CurrentInv'
      BY <2>0, <2>4, MFlushSnapshotCopy, MFlushSnapshotDoNothing, MFlushGeneric, MAckBatch DEF ProduceStep
    <2>5. ASSUME NEW i \in Instances, Crash(i) \/ Restart(i) PROVE CurrentInv'
      BY <2>0, <2>5, MCrashOrRestart
    <2>6. CASE UNCHANGED vars
      BY <2>0, <2>6, MStutter
    <2>7. QED
      BY <2>1, <2>2, <2>3, <2>4, <2>5, <2>6 DEF Next
  <1>3. QED
    BY <1>1, <1>2 DEF WInv, MigrationInv, TInv

\* Under the invariant, a row of the batch that is replayed is one of the exported
\* snapshot, so an older row of the target lacks a change that will come.
LEMMA KeptIsCurrent ==
  ASSUME WInv
  PROVE  KeptRowIsCurrent
  <1>a. SUFFICES ASSUME InOrder PROVE KeptRowIsCurrent
    BY DEF KeptRowIsCurrent
  <1>0. TypeOK /\ CurrentInv /\ ShapeInv
    BY <1>a DEF WInv, MigrationInv
  <1>1. SUFFICES ASSUME NEW i \in Instances, inst[i].phase = "replay", NEW n \in 1 .. inst[i].size,
                        NEW d, d = inst[i].buffer[n].data,
                        target[d["id"]] # Absent, target[d["id"]].v < d["v"]
                 PROVE  Coming(PositionOf(d["v"]))
    BY DEF KeptRowIsCurrent
  <1>2. /\ inst \in [Instances -> Instance] /\ inst[i].buffer \in Seq(Item) /\ inst[i].size \in Nat
        /\ confirmed \in Int /\ job.lsn \in Nat /\ job.view \in Tables
    BY <1>0, MTypes, InstanceFields
  <1>3. inst[i].size \in 1 .. Len(inst[i].buffer) /\ CdcIn(i) = {}
    BY <1>0, <1>1 DEF ShapeInv, BatchOK
  <1>4. n \in DOMAIN inst[i].buffer /\ inst[i].buffer[n] \in Item
    BY <1>2, <1>3
  <1>5. inst[i].buffer[n].source = "snapshot"
    <2>1. inst[i].buffer[n].source # "cdc"
      <3>1. n \notin CdcIn(i)
        BY <1>3
      <3>2. QED
        BY <3>1 DEF CdcIn
    <2>2. QED
      BY <1>4, <2>1, ItemFields
  <1>6. FullRow(d) /\ job.view[d["id"]] # Absent /\ d["v"] = job.view[d["id"]].v
    <2>1. ItemsOK(i) /\ ViewOK(i)
      BY <1>0 DEF ShapeInv, CurrentInv
    <2>2. FullRow(d)
      BY <1>1, <1>4, <1>5, <2>1 DEF ItemsOK
    <2>3. OfView(inst[i].buffer[n])
      BY <1>4, <2>1, SMTT(60) DEF ViewOK
    <2>4. QED
      BY <1>1, <1>5, <2>2, <2>3 DEF OfView
  <1>7. d["id"] \in Keys /\ d["v"] \in Nat /\ Lacking(target, d["id"])
    BY <1>1, <1>6 DEF FullRow, Lacking
  <1>8. QED
    BY <1>0, <1>6, <1>7 DEF CurrentInv, CurrentOK

\* The invariant of the migration.  Every message and every item can be written, and the
\* slot is there when a stream opens.  As long as neither a second job has exported
\* other rows than those already read, nor a stream has skipped what an earlier one went
\* back to (InOrder): the changes in the buffers are in order and without gaps, and a row
\* of the target that is older than the exported one lacks a change that the stream has
\* still to bring.
THEOREM MigrationInvariant == Spec => []MigrationInv
  <1>1. Init => WInv
    BY MInit DEF MInv, WInv, MigrationInv
  <1>2. WInv /\ [Next]_vars => WInv'
    BY WStep
  <1>3. WInv => MigrationInv
    BY DEF WInv
  <1>4. QED
    BY <1>1, <1>2, <1>3, PTL DEF Spec

\* The row that ON CONFLICT DO NOTHING keeps is not older than the row of the snapshot,
\* or the stream has still to bring the change it lacks: for any number of processes,
\* rows, chunks, changes and crashes, also of the coordinator, with the slot older than
\* the LSN of the job, until a second job has exported other rows or a stream has
\* skipped changes (InOrder).
THEOREM MigrationKeptRowIsCurrent == Spec => []KeptRowIsCurrent
  <1>1. Init => WInv
    BY MInit DEF MInv, WInv, MigrationInv
  <1>2. WInv /\ [Next]_vars => WInv'
    BY WStep
  <1>3. WInv => KeptRowIsCurrent
    BY KeptIsCurrent
  <1>4. QED
    BY <1>1, <1>2, <1>3, PTL DEF Spec
=============================================================================
