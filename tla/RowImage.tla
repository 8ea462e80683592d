------------------------------ MODULE RowImage ------------------------------
(***************************************************************************)
(* How a row change becomes SQL at the target: the tuples of a WAL message *)
(* (pq/message/tuple, pq/message/format) and the statements that           *)
(* example/postgresql/main.go builds from them.                            *)
(*                                                                         *)
(* A table has the primary key `id' and the columns `v' and `t'; a large   *)
(* value of `t' is stored out of line (TOAST).  The tables have REPLICA    *)
(* IDENTITY FULL, so every update carries the whole old tuple.             *)
(***************************************************************************)
EXTENDS Integers

CONSTANTS
  Keys,
  Absent,      \* no row has this key
  Unchanged    \* in a tuple: an unchanged TOAST value, which is not sent

ASSUME AbsentAssumption == Absent \notin [v : Nat, t : Nat]
ASSUME UnchangedAssumption == Unchanged \notin Keys \cup Nat

Columns == {"id", "v", "t"}
Row == [v : Nat, t : Nat]
Null == 0
Tables == [Keys -> Row \cup {Absent}]
Tuple == [Columns -> Keys \cup Nat \cup {Unchanged}]
Message == [op : {"insert", "update", "delete"}, old : Tuple, new : Tuple]

FullTuple(k, row) == [c \in Columns |-> IF c = "id" THEN k ELSE row[c]]

NoTuple == [c \in Columns |-> Unchanged]

\* What the source does, and the message pgoutput sends for it, as [op, old, new].
SourceAfter(tab, k, to, row) ==
  [x \in Keys |-> IF x = to THEN row ELSE IF x = k THEN Absent ELSE tab[x]]

InsertMessage(k, row) == [op |-> "insert", old |-> NoTuple, new |-> FullTuple(k, row)]

DeleteMessage(k, old) == [op |-> "delete", old |-> FullTuple(k, old), new |-> NoTuple]

UpdateMessage(k, old, to, row, toasted) ==
  [op |-> "update", old |-> FullTuple(k, old),
   new |-> [FullTuple(to, row) EXCEPT !["t"] = IF toasted THEN Unchanged ELSE @]]

-----------------------------------------------------------------------------

\* Mutant: the old tuple is not looked at.
FillToastNever(new, old) == new

\* Update.decode: a column that was not sent is taken from the old tuple.
FillToast(new, old) == [c \in Columns |-> IF new[c] = Unchanged THEN old[c] ELSE new[c]]

\* DecodeWithColumn: a column that was not sent is not in the map.
DecodeWithColumn(tuple) ==
  [c \in {d \in Columns : tuple[d] # Unchanged} |-> tuple[c]]

\* The data FilteredMapper takes: NewDecoded, or OldDecoded of a delete.
Decoded(m) ==
  DecodeWithColumn(CASE m.op = "insert" -> m.new
                     [] m.op = "update" -> FillToast(m.new, m.old)
                     [] m.op = "delete" -> m.old)

\* buildUpsertSQL: INSERT, ON CONFLICT DO UPDATE of the columns there are.
Upsert(tab, data) ==
  LET was == IF tab[data["id"]] = Absent THEN [v |-> Null, t |-> Null] ELSE tab[data["id"]]
  IN [tab EXCEPT ![data["id"]] =
        [c \in {"v", "t"} |-> IF c \in DOMAIN data THEN data[c] ELSE was[c]]]

\* Mutant: the row that is already there is replaced.
InsertDoUpdate(tab, data) == Upsert(tab, data)

\* buildInsertDoNothingSQL.
InsertDoNothing(tab, data) == IF tab[data["id"]] = Absent THEN Upsert(tab, data) ELSE tab

\* buildDeleteSQL, by the primary key of the old tuple.
DeleteRow(tab, data) == [tab EXCEPT ![data["id"]] = Absent]

\* buildSQL: an update is an upsert of the new row, also when it changed the key.
Execute(tab, m) ==
  IF m.op = "delete" THEN DeleteRow(tab, Decoded(m)) ELSE Upsert(tab, Decoded(m))
=============================================================================
