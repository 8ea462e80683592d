------------------------------ MODULE MCSetup -------------------------------
(***************************************************************************)
(* Two instances; a partitioned table, two tables of one name, heartbeat.  *)
(***************************************************************************)
EXTENDS Setup

CONSTANTS a, b

MCInstances == {a, b}

Table(schema, name) == [schema |-> schema, name |-> name]

Parted == Table("public", "parted")
Books == Table("public", "books")
OtherBooks == Table("archive", "books")
MCTables == {Parted, Books, OtherBooks}
MCHeartbeat == Table("public", "cdc_heartbeat")
Leaf1 == Table("public", "parted_1")
Leaf2 == Table("public", "parted_2")
MCLeaves == [t \in MCTables |-> IF t = Parted THEN {Leaf1, Leaf2} ELSE {}]
MCReplicaIdentity == [t \in MCTables |-> IF t = OtherBooks THEN "DEFAULT" ELSE "FULL"]

\* The identities found: any of the tables and of the first leaf.
Found == {[r \in Relations |-> CASE r = Parted -> x [] r = Leaf1 -> y [] r = Books -> z
                                 [] OTHER -> "DEFAULT"] :
            x \in {"DEFAULT", "FULL"}, y \in {"FULL", "OTHER"}, z \in {"DEFAULT", "FULL"}}

\* One aspect of the whole at a time varies.
Base == [tables |-> {Parted, Books}, create |-> TRUE, viaRoot |-> TRUE, heartbeat |-> TRUE,
         snapshot |-> {}, identity |-> [r \in Relations |-> "DEFAULT"],
         existing |-> MCTables, pub |-> "absent", published |-> {}, pubViaRoot |-> FALSE]

\* The heartbeat table is there from an earlier start.
Again == [Base EXCEPT !.existing = MCTables \cup {MCHeartbeat}, !.pub = "some"]

MCScenarios ==
  {[Base EXCEPT !.identity = f, !.viaRoot = v] : f \in Found, v \in BOOLEAN}
    \cup {[Base EXCEPT !.tables = MCTables, !.heartbeat = FALSE, !.viaRoot = v, !.snapshot = s,
                       !.identity = [Base.identity EXCEPT ![OtherBooks] = "FULL"]] :
            v \in BOOLEAN, s \in {{}, {Books}, {Parted}, {Leaf1}}}
    \cup {[Again EXCEPT !.published = p, !.pubViaRoot = v, !.create = c, !.snapshot = s] :
            p \in {{Books}, {Parted, MCHeartbeat}}, v \in BOOLEAN, c \in BOOLEAN,
            s \in {{}, {Books}, {Parted}, {Leaf2}}}
    \cup {[Base EXCEPT !.pub = "all", !.create = FALSE, !.pubViaRoot = v] : v \in BOOLEAN}
    \cup {[Base EXCEPT !.create = FALSE],
          [Base EXCEPT !.existing = {Books}],
          [Base EXCEPT !.existing = {Books}, !.viaRoot = FALSE],
          [Base EXCEPT !.existing = {Books}, !.viaRoot = FALSE, !.tables = {Books, OtherBooks}],
          [Base EXCEPT !.existing = {}, !.heartbeat = FALSE, !.viaRoot = FALSE]}
=============================================================================
