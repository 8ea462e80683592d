------------------------------- MODULE Setup --------------------------------
(***************************************************************************)
(* NewConnector of connector.go before anything is replicated: instances   *)
(* with one configuration create the heartbeat table, set the replica      *)
(* identities, create the publication or take the one that is there, and   *)
(* choose the tables of the snapshot.  One step per SQL statement.  An     *)
(* instance that fails exits and is started again.                         *)
(***************************************************************************)
EXTENDS Integers, FiniteSets

CONSTANTS
  Instances,
  Tables,          \* tables, [schema, name]
  Heartbeat,       \* public.cdc_heartbeat
  Leaves,          \* the leaf partitions of each table
  ReplicaIdentity, \* the identity configured for each table
  Scenarios,
  Nil,
  MaxCrashes       \* bound: how often processes die

\* "OTHER" stands for the identities ReplicaIdentityMap does not know.
Identities == {"DEFAULT", "FULL", "OTHER"}

AllTables == Tables \cup {Heartbeat}
AllLeaves == UNION {Leaves[t] : t \in Tables}
Relations == AllTables \cup AllLeaves

\* The configuration, and what the source has when it is first used.
Scenario ==
  [tables : SUBSET Tables,          \* publication.tables
   create : BOOLEAN,                \* createIfNotExists
   viaRoot : BOOLEAN,               \* publishViaPartitionRoot
   heartbeat : BOOLEAN,
   snapshot : SUBSET (Relations \ {Heartbeat}), \* snapshot.tables
   identity : [Relations -> Identities],
   existing : SUBSET AllTables,
   pub : {"absent", "all", "some"}, \* no publication, FOR ALL TABLES, FOR TABLE ...
   published : SUBSET AllTables,    \* the tables of the latter
   pubViaRoot : BOOLEAN]            \* its publish_via_partition_root

ASSUME ScenariosAssumption ==
  Scenarios \subseteq Scenario /\ \A s \in Scenarios : s.published \subseteq s.existing
ASSUME LeavesAssumption ==
  /\ Heartbeat \notin Tables
  /\ \A t \in Tables : Leaves[t] \cap AllTables = {}
  /\ \A t, u \in Tables : t # u => Leaves[t] \cap Leaves[u] = {}
ASSUME IdentityAssumption == ReplicaIdentity \in [Tables -> {"DEFAULT", "FULL"}]
ASSUME NilAssumption == \A S \in SUBSET Relations : Nil # S
ASSUME MaxCrashesAssumption == MaxCrashes \in Nat

VARIABLES
  scenario,
  existing,   \* the tables that exist
  identity,   \* relreplident of every relation
  pub,        \* the publication: its kind, tables and publish_via_partition_root
  inst,       \* what each process is doing
  crashes

vars == <<scenario, existing, identity, pub, inst, crashes>>

PCs == {"begin", "table", "leaves", "alter", "create", "ensure", "add", "added", "tables",
        "ready", "failed", "down"}
Fresh == [pc |-> "begin", asked |-> {}, todo |-> {}, info |-> Nil, tables |-> {},
          error |-> "none", overlapped |-> FALSE]

\* A process: the tables whose leaves are still to be listed, the relations still to
\* be altered, what the publication was found to be, and the tables of the snapshot.
Instance ==
  [pc : PCs, asked : SUBSET AllTables, todo : SUBSET Relations,
   info : {Nil} \cup SUBSET Relations, tables : SUBSET Relations,
   error : {"none", "missing", "absent", "exists", "subset"}, overlapped : BOOLEAN]

Publication == [kind : {"absent", "all", "some"}, tables : SUBSET AllTables, viaRoot : BOOLEAN]

TypeOK ==
  /\ scenario \in Scenarios
  /\ existing \subseteq AllTables
  /\ identity \in [Relations -> Identities]
  /\ pub \in Publication
  /\ inst \in [Instances -> Instance]
  /\ \A i \in Instances : inst[i].pc \in {"tables", "ready"} => inst[i].info # Nil
  /\ crashes \in 0 .. MaxCrashes

Init ==
  /\ scenario \in Scenarios
  /\ existing = scenario.existing
  /\ identity = scenario.identity
  /\ pub = [kind |-> scenario.pub, tables |-> scenario.published, viaRoot |-> scenario.pubViaRoot]
  /\ inst = [i \in Instances |-> Fresh]
  /\ crashes = 0

At(i, p) == inst[i].pc = p
Active(i) == inst[i].pc \notin {"begin", "ready", "failed", "down"}

Fail(i, error) == inst' = [inst EXCEPT ![i].pc = "failed", ![i].error = error]

\* SetDefault adds the heartbeat table to the configured ones.
Configured == scenario.tables \cup IF scenario.heartbeat THEN {Heartbeat} ELSE {}

\* The identity a relation is to have: that of its table.
Wanted(r) ==
  IF r = Heartbeat THEN "DEFAULT"
  ELSE ReplicaIdentity[CHOOSE t \in Tables : r = t \/ r \in Leaves[t]]

LeavesOf(t) == IF t \in Tables THEN Leaves[t] ELSE {}

\* What pg_publication_tables lists for tables S: without publish_via_partition_root
\* the leaves of a partitioned table and not the table.
Listed(S, viaRoot) ==
  IF viaRoot THEN S ELSE {t \in S : LeavesOf(t) = {}} \cup UNION {LeavesOf(t) : t \in S}

Published == Listed(IF pub.kind = "all" THEN existing ELSE pub.tables, pub.viaRoot)

-----------------------------------------------------------------------------

\* SetReplicaIdentities begins; it does nothing without createIfNotExists.
Begun(s) == [s EXCEPT !.pc = IF scenario.create THEN "leaves" ELSE "alter",
                      !.asked = IF scenario.viaRoot THEN Configured ELSE {}]

\* ensureSourceHeartbeatTable: CREATE TABLE IF NOT EXISTS looks for the table.
EnsureHeartbeatTable(i) ==
  /\ At(i, "begin")
  /\ inst' = [j \in Instances |->
       IF j = i
         THEN [(IF scenario.heartbeat /\ Heartbeat \notin existing
                  THEN [inst[i] EXCEPT !.pc = "table"] ELSE Begun(inst[i]))
               EXCEPT !.overlapped = \E x \in Instances \ {i} : Active(x)]
         ELSE [inst[j] EXCEPT !.overlapped = @ \/ Active(j)]]
  /\ UNCHANGED <<scenario, existing, identity, pub, crashes>>

\* The rest of the statement: it fails when the table has been created meanwhile.
CreateHeartbeatTable(i) ==
  /\ At(i, "table")
  /\ IF Heartbeat \in existing
       THEN Fail(i, "exists") /\ UNCHANGED existing
       ELSE /\ existing' = existing \cup {Heartbeat}
            /\ inst' = [inst EXCEPT ![i] = Begun(@)]
  /\ UNCHANGED <<scenario, identity, pub, crashes>>

\* setLeafPartitionReplicaIdentities, one table: its leaves to be altered.
ListLeaves(i) ==
  /\ At(i, "leaves")
  /\ inst[i].todo = {}
  /\ \E t \in inst[i].asked :
       IF t \notin existing
         THEN Fail(i, "missing")
         ELSE inst' = [inst EXCEPT ![i].asked = @ \ {t},
                ![i].todo = {r \in LeavesOf(t) : identity[r] # Wanted(t)}]
  /\ UNCHANGED <<scenario, existing, identity, pub, crashes>>

\* Mutant: a table that has some identity is left alone.
DiffByName(found) == {t \in Configured : \A u \in found : u.name # t.name}

\* Tables.Diff looks a table up by name and identity, not by schema.
Diff(found) == {t \in Configured : \A u \in found : u.name = t.name => identity[u] # Wanted(t)}

\* SetReplicaIdentities after the leaves: what the catalog says of the tables.
GetReplicaIdentities(i) ==
  /\ At(i, "leaves")
  /\ inst[i].asked = {} /\ inst[i].todo = {}
  /\ LET found == Configured \cap existing
     IN IF found = {} THEN Fail(i, "missing")
        ELSE inst' = [inst EXCEPT ![i].pc = "alter", ![i].todo = Diff(found)]
  /\ UNCHANGED <<scenario, existing, identity, pub, crashes>>

AlterTableReplicaIdentity(i) ==
  \E r \in inst[i].todo :
    /\ inst[i].pc \in {"leaves", "alter"}
    /\ IF r \in existing \cup AllLeaves
         THEN /\ identity' = [identity EXCEPT ![r] = Wanted(r)]
              /\ inst' = [inst EXCEPT ![i].todo = @ \ {r}]
         ELSE Fail(i, "missing") /\ UNCHANGED identity
    /\ UNCHANGED <<scenario, existing, pub, crashes>>

AfterCreate(i, info) ==
  inst' = [inst EXCEPT ![i].pc = IF scenario.heartbeat THEN "ensure" ELSE "tables",
                       ![i].info = info]

\* Mutant: createIfNotExists is not looked at.
CreateNever(i) ==
  /\ At(i, "alter")
  /\ inst[i].todo = {}
  /\ IF pub.kind # "absent" THEN AfterCreate(i, Published) ELSE Fail(i, "absent")
  /\ UNCHANGED <<scenario, existing, identity, pub, crashes>>

\* Create: a publication that is there is taken as it is.
Create(i) ==
  /\ At(i, "alter")
  /\ inst[i].todo = {}
  /\ CASE pub.kind # "absent" -> AfterCreate(i, Published)
       [] pub.kind = "absent" /\ scenario.create -> inst' = [inst EXCEPT ![i].pc = "create"]
       [] OTHER -> Fail(i, "absent")
  /\ UNCHANGED <<scenario, existing, identity, pub, crashes>>

NewPublication == [kind |-> "some", tables |-> Configured, viaRoot |-> scenario.viaRoot]

\* Mutant: what Info found before, which is nothing, is returned.
CreateQueryNoInfo(i) ==
  /\ At(i, "create")
  /\ CASE pub.kind # "absent" -> Fail(i, "exists") /\ UNCHANGED pub
       [] pub.kind = "absent" /\ ~ (Configured \subseteq existing) ->
            Fail(i, "missing") /\ UNCHANGED pub
       [] OTHER -> pub' = NewPublication /\ AfterCreate(i, Nil)
  /\ UNCHANGED <<scenario, existing, identity, crashes>>

\* CREATE PUBLICATION fails when another instance was faster, and when a table does
\* not exist.  Create returns the tables as they are configured.
CreateQuery(i) ==
  /\ At(i, "create")
  /\ CASE pub.kind # "absent" -> Fail(i, "exists") /\ UNCHANGED pub
       [] pub.kind = "absent" /\ ~ (Configured \subseteq existing) ->
            Fail(i, "missing") /\ UNCHANGED pub
       [] OTHER -> pub' = NewPublication /\ AfterCreate(i, Configured)
  /\ UNCHANGED <<scenario, existing, identity, crashes>>

\* Mutant: the heartbeat table is always added.
EnsureTableBlindly(i) ==
  /\ At(i, "ensure")
  /\ inst' = [inst EXCEPT ![i].pc = "add"]
  /\ UNCHANGED <<scenario, existing, identity, pub, crashes>>

\* EnsureTable for the heartbeat: nothing to do if it is published.
EnsureTable(i) ==
  /\ At(i, "ensure")
  /\ inst' = IF Heartbeat \in Published
               THEN [inst EXCEPT ![i].pc = "tables", ![i].info = Published]
               ELSE [inst EXCEPT ![i].pc = "add"]
  /\ UNCHANGED <<scenario, existing, identity, pub, crashes>>

\* ALTER PUBLICATION ... ADD TABLE fails for a table that is a member.
AddTable(i) ==
  /\ At(i, "add")
  /\ IF Heartbeat \in Published
       THEN Fail(i, "exists") /\ UNCHANGED pub
       ELSE /\ pub' = [pub EXCEPT !.tables = @ \cup {Heartbeat}]
            /\ inst' = [inst EXCEPT ![i].pc = "added"]
  /\ UNCHANGED <<scenario, existing, identity, crashes>>

\* The Info that EnsureTable returns.
InfoAfterAdd(i) ==
  /\ At(i, "added")
  /\ inst' = [inst EXCEPT ![i].pc = "tables", ![i].info = Published]
  /\ UNCHANGED <<scenario, existing, identity, pub, crashes>>

\* Mutant: the tables come from the configuration.
GetSnapshotTablesConfigured(i) ==
  /\ At(i, "tables")
  /\ inst' = [inst EXCEPT ![i].pc = "ready",
       ![i].tables = (IF scenario.snapshot = {} THEN Configured ELSE scenario.snapshot) \ {Heartbeat}]
  /\ UNCHANGED <<scenario, existing, identity, pub, crashes>>

\* GetSnapshotTables: snapshot.tables if all are published, or all that are.
GetSnapshotTables(i) ==
  /\ At(i, "tables")
  /\ IF scenario.snapshot \subseteq inst[i].info
       THEN inst' = [inst EXCEPT ![i].pc = "ready",
              ![i].tables = (IF scenario.snapshot = {} THEN inst[i].info ELSE scenario.snapshot)
                              \ {Heartbeat}]
       ELSE Fail(i, "subset")
  /\ UNCHANGED <<scenario, existing, identity, pub, crashes>>

-----------------------------------------------------------------------------

Crash(i) ==
  /\ inst[i].pc \notin {"failed", "down"}
  /\ crashes < MaxCrashes
  /\ crashes' = crashes + 1
  /\ inst' = [inst EXCEPT ![i] = [Fresh EXCEPT !.pc = "down"]]
  /\ UNCHANGED <<scenario, existing, identity, pub>>

Restart(i) ==
  /\ inst[i].pc \in {"failed", "down"}
  /\ inst' = [inst EXCEPT ![i] = Fresh]
  /\ UNCHANGED <<scenario, existing, identity, pub, crashes>>

SetupStep(i) ==
  \/ EnsureHeartbeatTable(i) \/ CreateHeartbeatTable(i) \/ ListLeaves(i) \/ GetReplicaIdentities(i)
  \/ AlterTableReplicaIdentity(i) \/ Create(i) \/ CreateQuery(i) \/ EnsureTable(i)
  \/ AddTable(i) \/ InfoAfterAdd(i) \/ GetSnapshotTables(i)

Next == \E i \in Instances : SetupStep(i) \/ Crash(i) \/ Restart(i)

Spec == Init /\ [][Next]_vars

\* Every process goes on, and is started again when it has ended.
FairSpec == Spec /\ \A i \in Instances : WF_vars(SetupStep(i)) /\ WF_vars(Restart(i))

-----------------------------------------------------------------------------
(* Properties.                                                             *)

\* The code does not tell apart tables of one name.
Unshared(t) == \A u \in Configured \ {t} : u.name # t.name

\* With createIfNotExists, once an instance is ready or the program has created the
\* publication, every configured table whose name no other configured table shares
\* has the configured identity, and with publishViaPartitionRoot every leaf of it too,
\* however often set-up was interrupted: no update of them is published without the
\* old values that Update.decode needs.  Of tables that share a name, and of leaves
\* without publishViaPartitionRoot, the code (Diff, SetReplicaIdentities) makes sure
\* of nothing.
IdentitiesAligned ==
  scenario.create
    /\ (pub.kind # scenario.pub \/ \E i \in Instances : At(i, "ready")) =>
      \A t \in {u \in Configured : Unshared(u)} :
        /\ identity[t] = Wanted(t)
        /\ scenario.viaRoot /\ t # Heartbeat => \A r \in Leaves[t] : identity[r] = Wanted(t)

\* The relations that hold the rows of tables S.
Holders(S) == UNION {IF LeavesOf(t) = {} THEN {t} ELSE LeavesOf(t) : t \in S}

\* The snapshot of a ready instance covers only rows whose later changes are
\* published, all configured rows if the program made the publication, and never the
\* heartbeat, which is published too.  It has the names the stream uses, but for the
\* instance that created a publication of leaves and, without heartbeat, did not read
\* it again (Create returns the configuration, GetSnapshotTables takes it).
SnapshotTablesStreamed ==
  \A i \in Instances : At(i, "ready") =>
    /\ Heartbeat \notin inst[i].tables
    /\ scenario.heartbeat => Heartbeat \in Published
    /\ Holders(inst[i].tables) \subseteq Holders(Published)
    /\ scenario.pub # "absent" \/ scenario.viaRoot \/ scenario.heartbeat =>
         inst[i].tables \subseteq Published
    /\ scenario.pub = "absent" /\ scenario.snapshot = {} =>
         Holders(inst[i].tables) = Holders(scenario.tables)

\* Only an instance that another one overlapped finds something created under its
\* hands: what a crash left half done, or an earlier instance did, is no obstacle
\* (EnsureTable: idempotent for sequential process starts).
FailsOnlyInRace ==
  \A i \in Instances : inst[i].error = "exists" => inst[i].overlapped

\* A configuration that can be satisfied at all.
Satisfiable ==
  /\ scenario.pub = "absent" => scenario.create
  /\ scenario.create => scenario.tables \subseteq scenario.existing
  /\ scenario.snapshot \subseteq
       CASE scenario.pub = "absent" -> Listed(scenario.tables, scenario.viaRoot)
         [] scenario.pub = "all"    -> Listed(scenario.existing, scenario.pubViaRoot)
         [] scenario.pub = "some"   -> Listed(scenario.published, scenario.pubViaRoot)

\* Then all instances are ready in the end, those that lost a race too.
EveryoneReady == Satisfiable => <>[](\A i \in Instances : At(i, "ready"))
=============================================================================
