---------------------------- MODULE SetupProofs -----------------------------
(***************************************************************************)
(* Set-up by any number of instances, for any tables, partitions and       *)
(* configurations.                                                         *)
(***************************************************************************)
EXTENDS Setup, TLAPS

\* Instances that are at work together know it; what one is about to create has
\* been created under its hands only then.
RaceInv ==
  /\ \A i, j \in Instances : i # j /\ Active(i) /\ Active(j) => inst[i].overlapped
  /\ \A i \in Instances :
       /\ At(i, "table") /\ Heartbeat \in existing => inst[i].overlapped
       /\ At(i, "create") /\ pub.kind # "absent" => inst[i].overlapped
       /\ At(i, "add") /\ Heartbeat \in Published => inst[i].overlapped
       /\ Active(i) /\ ~At(i, "table") /\ scenario.heartbeat => Heartbeat \in existing
       /\ inst[i].pc \in {"ensure", "add", "added"} => scenario.heartbeat
       /\ inst[i].error # "none" => At(i, "failed")
       /\ inst[i].pc \in {"ensure", "add", "added", "tables", "ready"} => pub.kind # "absent"
  /\ FailsOnlyInRace

\* An instance may use the names it has read of the publication.
NamesRead == scenario.pub # "absent" \/ scenario.viaRoot \/ scenario.heartbeat

\* What an instance has read of the publication is still published.
ReadOK(i) ==
  /\ At(i, "added") => Heartbeat \in Published
  /\ At(i, "tables") =>
       /\ scenario.heartbeat => Heartbeat \in Published
       /\ Holders(inst[i].info) \subseteq Holders(Published)
       /\ NamesRead => inst[i].info \subseteq Published
       /\ scenario.pub = "absent" => Holders(inst[i].info) = Holders(Configured)

TablesInv ==
  /\ pub.kind = "absent" => scenario.pub = "absent"
  /\ scenario.pub = "absent" /\ pub.kind # "absent" => pub = NewPublication
  /\ \A i \in Instances : ReadOK(i)
  /\ SnapshotTablesStreamed

LeavesAligned(t) == scenario.viaRoot /\ t # Heartbeat => \A r \in Leaves[t] : identity[r] = Wanted(t)

AllAligned ==
  \A t \in Configured : Unshared(t) => identity[t] = Wanted(t) /\ LeavesAligned(t)

\* What is not aligned yet is still to be asked for or to be altered.
IdentityInv ==
  scenario.create =>
    /\ pub.kind # scenario.pub => AllAligned
    /\ \A i \in Instances :
         /\ At(i, "leaves") /\ scenario.viaRoot =>
              \A t \in Configured \ (inst[i].asked \cup {Heartbeat}) : \A r \in Leaves[t] :
                identity[r] = Wanted(t) \/ r \in inst[i].todo
         /\ At(i, "alter") =>
              \A t \in Configured :
                Unshared(t) => LeavesAligned(t) /\ (identity[t] = Wanted(t) \/ t \in inst[i].todo)
         /\ inst[i].pc \in {"create", "ensure", "add", "added", "tables", "ready"} => AllAligned

-----------------------------------------------------------------------------

LEMMA WantedLeaf ==
  ASSUME NEW t \in Tables, NEW r \in Leaves[t]
  PROVE  Wanted(r) = Wanted(t)
<1>1. r \notin AllTables /\ t # Heartbeat /\ r # Heartbeat
  BY LeavesAssumption DEF AllTables
<1>2. \A u \in Tables : (r = u \/ r \in Leaves[u]) <=> u = t
  BY <1>1, LeavesAssumption DEF AllTables
<1>3. \A u \in Tables : (t = u \/ t \in Leaves[u]) <=> u = t
  BY LeavesAssumption DEF AllTables
<1>4. (CHOOSE u \in Tables : r = u \/ r \in Leaves[u]) = t
  BY <1>2
<1>5. (CHOOSE u \in Tables : t = u \/ t \in Leaves[u]) = t
  BY <1>3
<1> QED BY <1>1, <1>4, <1>5 DEF Wanted

LEMMA WantedType ==
  ASSUME NEW r \in Relations
  PROVE  Wanted(r) \in Identities
<1>1. CASE r = Heartbeat
  BY <1>1 DEF Wanted, Identities
<1>2. CASE r # Heartbeat
  <2>1. \E t \in Tables : r = t \/ r \in Leaves[t]
    BY <1>2 DEF Relations, AllTables, AllLeaves
  <2>2. (CHOOSE t \in Tables : r = t \/ r \in Leaves[t]) \in Tables
    BY <2>1
  <2> QED BY <1>2, <2>2, IdentityAssumption DEF Wanted, Identities
<1> QED BY <1>1, <1>2

LEMMA ConfiguredType ==
  ASSUME scenario \in Scenarios
  PROVE  /\ scenario \in Scenario
         /\ Configured \subseteq AllTables
         /\ Configured \ {Heartbeat} \subseteq Tables
         /\ Configured \ {Heartbeat} = scenario.tables
         /\ scenario.heartbeat <=> Heartbeat \in Configured
BY ScenariosAssumption, LeavesAssumption DEF Scenario, Configured, AllTables

\* What pg_publication_tables lists, and the relations that hold the rows.
LEMMA ListedHeartbeat ==
  ASSUME NEW S, NEW v
  PROVE  Heartbeat \in Listed(S, v) <=> Heartbeat \in S
BY LeavesAssumption DEF Listed, LeavesOf, AllTables

LEMMA ListedAdd ==
  ASSUME NEW S, NEW v
  PROVE  Listed(S \cup {Heartbeat}, v) = Listed(S, v) \cup {Heartbeat}
BY LeavesAssumption DEF Listed, LeavesOf

LEMMA ListedType ==
  ASSUME NEW S \in SUBSET AllTables, NEW v
  PROVE  Listed(S, v) \subseteq Relations
BY DEF Listed, LeavesOf, Relations, AllLeaves

LEMMA HoldersMono ==
  ASSUME NEW S, NEW T, S \subseteq T
  PROVE  Holders(S) \subseteq Holders(T)
BY DEF Holders

LEMMA HoldersMinus ==
  ASSUME NEW S
  PROVE  Holders(S \ {Heartbeat}) = Holders(S) \ {Heartbeat}
BY LeavesAssumption DEF Holders, LeavesOf, AllTables

LEMMA ListedHolders ==
  ASSUME NEW S \in SUBSET AllTables, NEW v
  PROVE  Holders(Listed(S, v)) = Holders(S)
<1>1. CASE v
  BY <1>1 DEF Listed
<1>2. CASE ~v
  <2>1. \A t : \A r \in LeavesOf(t) : LeavesOf(r) = {}
    BY LeavesAssumption DEF LeavesOf, AllTables
  <2>2. Listed(S, v) = {t \in S : LeavesOf(t) = {}} \cup UNION {LeavesOf(t) : t \in S}
    BY <1>2 DEF Listed
  <2>3. ASSUME NEW r PROVE r \in Holders(Listed(S, v)) <=> r \in Holders(S)
    <3>1. r \in Holders(Listed(S, v)) <=>
            \E t \in Listed(S, v) : r \in IF LeavesOf(t) = {} THEN {t} ELSE LeavesOf(t)
      BY DEF Holders
    <3>2. r \in Holders(S) <=> \E t \in S : r \in IF LeavesOf(t) = {} THEN {t} ELSE LeavesOf(t)
      BY DEF Holders
    <3> QED BY <2>1, <2>2, <3>1, <3>2
  <2> QED BY <2>3
<1> QED BY <1>1, <1>2

-----------------------------------------------------------------------------

LEMMA TypeInit == Init => TypeOK
<1> SUFFICES ASSUME Init PROVE TypeOK
  OBVIOUS
<1>1. scenario \in Scenario
  BY ScenariosAssumption DEF Init
<1>2. Fresh \in Instance
  BY DEF Fresh, Instance, PCs
<1>3. inst \in [Instances -> Instance] /\ \A i \in Instances : inst[i] = Fresh
  BY <1>2 DEF Init
<1>4. \A i \in Instances : inst[i].pc = "begin"
  BY <1>3 DEF Fresh
<1>5. /\ existing \subseteq AllTables
      /\ identity \in [Relations -> Identities]
      /\ pub \in Publication
  BY <1>1 DEF Init, Scenario, Publication
<1> QED BY <1>3, <1>4, <1>5, MaxCrashesAssumption DEF Init, TypeOK

\* A step of one process, to the state s.
LEMMA TypeMove ==
  ASSUME TypeOK, NEW i \in Instances, NEW s \in Instance,
         s.pc \in {"tables", "ready"} => s.info # Nil,
         inst' = [inst EXCEPT ![i] = s],
         scenario' = scenario,
         existing' \subseteq AllTables,
         identity' \in [Relations -> Identities],
         pub' \in Publication,
         crashes' \in 0 .. MaxCrashes
  PROVE  TypeOK'
BY DEF TypeOK

LEMMA TypeFail ==
  ASSUME TypeOK, NEW i \in Instances,
         NEW error \in {"none", "missing", "absent", "exists", "subset"}, Fail(i, error),
         UNCHANGED <<scenario, existing, identity, pub, crashes>>
  PROVE  TypeOK'
<1> DEFINE s == [inst[i] EXCEPT !.pc = "failed", !.error = error]
<1>1. s \in Instance /\ s.pc = "failed"
  BY DEF TypeOK, Instance, PCs
<1>2. inst' = [inst EXCEPT ![i] = s]
  BY DEF Fail, TypeOK
<1> HIDE DEF s
<1> QED BY <1>1, <1>2, TypeMove DEF TypeOK

\* Info is read: the process goes on with what is published.
LEMMA TypeInfo ==
  ASSUME TypeOK, NEW i \in Instances, NEW pc \in {"ensure", "tables"}, NEW info \in SUBSET Relations,
         inst' = [inst EXCEPT ![i].pc = pc, ![i].info = info],
         UNCHANGED <<scenario, existing, identity, crashes>>,
         pub' \in Publication
  PROVE  TypeOK'
<1> DEFINE s == [inst[i] EXCEPT !.pc = pc, !.info = info]
<1>1. s \in Instance /\ s.info # Nil
  BY NilAssumption DEF TypeOK, Instance, PCs
<1>2. inst' = [inst EXCEPT ![i] = s]
  BY DEF TypeOK
<1> HIDE DEF s
<1> QED BY <1>1, <1>2, TypeMove DEF TypeOK

LEMMA TypeStep == TypeOK /\ [Next]_vars => TypeOK'
<1> SUFFICES ASSUME TypeOK, [Next]_vars PROVE TypeOK'
  OBVIOUS
<1>0. Configured \subseteq AllTables /\ Published \subseteq Relations
      /\ AllTables \subseteq Relations /\ AllLeaves \subseteq Relations /\ Heartbeat \in AllTables
      /\ scenario \in Scenario
  BY ConfiguredType, ListedType DEF TypeOK, Published, Publication, Relations, AllTables
<1>a. \A i \in Instances : inst[i] \in Instance
  BY DEF TypeOK
<1>b. \A i \in Instances : /\ Begun(inst[i]) \in Instance
                           /\ Begun(inst[i]).pc \in {"leaves", "alter"}
  BY <1>0, <1>a DEF Begun, Instance, PCs
<1>1. ASSUME NEW i \in Instances, EnsureHeartbeatTable(i) PROVE TypeOK'
  <2> DEFINE b == IF scenario.heartbeat /\ Heartbeat \notin existing
                    THEN [inst[i] EXCEPT !.pc = "table"] ELSE Begun(inst[i])
             s == [b EXCEPT !.overlapped = \E x \in Instances \ {i} : Active(x)]
             o(j) == [inst[j] EXCEPT !.overlapped = @ \/ Active(j)]
  <2>1. inst' = [j \in Instances |-> IF j = i THEN s ELSE o(j)]
    BY <1>1 DEF EnsureHeartbeatTable
  <2>0. b \in Instance /\ b.pc \notin {"tables", "ready"}
    BY <1>0, <1>a, <1>b DEF Instance, PCs
  <2>2. s \in Instance /\ s.pc \notin {"tables", "ready"}
    <3> HIDE DEF b
    <3> QED BY <2>0 DEF Instance
  <2>3. \A j \in Instances : o(j) \in Instance /\ o(j).pc = inst[j].pc /\ o(j).info = inst[j].info
    BY <1>a DEF Instance, Active
  <2> HIDE DEF s, o
  <2>4. inst' \in [Instances -> Instance]
        /\ \A j \in Instances : inst'[j].pc \in {"tables", "ready"} => inst'[j].info # Nil
    BY <2>1, <2>2, <2>3 DEF TypeOK
  <2> QED BY <1>0, <1>1, <2>4 DEF TypeOK, EnsureHeartbeatTable
<1>1a. ASSUME NEW i \in Instances, CreateHeartbeatTable(i) PROVE TypeOK'
  <2>1. CASE Heartbeat \in existing
    BY <1>1a, <2>1, TypeFail DEF CreateHeartbeatTable
  <2>2. CASE Heartbeat \notin existing
    <3>1. /\ inst' = [inst EXCEPT ![i] = Begun(inst[i])]
          /\ existing' \subseteq AllTables
          /\ UNCHANGED <<scenario, identity, pub, crashes>>
      BY <1>0, <1>1a, <2>2 DEF CreateHeartbeatTable, TypeOK
    <3> QED BY <1>b, <3>1, TypeMove DEF TypeOK
  <2> QED BY <2>1, <2>2
<1>2. ASSUME NEW i \in Instances, ListLeaves(i) PROVE TypeOK'
  <2>1. PICK t \in inst[i].asked :
          IF t \notin existing
            THEN Fail(i, "missing")
            ELSE inst' = [inst EXCEPT ![i].asked = @ \ {t},
                   ![i].todo = {r \in LeavesOf(t) : identity[r] # Wanted(t)}]
    BY <1>2 DEF ListLeaves
  <2> DEFINE todo == {r \in LeavesOf(t) : identity[r] # Wanted(t)}
             s == [inst[i] EXCEPT !.asked = @ \ {t}, !.todo = todo]
  <2>2. t \in AllTables /\ todo \subseteq Relations
    BY <1>a, <2>1 DEF Instance, LeavesOf, AllLeaves, Relations
  <2>3. s \in Instance /\ s.pc = "leaves"
    <3> HIDE DEF todo
    <3> QED BY <1>a, <1>2, <2>2 DEF Instance, ListLeaves, At
  <2>4. CASE t \in existing
    <3>1. inst' = [inst EXCEPT ![i] = s]
      BY <2>1, <2>4 DEF TypeOK
    <3> HIDE DEF s
    <3> QED BY <1>2, <2>3, <3>1, TypeMove DEF TypeOK, ListLeaves
  <2>5. CASE t \notin existing
    BY <1>2, <2>1, <2>5, TypeFail DEF ListLeaves
  <2> QED BY <2>4, <2>5
<1>3. ASSUME NEW i \in Instances, GetReplicaIdentities(i) PROVE TypeOK'
  <2> DEFINE todo == Diff(Configured \cap existing)
             s == [inst[i] EXCEPT !.pc = "alter", !.todo = todo]
  <2>1. todo \subseteq Relations
    BY <1>0 DEF Diff
  <2>2. s \in Instance /\ s.pc = "alter"
    <3> HIDE DEF todo
    <3> QED BY <1>a, <2>1 DEF Instance, PCs
  <2>3. CASE Configured \cap existing # {}
    <3>1. inst' = [inst EXCEPT ![i] = s]
      BY <1>3, <2>3 DEF TypeOK, GetReplicaIdentities
    <3> HIDE DEF s
    <3> QED BY <1>3, <2>2, <3>1, TypeMove DEF TypeOK, GetReplicaIdentities
  <2>4. CASE Configured \cap existing = {}
    BY <1>3, <2>4, TypeFail DEF GetReplicaIdentities
  <2> QED BY <2>3, <2>4
<1>4. ASSUME NEW i \in Instances, AlterTableReplicaIdentity(i) PROVE TypeOK'
  <2>1. PICK r \in inst[i].todo :
          /\ inst[i].pc \in {"leaves", "alter"}
          /\ IF r \in existing \cup AllLeaves
               THEN /\ identity' = [identity EXCEPT ![r] = Wanted(r)]
                    /\ inst' = [inst EXCEPT ![i].todo = @ \ {r}]
               ELSE Fail(i, "missing") /\ UNCHANGED identity
          /\ UNCHANGED <<scenario, existing, pub, crashes>>
    BY <1>4 DEF AlterTableReplicaIdentity
  <2> DEFINE s == [inst[i] EXCEPT !.todo = @ \ {r}]
  <2>2. s \in Instance /\ s.pc \in {"leaves", "alter"}
    BY <1>a, <2>1 DEF Instance
  <2>3. CASE r \in existing \cup AllLeaves
    <3>1. inst' = [inst EXCEPT ![i] = s]
      BY <2>1, <2>3 DEF TypeOK
    <3>2. r \in Relations /\ identity' \in [Relations -> Identities]
      BY <1>a, <2>1, <2>3, WantedType DEF TypeOK, Instance
    <3> HIDE DEF s
    <3> QED BY <2>1, <2>2, <3>1, <3>2, TypeMove DEF TypeOK
  <2>4. CASE r \notin existing \cup AllLeaves
    BY <2>1, <2>4, TypeFail
  <2> QED BY <2>3, <2>4
<1>5. ASSUME NEW i \in Instances, Create(i) PROVE TypeOK'
  <2>1. CASE pub.kind # "absent"
    BY <1>0, <1>5, <2>1, TypeInfo DEF AfterCreate, TypeOK, Create
  <2>2. CASE pub.kind = "absent" /\ scenario.create
    <3> DEFINE s == [inst[i] EXCEPT !.pc = "create"]
    <3>1. s \in Instance /\ s.pc = "create"
      BY <1>a DEF Instance, PCs
    <3>2. inst' = [inst EXCEPT ![i] = s]
      BY <1>5, <2>2 DEF TypeOK, Create
    <3> HIDE DEF s
    <3> QED BY <1>5, <3>1, <3>2, TypeMove DEF TypeOK, Create
  <2>3. CASE pub.kind = "absent" /\ ~scenario.create
    BY <1>5, <2>3, TypeFail DEF Create
  <2> QED BY <2>1, <2>2, <2>3
<1>6. ASSUME NEW i \in Instances, CreateQuery(i) PROVE TypeOK'
  <2>1. CASE pub.kind # "absent"
    BY <1>6, <2>1, TypeFail DEF CreateQuery
  <2>3. CASE pub.kind = "absent" /\ ~ (Configured \subseteq existing)
    BY <1>6, <2>3, TypeFail DEF CreateQuery
  <2>2. CASE pub.kind = "absent" /\ Configured \subseteq existing
    <3>1. pub' = NewPublication /\ AfterCreate(i, Configured)
      BY <1>6, <2>2 DEF CreateQuery
    <3>2. pub' \in Publication
      BY <1>0, <3>1 DEF NewPublication, Publication, Scenario
    <3> QED BY <1>0, <1>6, <3>1, <3>2, TypeInfo DEF AfterCreate, CreateQuery
  <2> QED BY <2>1, <2>2, <2>3
<1>7. ASSUME NEW i \in Instances, EnsureTable(i) PROVE TypeOK'
  <2>1. CASE Heartbeat \in Published
    BY <1>0, <1>7, <2>1, TypeInfo DEF TypeOK, EnsureTable
  <2>2. CASE Heartbeat \notin Published
    <3> DEFINE s == [inst[i] EXCEPT !.pc = "add"]
    <3>1. s \in Instance /\ s.pc = "add"
      BY <1>a DEF Instance, PCs
    <3>2. inst' = [inst EXCEPT ![i] = s]
      BY <1>7, <2>2 DEF TypeOK, EnsureTable
    <3> HIDE DEF s
    <3> QED BY <1>7, <3>1, <3>2, TypeMove DEF TypeOK, EnsureTable
  <2> QED BY <2>1, <2>2
<1>8. ASSUME NEW i \in Instances, AddTable(i) PROVE TypeOK'
  <2>1. CASE Heartbeat \in Published
    BY <1>8, <2>1, TypeFail DEF AddTable
  <2>2. CASE Heartbeat \notin Published
    <3> DEFINE s == [inst[i] EXCEPT !.pc = "added"]
    <3>1. s \in Instance /\ s.pc = "added"
      BY <1>a DEF Instance, PCs
    <3>2. inst' = [inst EXCEPT ![i] = s]
      BY <1>8, <2>2 DEF TypeOK, AddTable
    <3>3. pub' \in Publication
      BY <1>0, <1>8, <2>2 DEF TypeOK, AddTable, Publication
    <3> HIDE DEF s
    <3> QED BY <1>8, <3>1, <3>2, <3>3, TypeMove DEF TypeOK, AddTable
  <2> QED BY <2>1, <2>2
<1>9. ASSUME NEW i \in Instances, InfoAfterAdd(i) PROVE TypeOK'
  BY <1>0, <1>9, TypeInfo DEF TypeOK, InfoAfterAdd
<1>10. ASSUME NEW i \in Instances, GetSnapshotTables(i) PROVE TypeOK'
  <2> DEFINE tables == (IF scenario.snapshot = {} THEN inst[i].info ELSE scenario.snapshot)
                         \ {Heartbeat}
             s == [inst[i] EXCEPT !.pc = "ready", !.tables = tables]
  <2>1. inst[i].info # Nil /\ tables \subseteq Relations
    BY <1>0, <1>a, <1>10 DEF TypeOK, Instance, GetSnapshotTables, At, Scenario
  <2>2. s \in Instance /\ s.info # Nil
    <3> HIDE DEF tables
    <3> QED BY <1>a, <2>1 DEF Instance, PCs
  <2>3. CASE scenario.snapshot \subseteq inst[i].info
    <3>1. inst' = [inst EXCEPT ![i] = s]
      BY <1>10, <2>3 DEF TypeOK, GetSnapshotTables
    <3> HIDE DEF s
    <3> QED BY <1>10, <2>2, <3>1, TypeMove DEF TypeOK, GetSnapshotTables
  <2>4. CASE ~(scenario.snapshot \subseteq inst[i].info)
    BY <1>10, <2>4, TypeFail DEF GetSnapshotTables
  <2> QED BY <2>3, <2>4
<1>11. ASSUME NEW i \in Instances, Crash(i) PROVE TypeOK'
  <2>1. [Fresh EXCEPT !.pc = "down"] \in Instance /\ [Fresh EXCEPT !.pc = "down"].pc = "down"
    BY DEF Fresh, Instance, PCs
  <2> QED BY <1>11, <2>1, TypeMove, MaxCrashesAssumption DEF TypeOK, Crash
<1>12. ASSUME NEW i \in Instances, Restart(i) PROVE TypeOK'
  <2>1. Fresh \in Instance /\ Fresh.pc = "begin"
    BY DEF Fresh, Instance, PCs
  <2> QED BY <1>12, <2>1, TypeMove DEF TypeOK, Restart
<1>13. CASE UNCHANGED vars
  BY <1>13 DEF TypeOK, vars
<1> QED
  BY <1>1, <1>1a, <1>2, <1>3, <1>4, <1>5, <1>6, <1>7, <1>8, <1>9, <1>10, <1>11, <1>12, <1>13
  DEF Next, SetupStep

-----------------------------------------------------------------------------

LEMMA RaceInit == TypeOK /\ Init => RaceInv
BY DEF Init, Fresh, RaceInv, FailsOnlyInRace, Active, At

LEMMA RaceStep == TypeOK /\ RaceInv /\ [Next]_vars => RaceInv'
<1> SUFFICES ASSUME TypeOK, RaceInv, [Next]_vars PROVE RaceInv'
  OBVIOUS
<1> USE DEF RaceInv, FailsOnlyInRace, Active, At
<1>0. \A i \in Instances : inst[i] \in Instance
  BY DEF TypeOK
<1>a. inst \in [Instances -> Instance]
  BY DEF TypeOK
<1>h. /\ Heartbeat \in Published <=> Heartbeat \in IF pub.kind = "all" THEN existing ELSE pub.tables
      /\ Heartbeat \in Published' <=> Heartbeat \in IF pub'.kind = "all" THEN existing' ELSE pub'.tables
  BY ListedHeartbeat DEF Published
<1>1. ASSUME NEW i \in Instances, EnsureHeartbeatTable(i) PROVE RaceInv'
  <2>1. /\ inst[i].pc = "begin"
        /\ inst'[i].pc \in {"table", "leaves", "alter"}
        /\ inst'[i].pc = "table" <=> scenario.heartbeat /\ Heartbeat \notin existing
        /\ inst'[i].error = inst[i].error
        /\ inst'[i].overlapped = \E x \in Instances \ {i} : Active(x)
    BY <1>0, <1>1 DEF Instance, EnsureHeartbeatTable, Begun
  <2>2. \A j \in Instances \ {i} :
          /\ inst'[j].pc = inst[j].pc
          /\ inst'[j].error = inst[j].error
          /\ inst'[j].overlapped = (inst[j].overlapped \/ Active(j))
    BY <1>0, <1>1 DEF Instance, EnsureHeartbeatTable
  <2>3. \A j, k \in Instances : j # k /\ Active(j)' /\ Active(k)' => inst'[j].overlapped
    BY <2>1, <2>2
  <2>4. \A j \in Instances : inst[j].overlapped /\ j # i => inst'[j].overlapped
    BY <2>2
  <2>5. UNCHANGED <<scenario, existing, pub>> /\ Published' = Published
    BY <1>1 DEF EnsureHeartbeatTable, Published
  <2>6. \A j \in Instances :
          /\ At(j, "create")' /\ pub'.kind # "absent" => inst'[j].overlapped
          /\ At(j, "table")' /\ Heartbeat \in existing' => inst'[j].overlapped
          /\ At(j, "add")' /\ Heartbeat \in Published' => inst'[j].overlapped
    BY <2>1, <2>2, <2>4, <2>5
  <2>9. \A j \in Instances :
          /\ Active(j)' /\ ~At(j, "table")' /\ scenario'.heartbeat => Heartbeat \in existing'
          /\ inst'[j].pc \in {"ensure", "add", "added"} => scenario'.heartbeat
          /\ inst'[j].error # "none" => At(j, "failed")'
          /\ inst'[j].pc \in {"ensure", "add", "added", "tables", "ready"} => pub'.kind # "absent"
    BY <2>1, <2>2, <2>5
  <2>10. FailsOnlyInRace'
    BY <2>1, <2>2, <2>4
  <2> QED BY <2>3, <2>6, <2>9, <2>10
<1>1a. ASSUME NEW i \in Instances, CreateHeartbeatTable(i) PROVE RaceInv'
  <2>1. CASE Heartbeat \in existing
    BY <1>0, <1>a, <1>1a, <2>1 DEF Instance, CreateHeartbeatTable, Fail, Published
  <2>2. CASE Heartbeat \notin existing
    <3>1. /\ UNCHANGED <<scenario, pub>> /\ existing' = existing \cup {Heartbeat}
          /\ inst[i].pc = "table" /\ inst' = [inst EXCEPT ![i] = Begun(inst[i])]
      BY <1>1a, <2>2 DEF CreateHeartbeatTable
    <3>2. /\ inst'[i].pc \in {"leaves", "alter"}
          /\ inst'[i].error = inst[i].error
          /\ inst'[i].overlapped = inst[i].overlapped
          /\ \A j \in Instances \ {i} : inst'[j] = inst[j]
      BY <1>0, <1>a, <3>1 DEF Instance, Begun
    <3>3. \A j \in Instances \ {i} : Active(j) => inst[j].overlapped
      BY <3>1
    <3> QED BY <2>2, <3>1, <3>2, <3>3
  <2> QED BY <2>1, <2>2
<1>2. ASSUME NEW i \in Instances, ListLeaves(i) PROVE RaceInv'
  BY <1>0, <1>a, <1>2 DEF Instance, ListLeaves, Fail, Published
<1>3. ASSUME NEW i \in Instances, GetReplicaIdentities(i) PROVE RaceInv'
  BY <1>0, <1>a, <1>3 DEF Instance, GetReplicaIdentities, Fail, Published
<1>4. ASSUME NEW i \in Instances, AlterTableReplicaIdentity(i) PROVE RaceInv'
  BY <1>0, <1>a, <1>4 DEF Instance, AlterTableReplicaIdentity, Fail, Published
<1>5. ASSUME NEW i \in Instances, Create(i) PROVE RaceInv'
  BY <1>0, <1>a, <1>5 DEF Instance, Create, AfterCreate, Fail, Published
<1>6. ASSUME NEW i \in Instances, CreateQuery(i) PROVE RaceInv'
  BY <1>0, <1>a, <1>6 DEF Instance, CreateQuery, NewPublication, AfterCreate, Fail, Published
<1>7. ASSUME NEW i \in Instances, EnsureTable(i) PROVE RaceInv'
  BY <1>0, <1>a, <1>7 DEF Instance, EnsureTable, Published
<1>8. ASSUME NEW i \in Instances, AddTable(i) PROVE RaceInv'
  BY <1>0, <1>a, <1>8, <1>h DEF Instance, AddTable, Fail, TypeOK, Publication
<1>9. ASSUME NEW i \in Instances, InfoAfterAdd(i) PROVE RaceInv'
  BY <1>0, <1>a, <1>9 DEF Instance, InfoAfterAdd, Published
<1>10. ASSUME NEW i \in Instances, GetSnapshotTables(i) PROVE RaceInv'
  BY <1>0, <1>a, <1>10 DEF Instance, GetSnapshotTables, Fail, Published
<1>11. ASSUME NEW i \in Instances, Crash(i) PROVE RaceInv'
  BY <1>0, <1>a, <1>11 DEF Instance, Crash, Fresh, Published
<1>12. ASSUME NEW i \in Instances, Restart(i) PROVE RaceInv'
  BY <1>0, <1>a, <1>12 DEF Instance, Restart, Fresh, Published
<1>13. CASE UNCHANGED vars
  BY <1>13 DEF vars, Published
<1> QED
  BY <1>1, <1>1a, <1>2, <1>3, <1>4, <1>5, <1>6, <1>7, <1>8, <1>9, <1>10, <1>11, <1>12, <1>13
  DEF Next, SetupStep

-----------------------------------------------------------------------------

LEMMA TablesInit == TypeOK /\ Init => TablesInv
BY DEF Init, Fresh, TablesInv, ReadOK, SnapshotTablesStreamed, At

LEMMA IdentityInit == TypeOK /\ Init => IdentityInv
BY DEF Init, Fresh, IdentityInv, At

\* A step of one process that unpublishes nothing.
LEMMA TablesMove ==
  ASSUME TablesInv, NEW i \in Instances, NEW s \in Instance,
         inst \in [Instances -> Instance], inst' = [inst EXCEPT ![i] = s],
         scenario' = scenario, Published \subseteq Published',
         pub'.kind = "absent" => scenario.pub = "absent",
         scenario.pub = "absent" /\ pub'.kind # "absent" => pub' = NewPublication,
         ReadOK(i)',
         s.pc = "ready" =>
           /\ Heartbeat \notin s.tables
           /\ scenario.heartbeat => Heartbeat \in Published'
           /\ Holders(s.tables) \subseteq Holders(Published')
           /\ NamesRead => s.tables \subseteq Published'
           /\ scenario.pub = "absent" /\ scenario.snapshot = {} =>
                Holders(s.tables) = Holders(scenario.tables)
  PROVE  TablesInv'
<1>1. inst'[i] = s /\ \A j \in Instances \ {i} : inst'[j] = inst[j]
  OBVIOUS
<1>2. NewPublication' = NewPublication /\ Configured' = Configured /\ (NamesRead' <=> NamesRead)
  BY DEF NewPublication, Configured, NamesRead
<1>3. Holders(Published) \subseteq Holders(Published')
  BY HoldersMono
<1>4. ASSUME NEW j \in Instances PROVE ReadOK(j)'
  <2>1. CASE j = i
    BY <2>1
  <2>2. CASE j # i
    <3>1. ReadOK(j) /\ inst'[j] = inst[j]
      BY <1>1, <2>2 DEF TablesInv
    <3> QED BY <1>2, <1>3, <3>1 DEF ReadOK, At
  <2> QED BY <2>1, <2>2
<1>5. SnapshotTablesStreamed'
  BY <1>1, <1>3 DEF TablesInv, SnapshotTablesStreamed, NamesRead, At
<1> QED BY <1>2, <1>4, <1>5 DEF TablesInv

\* What has been read of a publication that the program made.
LEMMA PublishedHolders ==
  ASSUME TypeOK, TablesInv, scenario.pub = "absent", pub.kind # "absent"
  PROVE  Holders(Published) = Holders(Configured)
<1>1. pub = NewPublication
  BY DEF TablesInv
<1>2. Published = Listed(Configured, scenario.viaRoot)
  BY <1>1 DEF Published, NewPublication
<1>3. Configured \subseteq AllTables
  BY ConfiguredType DEF TypeOK
<1> QED BY <1>2, <1>3, ListedHolders

LEMMA TablesStep == TypeOK /\ RaceInv /\ TablesInv /\ [Next]_vars => TablesInv'
<1> SUFFICES ASSUME TypeOK, RaceInv, TablesInv, [Next]_vars PROVE TablesInv'
  OBVIOUS
<1>0. \A i \in Instances : inst[i] \in Instance
  BY DEF TypeOK
<1>a. inst \in [Instances -> Instance] /\ pub.kind \in {"absent", "all", "some"}
  BY DEF TypeOK, Publication
<1>b. /\ pub.kind = "absent" => scenario.pub = "absent"
      /\ scenario.pub = "absent" /\ pub.kind # "absent" => pub = NewPublication
  BY DEF TablesInv
<1>c. /\ Configured \ {Heartbeat} = scenario.tables /\ Configured \subseteq AllTables
      /\ scenario.heartbeat <=> Heartbeat \in Configured
  BY ConfiguredType DEF TypeOK
\* A process goes on to a place where it has read nothing.
<1>d. ASSUME NEW i \in Instances, NEW s \in Instance, inst' = [inst EXCEPT ![i] = s],
             s.pc \notin {"added", "tables", "ready"},
             UNCHANGED <<scenario, existing, pub>>
      PROVE  TablesInv'
  <2>1. Published' = Published
    BY <1>d DEF Published
  <2>2. inst'[i].pc = s.pc
    BY <1>a, <1>d
  <2>3. ReadOK(i)'
    BY <1>d, <2>2 DEF ReadOK, At
  <2> QED BY <1>a, <1>b, <1>d, <2>1, <2>3, TablesMove
<1>e. ASSUME NEW i \in Instances, NEW error \in {"none", "missing", "absent", "exists", "subset"},
             Fail(i, error), UNCHANGED <<scenario, existing, pub>>
      PROVE  TablesInv'
  <2> DEFINE s == [inst[i] EXCEPT !.pc = "failed", !.error = error]
  <2>1. s \in Instance /\ s.pc = "failed" /\ inst' = [inst EXCEPT ![i] = s]
    BY <1>0, <1>a, <1>e DEF Instance, PCs, Fail
  <2> HIDE DEF s
  <2> QED BY <1>d, <1>e, <2>1
\* A process has read what is published.
<1>f. ASSUME NEW i \in Instances, inst' = [inst EXCEPT ![i].pc = "tables", ![i].info = Published],
             UNCHANGED <<scenario, existing, pub>>, pub.kind # "absent",
             scenario.heartbeat => Heartbeat \in Published
      PROVE  TablesInv'
  <2> DEFINE s == [inst[i] EXCEPT !.pc = "tables", !.info = Published]
  <2>0. Published' = Published /\ Configured' = Configured
    BY <1>f DEF Published, Configured
  <2>a. Published \subseteq Relations
    BY ListedType DEF TypeOK, Published, Publication
  <2>1. s \in Instance /\ s.pc = "tables" /\ s.info = Published /\ inst' = [inst EXCEPT ![i] = s]
    BY <1>0, <1>a, <1>f, <2>a DEF Instance, PCs
  <2> HIDE DEF s
  <2>2. inst'[i] = s
    BY <1>a, <2>1
  <2>3. ReadOK(i)'
    BY <1>f, <2>0, <2>1, <2>2, PublishedHolders DEF ReadOK, At
  <2> QED BY <1>a, <1>b, <1>f, <2>0, <2>1, <2>3, TablesMove
<1>1. ASSUME NEW i \in Instances, EnsureHeartbeatTable(i) PROVE TablesInv'
  <2>1. /\ UNCHANGED <<scenario, existing, pub>>
        /\ inst'[i].pc \in {"table", "leaves", "alter"}
    BY <1>0, <1>1 DEF Instance, EnsureHeartbeatTable, Begun
  <2>2. \A j \in Instances \ {i} : /\ inst'[j].pc = inst[j].pc
                                  /\ inst'[j].info = inst[j].info
                                  /\ inst'[j].tables = inst[j].tables
    BY <1>0, <1>1 DEF Instance, EnsureHeartbeatTable
  <2>3. /\ Published' = Published /\ Configured' = Configured
        /\ NewPublication' = NewPublication /\ NamesRead' = NamesRead
    BY <2>1 DEF Published, Configured, NewPublication, NamesRead
  <2>4. ASSUME NEW j \in Instances PROVE ReadOK(j)'
    BY <2>1, <2>2, <2>3 DEF ReadOK, At, TablesInv
  <2>5. SnapshotTablesStreamed'
    BY <2>1, <2>2, <2>3 DEF SnapshotTablesStreamed, At, TablesInv
  <2> QED BY <1>b, <2>1, <2>3, <2>4, <2>5 DEF TablesInv
<1>1a. ASSUME NEW i \in Instances, CreateHeartbeatTable(i) PROVE TablesInv'
  <2>1. CASE Heartbeat \in existing
    BY <1>e, <1>1a, <2>1 DEF CreateHeartbeatTable
  <2>2. CASE Heartbeat \notin existing
    <3>1. /\ UNCHANGED <<scenario, pub>> /\ existing' = existing \cup {Heartbeat}
          /\ inst' = [inst EXCEPT ![i] = Begun(inst[i])]
      BY <1>1a, <2>2 DEF CreateHeartbeatTable
    <3>2. Begun(inst[i]) \in Instance /\ Begun(inst[i]).pc \in {"leaves", "alter"}
      BY <1>0, <1>c DEF Begun, Instance, PCs
    <3>3. Published \subseteq Published'
      BY <3>1, ListedAdd DEF Published
    <3>4. inst'[i].pc \in {"leaves", "alter"}
      BY <1>a, <3>1, <3>2
    <3>5. ReadOK(i)'
      BY <3>4 DEF ReadOK, At
    <3> QED BY <1>a, <1>b, <3>1, <3>2, <3>3, <3>5, TablesMove
  <2> QED BY <2>1, <2>2
<1>2. ASSUME NEW i \in Instances, ListLeaves(i) PROVE TablesInv'
  <2>1. PICK t \in inst[i].asked :
          IF t \notin existing
            THEN Fail(i, "missing")
            ELSE inst' = [inst EXCEPT ![i].asked = @ \ {t},
                   ![i].todo = {r \in LeavesOf(t) : identity[r] # Wanted(t)}]
    BY <1>2 DEF ListLeaves
  <2> DEFINE todo == {r \in LeavesOf(t) : identity[r] # Wanted(t)}
             s == [inst[i] EXCEPT !.asked = @ \ {t}, !.todo = todo]
  <2>2. todo \subseteq Relations
    BY DEF LeavesOf, AllLeaves, Relations
  <2>3. s \in Instance /\ s.pc = "leaves"
    <3> HIDE DEF todo
    <3> QED BY <1>0, <1>2, <2>2 DEF Instance, ListLeaves, At
  <2>4. CASE t \in existing
    <3>1. inst' = [inst EXCEPT ![i] = s]
      BY <1>a, <2>1, <2>4
    <3> HIDE DEF s
    <3> QED BY <1>2, <1>d, <2>3, <3>1 DEF ListLeaves
  <2>5. CASE t \notin existing
    BY <1>2, <1>e, <2>1, <2>5 DEF ListLeaves
  <2> QED BY <2>4, <2>5
<1>3. ASSUME NEW i \in Instances, GetReplicaIdentities(i) PROVE TablesInv'
  <2> DEFINE todo == Diff(Configured \cap existing)
             s == [inst[i] EXCEPT !.pc = "alter", !.todo = todo]
  <2>1. todo \subseteq Relations
    BY <1>c DEF Diff, Relations
  <2>2. s \in Instance /\ s.pc = "alter"
    <3> HIDE DEF todo
    <3> QED BY <1>0, <2>1 DEF Instance, PCs
  <2>3. CASE Configured \cap existing # {}
    <3>1. inst' = [inst EXCEPT ![i] = s]
      BY <1>3, <1>a, <2>3 DEF GetReplicaIdentities
    <3> HIDE DEF s
    <3> QED BY <1>3, <1>d, <2>2, <3>1 DEF GetReplicaIdentities
  <2>4. CASE Configured \cap existing = {}
    BY <1>3, <1>e, <2>4 DEF GetReplicaIdentities
  <2> QED BY <2>3, <2>4
<1>4. ASSUME NEW i \in Instances, AlterTableReplicaIdentity(i) PROVE TablesInv'
  <2>1. PICK r \in inst[i].todo :
          /\ inst[i].pc \in {"leaves", "alter"}
          /\ IF r \in existing \cup AllLeaves
               THEN /\ identity' = [identity EXCEPT ![r] = Wanted(r)]
                    /\ inst' = [inst EXCEPT ![i].todo = @ \ {r}]
               ELSE Fail(i, "missing") /\ UNCHANGED identity
          /\ UNCHANGED <<scenario, existing, pub, crashes>>
    BY <1>4 DEF AlterTableReplicaIdentity
  <2> DEFINE s == [inst[i] EXCEPT !.todo = @ \ {r}]
  <2>2. s \in Instance /\ s.pc \in {"leaves", "alter"}
    BY <1>0, <2>1 DEF Instance
  <2>3. CASE r \in existing \cup AllLeaves
    <3>1. inst' = [inst EXCEPT ![i] = s]
      BY <1>a, <2>1, <2>3
    <3> HIDE DEF s
    <3> QED BY <1>d, <2>1, <2>2, <3>1
  <2>4. CASE r \notin existing \cup AllLeaves
    BY <1>e, <2>1, <2>4
  <2> QED BY <2>3, <2>4
<1>5. ASSUME NEW i \in Instances, Create(i) PROVE TablesInv'
  <2>1. CASE pub.kind # "absent" /\ ~scenario.heartbeat
    BY <1>5, <1>f, <2>1 DEF Create, AfterCreate
  <2>2. CASE pub.kind # "absent" /\ scenario.heartbeat
    <3> DEFINE s == [inst[i] EXCEPT !.pc = "ensure", !.info = Published]
    <3>a. Published \subseteq Relations
      BY ListedType DEF TypeOK, Published, Publication
    <3>1. s \in Instance /\ s.pc = "ensure"
      BY <1>0, <3>a DEF Instance, PCs
    <3>2. inst' = [inst EXCEPT ![i] = s]
      BY <1>5, <1>a, <2>2 DEF Create, AfterCreate
    <3> HIDE DEF s
    <3> QED BY <1>5, <1>d, <3>1, <3>2 DEF Create
  <2>3. CASE pub.kind = "absent" /\ scenario.create
    <3> DEFINE s == [inst[i] EXCEPT !.pc = "create"]
    <3>1. s \in Instance /\ s.pc = "create"
      BY <1>0 DEF Instance, PCs
    <3>2. inst' = [inst EXCEPT ![i] = s]
      BY <1>5, <1>a, <2>3 DEF Create
    <3> HIDE DEF s
    <3> QED BY <1>5, <1>d, <3>1, <3>2 DEF Create
  <2>4. CASE pub.kind = "absent" /\ ~scenario.create
    BY <1>5, <1>e, <2>4 DEF Create
  <2> QED BY <2>1, <2>2, <2>3, <2>4
<1>6. ASSUME NEW i \in Instances, CreateQuery(i) PROVE TablesInv'
  <2>1. CASE pub.kind # "absent"
    BY <1>6, <1>e, <2>1 DEF CreateQuery
  <2>2. CASE pub.kind = "absent" /\ ~ (Configured \subseteq existing)
    BY <1>6, <1>e, <2>2 DEF CreateQuery
  <2>3. CASE pub.kind = "absent" /\ Configured \subseteq existing
    <3> DEFINE s == [inst[i] EXCEPT !.pc = IF scenario.heartbeat THEN "ensure" ELSE "tables",
                                    !.info = Configured]
    <3>1. /\ pub' = NewPublication /\ UNCHANGED <<scenario, existing>>
          /\ inst' = [inst EXCEPT ![i] = s]
      BY <1>6, <1>a, <2>3 DEF CreateQuery, AfterCreate
    <3>2. /\ s \in Instance /\ s.info = Configured
          /\ s.pc = IF scenario.heartbeat THEN "ensure" ELSE "tables"
      BY <1>0, <1>c DEF Instance, PCs, Relations
    <3> HIDE DEF s
    <3>3. inst'[i] = s /\ \A j \in Instances \ {i} : inst'[j] = inst[j]
      BY <1>a, <3>1
    <3>4. Configured' = Configured /\ NewPublication' = NewPublication
      BY <3>1 DEF Configured, NewPublication
    <3>5. Published' = Listed(Configured, scenario.viaRoot)
      BY <3>1 DEF Published, NewPublication
    <3>6. Holders(Published') = Holders(Configured)
      BY <1>c, <3>5, ListedHolders
    <3>7. scenario.viaRoot => Published' = Configured
      BY <3>5 DEF Listed
    <3>8. scenario.pub = "absent" /\ pub'.kind = "some"
      BY <1>b, <2>3, <3>1 DEF NewPublication
    <3>9. ReadOK(i)'
      BY <3>1, <3>2, <3>3, <3>4, <3>6, <3>7, <3>8 DEF ReadOK, At, NamesRead
    <3>10. \A j \in Instances \ {i} : ReadOK(j)' /\ inst'[j].pc # "ready"
      BY <2>3, <3>3 DEF ReadOK, At, RaceInv
    <3> QED BY <3>2, <3>3, <3>4, <3>1, <3>8, <3>9, <3>10 DEF TablesInv, SnapshotTablesStreamed, At
  <2> QED BY <2>1, <2>2, <2>3
<1>7. ASSUME NEW i \in Instances, EnsureTable(i) PROVE TablesInv'
  <2>1. CASE Heartbeat \in Published
    BY <1>7, <1>f, <2>1 DEF EnsureTable, RaceInv, At
  <2>2. CASE Heartbeat \notin Published
    <3> DEFINE s == [inst[i] EXCEPT !.pc = "add"]
    <3>1. s \in Instance /\ s.pc = "add"
      BY <1>0 DEF Instance, PCs
    <3>2. inst' = [inst EXCEPT ![i] = s]
      BY <1>7, <1>a, <2>2 DEF EnsureTable
    <3> HIDE DEF s
    <3> QED BY <1>7, <1>d, <3>1, <3>2 DEF EnsureTable
  <2> QED BY <2>1, <2>2
<1>8. ASSUME NEW i \in Instances, AddTable(i) PROVE TablesInv'
  <2>1. CASE Heartbeat \in Published
    BY <1>8, <1>e, <2>1 DEF AddTable
  <2>2. CASE Heartbeat \notin Published
    <3>1. pub.kind = "some" /\ scenario.heartbeat
      BY <1>a, <1>8, <2>2, ListedHeartbeat DEF AddTable, Published, RaceInv, Active, At
    <3>2. pub' = [pub EXCEPT !.tables = @ \cup {Heartbeat}]
          /\ inst' = [inst EXCEPT ![i].pc = "added"]
          /\ UNCHANGED <<scenario, existing, identity, crashes>>
      BY <1>8, <2>2 DEF AddTable
    <3>3. pub'.kind = "some" /\ pub'.tables = pub.tables \cup {Heartbeat} /\ pub'.viaRoot = pub.viaRoot
      BY <3>1, <3>2 DEF TypeOK, Publication
    <3>4. Published' = Published \cup {Heartbeat}
      BY <3>1, <3>3, ListedAdd DEF Published
    <3>5. scenario.pub # "absent"
      <4>1. Published = Listed(pub.tables, pub.viaRoot)
        BY <3>1 DEF Published
      <4>2. Heartbeat \notin pub.tables
        BY <2>2, <4>1, ListedHeartbeat
      <4> QED BY <1>b, <1>c, <3>1, <4>2 DEF NewPublication
    <3> DEFINE s == [inst[i] EXCEPT !.pc = "added"]
    <3>6. s \in Instance /\ s.pc = "added" /\ inst' = [inst EXCEPT ![i] = s]
      BY <1>0, <1>a, <3>2 DEF Instance, PCs
    <3> HIDE DEF s
    <3>7. inst'[i] = s
      BY <1>a, <3>6
    <3>8. ReadOK(i)'
      BY <3>4, <3>6, <3>7 DEF ReadOK, At
    <3> QED BY <1>a, <3>2, <3>3, <3>4, <3>5, <3>6, <3>8, TablesMove
  <2> QED BY <2>1, <2>2
<1>9. ASSUME NEW i \in Instances, InfoAfterAdd(i) PROVE TablesInv'
  <2>1. Heartbeat \in Published /\ pub.kind # "absent"
    BY <1>9 DEF InfoAfterAdd, TablesInv, ReadOK, RaceInv, At
  <2> QED BY <1>9, <1>f, <2>1 DEF InfoAfterAdd
<1>10. ASSUME NEW i \in Instances, GetSnapshotTables(i) PROVE TablesInv'
  <2>1. CASE scenario.snapshot \subseteq inst[i].info
    <3> DEFINE chosen == IF scenario.snapshot = {} THEN inst[i].info ELSE scenario.snapshot
               tables == chosen \ {Heartbeat}
               s == [inst[i] EXCEPT !.pc = "ready", !.tables = tables]
    <3>0. Published' = Published /\ scenario' = scenario /\ pub' = pub
      BY <1>10 DEF GetSnapshotTables, Published
    <3>1. ReadOK(i) /\ inst[i].pc = "tables" /\ inst[i].info # Nil
      BY <1>10 DEF GetSnapshotTables, TablesInv, At, TypeOK
    <3>2. chosen \subseteq inst[i].info /\ inst[i].info \subseteq Relations
      BY <1>0, <2>1, <3>1 DEF Instance
    <3>3. Holders(chosen) \subseteq Holders(inst[i].info)
      <4> HIDE DEF chosen
      <4> QED BY <3>2, HoldersMono
    <3>4. Holders(tables) = Holders(chosen) \ {Heartbeat}
      <4> HIDE DEF chosen
      <4> QED BY HoldersMinus
    <3>5. /\ Heartbeat \notin tables
          /\ scenario.heartbeat => Heartbeat \in Published
          /\ Holders(tables) \subseteq Holders(Published)
          /\ NamesRead => tables \subseteq Published
      <4> HIDE DEF chosen
      <4> QED BY <3>1, <3>2, <3>3, <3>4 DEF ReadOK, At
    <3>6. scenario.pub = "absent" /\ scenario.snapshot = {} => Holders(tables) = Holders(scenario.tables)
      <4>1. Holders(scenario.tables) = Holders(Configured) \ {Heartbeat}
        BY <1>c, HoldersMinus
      <4> QED BY <3>1, <3>4, <4>1 DEF ReadOK, At
    <3> HIDE DEF tables
    <3>7. /\ s \in Instance /\ s.pc = "ready" /\ s.tables = tables
          /\ inst' = [inst EXCEPT ![i] = s]
      <4>1. tables \subseteq Relations
        BY <3>2 DEF tables
      <4>2. inst' = [inst EXCEPT ![i].pc = "ready", ![i].tables = tables]
        BY <1>10, <2>1 DEF GetSnapshotTables, tables
      <4> QED BY <1>0, <1>a, <4>1, <4>2 DEF Instance, PCs
    <3> HIDE DEF s
    <3>8. inst'[i] = s
      BY <1>a, <3>7
    <3>9. ReadOK(i)'
      BY <3>7, <3>8 DEF ReadOK, At
    <3> QED BY <1>a, <1>b, <3>0, <3>5, <3>6, <3>7, <3>9, TablesMove
  <2>2. CASE ~(scenario.snapshot \subseteq inst[i].info)
    BY <1>10, <1>e, <2>2 DEF GetSnapshotTables
  <2> QED BY <2>1, <2>2
<1>11. ASSUME NEW i \in Instances, Crash(i) PROVE TablesInv'
  <2>1. [Fresh EXCEPT !.pc = "down"] \in Instance /\ [Fresh EXCEPT !.pc = "down"].pc = "down"
    BY DEF Fresh, Instance, PCs
  <2> QED BY <1>11, <1>d, <2>1 DEF Crash
<1>12. ASSUME NEW i \in Instances, Restart(i) PROVE TablesInv'
  <2>1. Fresh \in Instance /\ Fresh.pc = "begin"
    BY DEF Fresh, Instance, PCs
  <2> QED BY <1>12, <1>d, <2>1 DEF Restart
<1>13. CASE UNCHANGED vars
  BY <1>13 DEF TablesInv, ReadOK, SnapshotTablesStreamed, NamesRead, NewPublication, At, vars,
               Published, Configured
<1> QED
  BY <1>1, <1>1a, <1>2, <1>3, <1>4, <1>5, <1>6, <1>7, <1>8, <1>9, <1>10, <1>11, <1>12, <1>13
  DEF Next, SetupStep

-----------------------------------------------------------------------------

LEMMA IdentityStep == TypeOK /\ IdentityInv /\ [Next]_vars => IdentityInv'
<1> SUFFICES ASSUME TypeOK, IdentityInv, [Next]_vars, scenario.create PROVE IdentityInv'
  BY DEF IdentityInv, Next, SetupStep, EnsureHeartbeatTable, CreateHeartbeatTable, ListLeaves, GetReplicaIdentities,
         AlterTableReplicaIdentity, Create, CreateQuery, EnsureTable, AddTable, InfoAfterAdd,
         GetSnapshotTables, Crash, Restart, vars
<1> USE DEF IdentityInv, At
<1>0. \A i \in Instances : inst[i] \in Instance
  BY DEF TypeOK
<1>a. inst \in [Instances -> Instance]
  BY DEF TypeOK
<1>b. Configured \ {Heartbeat} \subseteq Tables /\ Configured \subseteq AllTables
  BY ConfiguredType DEF TypeOK
<1>c. scenario' = scenario /\ Configured' = Configured
      /\ (\A t \in Configured : Unshared(t)' <=> Unshared(t))
  BY DEF Next, SetupStep, EnsureHeartbeatTable, CreateHeartbeatTable, ListLeaves, GetReplicaIdentities,
         AlterTableReplicaIdentity, Create, CreateQuery, EnsureTable, AddTable, InfoAfterAdd,
         GetSnapshotTables, Crash, Restart, vars, Configured, Unshared
<1>d. ASSUME identity' = identity
      PROVE  (AllAligned => AllAligned') /\ \A t \in Configured : LeavesAligned(t) => LeavesAligned(t)'
  BY <1>c, <1>d DEF AllAligned, LeavesAligned
<1>1. ASSUME NEW i \in Instances, EnsureHeartbeatTable(i) PROVE IdentityInv'
  <2>1. /\ inst'[i].pc \in {"table", "leaves"}
        /\ inst'[i].pc = "leaves" => inst'[i].asked = IF scenario.viaRoot THEN Configured ELSE {}
    BY <1>0, <1>1 DEF Instance, EnsureHeartbeatTable, Begun
  <2>2. \A j \in Instances \ {i} :
          inst'[j].pc = inst[j].pc /\ inst'[j].asked = inst[j].asked /\ inst'[j].todo = inst[j].todo
    BY <1>0, <1>1 DEF Instance, EnsureHeartbeatTable
  <2>3. UNCHANGED <<identity, pub>>
    BY <1>1 DEF EnsureHeartbeatTable
  <2> QED BY <1>c, <1>d, <2>1, <2>2, <2>3
<1>1a. ASSUME NEW i \in Instances, CreateHeartbeatTable(i) PROVE IdentityInv'
  <2>1. /\ inst'[i].pc \in {"failed", "leaves"}
        /\ inst'[i].pc = "leaves" => inst'[i].asked = IF scenario.viaRoot THEN Configured ELSE {}
        /\ \A j \in Instances \ {i} : inst'[j] = inst[j]
        /\ UNCHANGED <<identity, pub>>
    <3>1. CASE Heartbeat \in existing
      BY <1>0, <1>a, <1>1a, <3>1 DEF Instance, CreateHeartbeatTable, Fail
    <3>2. CASE Heartbeat \notin existing
      <4>1. inst' = [inst EXCEPT ![i] = Begun(inst[i])] /\ UNCHANGED <<identity, pub>>
        BY <1>1a, <3>2 DEF CreateHeartbeatTable
      <4>2. inst'[i] = Begun(inst[i]) /\ \A j \in Instances \ {i} : inst'[j] = inst[j]
        BY <1>a, <4>1
      <4>3. /\ Begun(inst[i]).pc = "leaves"
            /\ Begun(inst[i]).asked = IF scenario.viaRoot THEN Configured ELSE {}
        BY <1>0 DEF Instance, Begun
      <4> QED BY <4>1, <4>2, <4>3
    <3> QED BY <3>1, <3>2
  <2> QED BY <1>c, <1>d, <2>1
<1>2. ASSUME NEW i \in Instances, ListLeaves(i) PROVE IdentityInv'
  BY <1>0, <1>a, <1>b, <1>c, <1>d, <1>2 DEF Instance, ListLeaves, LeavesOf, Fail
<1>3. ASSUME NEW i \in Instances, GetReplicaIdentities(i) PROVE IdentityInv'
  <2>1. CASE Configured \cap existing = {}
    BY <1>0, <1>a, <1>c, <1>d, <1>3, <2>1 DEF Instance, GetReplicaIdentities, Fail
  <2>2. CASE Configured \cap existing # {}
    <3>1. \A t \in Configured : LeavesAligned(t)
      BY <1>3 DEF GetReplicaIdentities, LeavesAligned
    <3>2. \A t \in Configured :
            Unshared(t) => identity[t] = Wanted(t) \/ t \in Diff(Configured \cap existing)
      BY DEF Unshared, Diff
    <3>3. /\ inst' = [inst EXCEPT ![i].pc = "alter", ![i].todo = Diff(Configured \cap existing)]
          /\ UNCHANGED <<identity, pub>>
      BY <1>3, <2>2 DEF GetReplicaIdentities
    <3>4. /\ inst'[i].pc = "alter" /\ inst'[i].todo = Diff(Configured \cap existing)
          /\ \A j \in Instances \ {i} : inst'[j] = inst[j]
      BY <1>0, <1>a, <3>3 DEF Instance
    <3> QED BY <1>c, <1>d, <3>1, <3>2, <3>3, <3>4
  <2> QED BY <2>1, <2>2
<1>4. ASSUME NEW i \in Instances, AlterTableReplicaIdentity(i) PROVE IdentityInv'
  <2>1. PICK r \in inst[i].todo :
          /\ inst[i].pc \in {"leaves", "alter"}
          /\ IF r \in existing \cup AllLeaves
               THEN /\ identity' = [identity EXCEPT ![r] = Wanted(r)]
                    /\ inst' = [inst EXCEPT ![i].todo = @ \ {r}]
               ELSE Fail(i, "missing") /\ UNCHANGED identity
          /\ UNCHANGED <<scenario, existing, pub, crashes>>
    BY <1>4 DEF AlterTableReplicaIdentity
  <2>2. CASE r \notin existing \cup AllLeaves
    BY <1>0, <1>a, <1>c, <1>d, <2>1, <2>2 DEF Instance, Fail
  <2>3. CASE r \in existing \cup AllLeaves
    <3>1. /\ identity' = [identity EXCEPT ![r] = Wanted(r)]
          /\ inst' = [inst EXCEPT ![i].todo = @ \ {r}] /\ pub' = pub
      BY <2>1, <2>3
    <3>2. r \in Relations /\ identity'[r] = Wanted(r)
          /\ \A q \in Relations \ {r} : identity'[q] = identity[q]
      BY <1>0, <2>1, <3>1 DEF TypeOK, Instance
    <3>3. ASSUME NEW t \in Configured, identity[t] = Wanted(t) \/ t = r
          PROVE  identity'[t] = Wanted(t)
      BY <1>b, <3>2, <3>3 DEF Relations
    <3>4. ASSUME NEW t \in Configured \ {Heartbeat}, NEW q \in Leaves[t], identity[q] = Wanted(t) \/ q = r
          PROVE  identity'[q] = Wanted(t)
      <4>1. t \in Tables /\ Wanted(q) = Wanted(t) /\ q \in Relations
        BY <1>b, WantedLeaf DEF Relations, AllLeaves
      <4> QED BY <3>2, <3>4, <4>1
    <3>5. \A t \in Configured : LeavesAligned(t) => LeavesAligned(t)'
      BY <1>c, <3>4 DEF LeavesAligned
    <3>6. AllAligned => AllAligned'
      BY <1>c, <3>3, <3>5 DEF AllAligned
    <3>7. \A j \in Instances : /\ inst'[j].pc = inst[j].pc /\ inst'[j].asked = inst[j].asked
                              /\ inst[j].todo \subseteq inst'[j].todo \cup {r}
      BY <1>0, <1>a, <3>1 DEF Instance
    <3> HIDE DEF IdentityInv
    <3>8. ASSUME NEW j \in Instances, At(j, "leaves")', scenario.viaRoot,
                 NEW t \in Configured \ (inst'[j].asked \cup {Heartbeat}), NEW q \in Leaves[t]
          PROVE  identity'[q] = Wanted(t) \/ q \in inst'[j].todo
      <4>1. identity[q] = Wanted(t) \/ q \in inst[j].todo
        BY <3>7, <3>8 DEF IdentityInv
      <4> QED BY <3>4, <3>7, <4>1
    <3>9. ASSUME NEW j \in Instances, At(j, "alter")', NEW t \in Configured, Unshared(t)
          PROVE  LeavesAligned(t)' /\ (identity'[t] = Wanted(t) \/ t \in inst'[j].todo)
      <4>1. LeavesAligned(t) /\ (identity[t] = Wanted(t) \/ t \in inst[j].todo)
        BY <3>7, <3>9 DEF IdentityInv
      <4> QED BY <3>3, <3>5, <3>7, <4>1
    <3> QED BY <1>c, <3>1, <3>6, <3>7, <3>8, <3>9 DEF IdentityInv
  <2> QED BY <2>2, <2>3
<1>5. ASSUME NEW i \in Instances, Create(i) PROVE IdentityInv'
  <2>1. AllAligned
    BY <1>5 DEF Create, AllAligned
  <2>2. /\ UNCHANGED <<identity, pub>>
        /\ inst'[i].pc \notin {"leaves", "alter"}
        /\ \A j \in Instances \ {i} : inst'[j] = inst[j]
    BY <1>0, <1>a, <1>5 DEF Instance, Create, AfterCreate, Fail
  <2> QED BY <1>c, <1>d, <2>1, <2>2
<1>6. ASSUME NEW i \in Instances, CreateQuery(i) PROVE IdentityInv'
  <2>1. AllAligned
    BY <1>6 DEF CreateQuery
  <2>2. /\ UNCHANGED identity
        /\ inst'[i].pc \notin {"leaves", "alter"}
        /\ \A j \in Instances \ {i} : inst'[j] = inst[j]
    BY <1>0, <1>a, <1>6 DEF Instance, CreateQuery, AfterCreate, Fail
  <2> QED BY <1>c, <1>d, <2>1, <2>2
<1>7. ASSUME NEW i \in Instances, EnsureTable(i) PROVE IdentityInv'
  BY <1>0, <1>a, <1>c, <1>d, <1>7 DEF Instance, EnsureTable
<1>8. ASSUME NEW i \in Instances, AddTable(i) PROVE IdentityInv'
  BY <1>0, <1>a, <1>c, <1>d, <1>8 DEF Instance, AddTable, Fail, TypeOK
<1>9. ASSUME NEW i \in Instances, InfoAfterAdd(i) PROVE IdentityInv'
  BY <1>0, <1>a, <1>c, <1>d, <1>9 DEF Instance, InfoAfterAdd
<1>10. ASSUME NEW i \in Instances, GetSnapshotTables(i) PROVE IdentityInv'
  BY <1>0, <1>a, <1>c, <1>d, <1>10 DEF Instance, GetSnapshotTables, Fail
<1>11. ASSUME NEW i \in Instances, Crash(i) PROVE IdentityInv'
  BY <1>0, <1>a, <1>c, <1>d, <1>11 DEF Instance, Crash, Fresh
<1>12. ASSUME NEW i \in Instances, Restart(i) PROVE IdentityInv'
  BY <1>0, <1>a, <1>c, <1>d, <1>12 DEF Instance, Restart, Fresh
<1>13. CASE UNCHANGED vars
  BY <1>c, <1>d, <1>13 DEF vars
<1> QED
  BY <1>1, <1>1a, <1>2, <1>3, <1>4, <1>5, <1>6, <1>7, <1>8, <1>9, <1>10, <1>11, <1>12, <1>13
  DEF Next, SetupStep

-----------------------------------------------------------------------------

\* Every variable of set-up keeps its type; an instance that is about to choose the
\* tables of its snapshot has read what is published (Create and EnsureTable return
\* a publication.Config).
THEOREM SetupTypeCorrect == Spec => []TypeOK
<1>1. Init => TypeOK
  BY TypeInit
<1>2. TypeOK /\ [Next]_vars => TypeOK'
  BY TypeStep
<1> QED BY <1>1, <1>2, PTL DEF Spec

\* However many instances are started, and however often they die half way, only
\* one that another overlapped is told that something exists already.
THEOREM SetupFailsOnlyInRace == Spec => []FailsOnlyInRace
<1>1. RaceInv => FailsOnlyInRace
  BY DEF RaceInv
<1> QED BY <1>1, TypeInit, RaceInit, RaceStep, SetupTypeCorrect, PTL DEF Spec

\* The rows a ready instance copies are in tables whose changes are published, under
\* the same names but for the instance that created a publication of leaves without
\* reading it again; if the program made the publication they are all the configured
\* ones; the heartbeat is published and never copied.
THEOREM SetupSnapshotTablesStreamed == Spec => []SnapshotTablesStreamed
<1>1. TablesInv => SnapshotTablesStreamed
  BY DEF TablesInv
<1> QED BY <1>1, TypeInit, RaceInit, RaceStep, TablesInit, TablesStep, SetupTypeCorrect, PTL DEF Spec

\* With createIfNotExists, when an instance is ready or the program has created the
\* publication, no configured table whose name no other configured table shares is
\* left with another replica identity, and with publishViaPartitionRoot no leaf of it.
THEOREM SetupIdentitiesAligned == Spec => []IdentitiesAligned
<1>1. IdentityInv => IdentitiesAligned
  BY DEF IdentityInv, IdentitiesAligned, AllAligned, LeavesAligned, At
<1> QED BY <1>1, TypeInit, IdentityInit, IdentityStep, SetupTypeCorrect, PTL DEF Spec
=============================================================================
