------------------------------ MODULE Pipeline ------------------------------
(***************************************************************************)
(* The stream and its listener in one process: sink, process and Produce   *)
(* run concurrently, the process may die at any step (a panic of the sink  *)
(* on a corrupted connection, os.Exit of Produce on a failed batch, a kill)*)
(* and is started again from the slot's confirmed position.                *)
(***************************************************************************)
EXTENDS Produce

CONSTANT MaxCrashes   \* bound: how often the process dies

ASSUME MaxCrashesAssumption == MaxCrashes \in Nat

VARIABLES
  up,        \* the process runs
  crashes    \* how often it has died

vars == <<streamVars, produceVars, up, crashes>>

TypeOK ==
  /\ StreamTypeOK
  /\ ProduceTypeOK
  /\ up \in BOOLEAN
  /\ crashes \in 0 .. MaxCrashes

Init ==
  /\ StreamInit
  /\ ProduceInit
  /\ up = TRUE
  /\ crashes = 0

-----------------------------------------------------------------------------

SinkStep ==
  /\ up
  /\ SinkReceive \/ SinkTimeout \/ SinkKeepalive \/ SinkSend
  /\ UNCHANGED <<produceVars, up, crashes>>

ProcessStep ==
  /\ up
  /\ Listen
  /\ UNCHANGED <<feed, cursor, startLsn, sinkPC, statusPos, prevMessage,
                 lastXLogPos, confirmed, up, crashes>>

BatchStep ==
  /\ up
  /\ Collect \/ TimerFlush \/ Exec \/ CloseBatch
  /\ UNCHANGED <<streamVars, up, crashes>>

AckStep ==
  /\ up
  /\ \/ AckUpdate /\ UNCHANGED confirmed
     \/ AckSend /\ UNCHANGED lastXLogPos
  /\ UNCHANGED <<feed, cursor, startLsn, sinkPC, statusPos, prevMessage,
                 messageCH, up, crashes>>

Crash ==
  /\ up
  /\ crashes < MaxCrashes
  /\ StreamDown
  /\ ProduceDown
  /\ up' = FALSE
  /\ crashes' = crashes + 1

Restart ==
  /\ ~ up
  /\ Open
  /\ up' = TRUE
  /\ UNCHANGED <<produceVars, crashes>>

Next == SinkStep \/ ProcessStep \/ BatchStep \/ AckStep \/ Crash \/ Restart

Spec == Init /\ [][Next]_vars

\* The goroutines run whenever they can; a message that has arrived is read
\* before the 300ms deadline can pass, again and again (strong fairness); the
\* process is started again after it died.
Fairness ==
  /\ SF_vars(up /\ SinkReceive /\ UNCHANGED <<produceVars, up, crashes>>)
  /\ WF_vars(up /\ SinkTimeout /\ UNCHANGED <<produceVars, up, crashes>>)
  /\ WF_vars(up /\ SinkSend /\ UNCHANGED <<produceVars, up, crashes>>)
  /\ WF_vars(ProcessStep)
  /\ WF_vars(BatchStep)
  /\ WF_vars(AckStep)
  /\ WF_vars(Restart)

FairSpec == Spec /\ Fairness

-----------------------------------------------------------------------------
(* Properties.                                                             *)

\* The committed row changes the target has to show.
Change(i) ==
  /\ feed[i].tag = "dml"
  /\ feed[i].end > 0
  /\ feed[i].key \notin SkipKeys

\* Change i, or a later one of the same row, is in the target.
Reflected(i) == target[feed[i].key] >= i

\* No acknowledged change is missing: whatever the slot's confirmed position has
\* passed, and the server will therefore never send again, is in the target, and
\* the row is not older than it, even if batches were delivered again after a
\* crash (stream.go sink and Ack, main.go flushBatchGeneric).
ConfirmedReflected ==
  \A i \in DOMAIN feed :
    Change(i) /\ feed[i].end <= confirmed => Reflected(i)

\* Commit order reaches the target: when a step writes change n into a row, every
\* change committed before n is already in the target or arrives with it.
InOrderApply ==
  [][\A k \in Keys :
       target'[k] # target[k] =>
         \A i \in DOMAIN feed :
           Change(i) /\ i < target'[k] => target'[feed[i].key] >= i]_vars

\* In the end the target shows every committed change and the slot has been
\* told so, although status updates of the sink may overtake those of an Ack.
CatchesUp ==
  <>[](\A i \in DOMAIN feed :
         Change(i) => Reflected(i) /\ feed[i].end <= confirmed)
=============================================================================
