------------------------- MODULE PipelineRefinement -------------------------
(***************************************************************************)
(* Pipeline implements Replication.  A change is done when the session     *)
(* left it out, or when it was received and nothing at or before it is on  *)
(* its way any more; while the process is down, the next session decides.  *)
(***************************************************************************)
EXTENDS PipelineInv

RelevantChange(m) == m.tag = "dml" /\ m.end > 0 /\ m.key \notin SkipKeys

Done ==
  IF up
    THEN {i \in DOMAIN feed :
            /\ Change(i)
            /\ \/ Skipped(feed[i])
               \/ i <= cursor /\ \A p \in Pending : i < p}
    ELSE {i \in DOMAIN feed : Change(i) /\ feed[i].end <= confirmed}

R == INSTANCE Replication WITH
       Logs <- Feeds, Relevant <- RelevantChange, log <- feed, done <- Done

\* In the open transaction a row is as the last executed query of the batch that
\* is about it left it, or as in the target.
StagedLast ==
  producePC = "exec" =>
    \A k \in Keys :
      \/ /\ staged[k] = target[k]
         /\ \A n \in 1 .. (execPos - 1) : feed[queue[n].idx].key = k => k \in SkipKeys
      \/ \E m \in 1 .. (execPos - 1) :
           /\ feed[queue[m].idx].key = k /\ k \notin SkipKeys
           /\ staged[k] = queue[m].idx
           /\ \A n \in 1 .. (execPos - 1) : feed[queue[n].idx].key = k => n <= m

\* The stream and Produce deliver in order and at least once.
OrderedAtLeastOnce == R!Spec
=============================================================================
