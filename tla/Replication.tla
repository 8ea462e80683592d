----------------------------- MODULE Replication ----------------------------
(***************************************************************************)
(* What a sink of the replication stream promises: ordered, at-least-once  *)
(* delivery.  Changes of a log are written to the target in the order of   *)
(* the log, a position is confirmed to the source only when all it covers  *)
(* is written, and after a crash delivery begins again at the confirmed    *)
(* position, so that a row may go back to an older change for a while.     *)
(* A sink that retries a failed batch may also repeat it (RetryNext).      *)
(***************************************************************************)
EXTENDS Integers, Sequences

CONSTANTS
  Logs,        \* the logs there may be; an entry has a key and an end LSN
  Keys,        \* primary keys of the rows
  Relevant(_)  \* the entries the target has to show

VARIABLES
  log,         \* the log (never changes)
  done,        \* changes delivered since delivery last began
  target,      \* per row the index of the change that wrote it last
  confirmed    \* position the source has been told

vars == <<log, done, target, confirmed>>

Changes == {i \in DOMAIN log : Relevant(log[i])}

\* The changes position l covers.
UpTo(l) == {i \in Changes : log[i].end <= l}

Init ==
  /\ log \in Logs
  /\ done = {}
  /\ target = [k \in Keys |-> 0]
  /\ confirmed = 0

\* The changes of S are written in log order: the last one of a row stays.
Write(S) ==
  /\ target' = [k \in Keys |-> target'[k]]
  /\ \A k \in Keys :
       \/ /\ \A i \in S : log[i].key # k
          /\ target'[k] = target[k]
       \/ /\ target'[k] \in S
          /\ log[target'[k]].key = k
          /\ \A i \in S : log[i].key = k => i <= target'[k]

\* A batch: everything up to entry j that has not been delivered.
Deliver(j) ==
  LET batch == {i \in Changes \ done : i <= j}
  IN /\ Write(batch)
     /\ done' = done \cup batch
     /\ UNCHANGED <<log, confirmed>>

\* A position is confirmed, perhaps an older one than the last.
Confirm ==
  /\ confirmed' \in Nat
  /\ UpTo(confirmed') \subseteq done
  /\ UNCHANGED <<log, done, target>>

\* Delivery begins again at the confirmed position.
Restart ==
  /\ done' = UpTo(confirmed)
  /\ UNCHANGED <<log, target, confirmed>>

Next ==
  \/ \E j \in DOMAIN log : Deliver(j)
  \/ Confirm \/ Restart

Spec == Init /\ [][Next]_vars

\* What was delivered from entry j on is delivered again, if it is not confirmed.
Repeat(j) ==
  /\ done' = {i \in done : i < j}
  /\ UpTo(confirmed) \subseteq done'
  /\ UNCHANGED <<log, target, confirmed>>

RetryNext == Next \/ \E j \in DOMAIN log : Repeat(j)

-----------------------------------------------------------------------------

\* Positions follow the order of the log.
LogOrdered(l) ==
  /\ DOMAIN l \subseteq Nat
  /\ \A i \in DOMAIN l : Relevant(l[i]) => l[i].key \in Keys /\ l[i].end \in Nat \ {0}
  /\ \A i, j \in DOMAIN l :
       Relevant(l[i]) /\ Relevant(l[j]) /\ i < j => l[i].end <= l[j].end

\* No confirmed change is missing: the row of every change that the confirmed
\* position covers shows that change or a later one.
ConfirmedWritten == \A i \in UpTo(confirmed) : target[log[i].key] >= i
=============================================================================
