----------------------------- MODULE Lifecycle ------------------------------
(***************************************************************************)
(* How one process starts and stops: Start and Close of connector.go, Open *)
(* and Close of pq/replication/stream.go, the end of the sink goroutine,   *)
(* the heartbeat goroutine, and the channels between them.  The snapshot   *)
(* is switched off.  A channel of capacity 1 is the number of its elements *)
(* and whether it is closed.                                               *)
(*                                                                         *)
(* isClosed receives: an element it finds is gone, and taken for the sign  *)
(* that the channel is closed.                                             *)
(***************************************************************************)
EXTENDS Integers

CONSTANTS
  MaxSlotInUse,   \* bound: how often another process is faster to the slot
  MaxHeartbeats   \* bound: ticks of the heartbeat

ASSUME LifecycleBounds == MaxSlotInUse \in Nat /\ MaxHeartbeats \in Nat

VARIABLES
  startPC,    \* Start: "begin", "open", "inUse", "failed", "ready", "wait", "returned"
  sinkPC,     \* sink: "none", "receive", "end", "check", "closing", "done"
  closePC,    \* stream.Close, by the connector and by the sink
  hbPC,       \* heartbeat goroutine: "none", "idle", "query"
  conn,       \* the replication connection: "none", "open", "lost", "closed"
  closed,     \* stream.closed
  sinkEnd, cancelCh, readyCh,
  waiter,     \* WaitUntilReady: "waiting", "ready", "cancelled"
  traffic,    \* "quiet": the source pauses longer than the 300ms of a receive;
              \* "steady": it does not; "stuck": nor does the listener take messages
  heartbeatConn,
  panicked,   \* "no", or what the process died of
  inUse, heartbeats

vars == <<startPC, sinkPC, closePC, hbPC, conn, closed, sinkEnd, cancelCh, readyCh,
          waiter, traffic, heartbeatConn, panicked, inUse, heartbeats>>

Channel == [len : 0 .. 1, closed : BOOLEAN]
Empty == [len |-> 0, closed |-> FALSE]

\* connector.Close begins with "signals", the Close of the sink with "store".
ClosePCs == {"idle", "signals", "heartbeat", "store", "take", "isClosed", "close", "conn", "done"}
Closers == {"connector", "sink"}

TypeOK ==
  /\ startPC \in {"begin", "open", "inUse", "failed", "ready", "wait", "returned"}
  /\ sinkPC \in {"none", "receive", "end", "check", "closing", "done"}
  /\ closePC \in [Closers -> ClosePCs]
  /\ hbPC \in {"none", "idle", "query"}
  /\ conn \in {"none", "open", "lost", "closed"}
  /\ closed \in BOOLEAN
  /\ sinkEnd \in Channel /\ cancelCh \in Channel /\ readyCh \in Channel
  /\ waiter \in {"waiting", "ready", "cancelled"}
  /\ traffic \in {"quiet", "steady", "stuck"}
  /\ heartbeatConn \in BOOLEAN
  /\ panicked \in {"no", "corrupted connection", "sinkEnd closed", "sinkEnd closed twice",
                   "cancelCh closed", "readyCh closed"}
  /\ inUse \in 0 .. MaxSlotInUse
  /\ heartbeats \in 0 .. MaxHeartbeats

Init ==
  /\ startPC = "begin" /\ sinkPC = "none" /\ hbPC = "none"
  /\ closePC = [x \in Closers |-> "idle"]
  /\ conn = "none" /\ closed = FALSE
  /\ sinkEnd = Empty /\ cancelCh = Empty /\ readyCh = Empty
  /\ waiter = "waiting"
  /\ traffic = "quiet"
  /\ heartbeatConn = TRUE
  /\ panicked = "no"
  /\ inUse = 0 /\ heartbeats = 0

CanReceive(ch) == ch.len > 0 \/ ch.closed

AfterReceive(ch) == [ch EXCEPT !.len = IF @ > 0 THEN @ - 1 ELSE 0]
CloseChannel(ch) == [ch EXCEPT !.closed = TRUE]

-----------------------------------------------------------------------------
(* Start.                                                                  *)

\* Slot, CaptureSlot and Connect; any of them may fail, and Start returns.
Connect ==
  /\ startPC = "begin"
  /\ \/ startPC' = "returned" /\ UNCHANGED conn
     \/ startPC' = "open" /\ conn' = IF conn \in {"none", "closed"} THEN "open" ELSE conn
  /\ UNCHANGED <<sinkPC, closePC, hbPC, closed, sinkEnd, cancelCh, readyCh, waiter,
                 traffic, heartbeatConn, panicked, inUse, heartbeats>>

\* Open: START_REPLICATION succeeds and the sink is started; the slot is in use;
\* anything else is wrong; or the connection was closed, which leaves no token.
OpenStream ==
  /\ startPC = "open"
  /\ \/ /\ conn = "open"
        /\ startPC' = "ready" /\ sinkPC' = "receive"
        /\ UNCHANGED inUse
     \/ /\ conn = "open" /\ inUse < MaxSlotInUse
        /\ startPC' = "inUse" /\ inUse' = inUse + 1
        /\ UNCHANGED sinkPC
     \/ /\ conn # "closed"
        /\ startPC' = "failed"
        /\ UNCHANGED <<sinkPC, inUse>>
     \/ /\ conn = "closed"
        /\ startPC' = "returned"
        /\ UNCHANGED <<sinkPC, inUse>>
  /\ UNCHANGED <<closePC, hbPC, conn, closed, sinkEnd, cancelCh, readyCh, waiter,
                 traffic, heartbeatConn, panicked, heartbeats>>

\* The token a failed Open leaves for Close; a full channel blocks.  When the slot
\* is in use, Start begins again.
OpenFailed ==
  /\ startPC \in {"inUse", "failed"}
  /\ IF sinkEnd.closed
       THEN panicked' = "sinkEnd closed" /\ UNCHANGED <<startPC, sinkEnd>>
       ELSE /\ sinkEnd.len = 0
            /\ sinkEnd' = [sinkEnd EXCEPT !.len = 1]
            /\ startPC' = IF startPC = "inUse" THEN "begin" ELSE "returned"
            /\ UNCHANGED panicked
  /\ UNCHANGED <<sinkPC, closePC, hbPC, conn, closed, cancelCh, readyCh, waiter,
                 traffic, heartbeatConn, inUse, heartbeats>>

\* The heartbeat is started, signals are caught, and readyCh is sent to.
Ready ==
  /\ startPC = "ready"
  /\ IF readyCh.closed
       THEN panicked' = "readyCh closed" /\ UNCHANGED <<startPC, readyCh>>
       ELSE /\ readyCh.len = 0
            /\ readyCh' = [readyCh EXCEPT !.len = 1]
            /\ startPC' = "wait"
            /\ UNCHANGED panicked
  /\ hbPC' = "idle"
  /\ UNCHANGED <<sinkPC, closePC, conn, closed, sinkEnd, cancelCh, waiter, traffic,
                 heartbeatConn, inUse, heartbeats>>

StartReturns ==
  /\ startPC = "wait"
  /\ CanReceive(cancelCh)
  /\ cancelCh' = AfterReceive(cancelCh)
  /\ startPC' = "returned"
  /\ UNCHANGED <<sinkPC, closePC, hbPC, conn, closed, sinkEnd, readyCh, waiter,
                 traffic, heartbeatConn, panicked, inUse, heartbeats>>

WaitUntilReady ==
  /\ waiter = "waiting"
  /\ CanReceive(readyCh)
  /\ readyCh' = AfterReceive(readyCh)
  /\ waiter' = "ready"
  /\ UNCHANGED <<startPC, sinkPC, closePC, hbPC, conn, closed, sinkEnd, cancelCh,
                 traffic, heartbeatConn, panicked, inUse, heartbeats>>

\* WaitUntilReady returns because its context is done.
GiveUpWaiting ==
  /\ waiter = "waiting"
  /\ waiter' = "cancelled"
  /\ UNCHANGED <<startPC, sinkPC, closePC, hbPC, conn, closed, sinkEnd, cancelCh,
                 readyCh, traffic, heartbeatConn, panicked, inUse, heartbeats>>

\* A signal that Start asked for, dropped when one is already waiting.
Signal ==
  /\ startPC \in {"wait", "returned"} /\ hbPC # "none"
  /\ IF cancelCh.closed
       THEN panicked' = "cancelCh closed" /\ UNCHANGED cancelCh
       ELSE cancelCh' = [cancelCh EXCEPT !.len = 1] /\ UNCHANGED panicked
  /\ UNCHANGED <<startPC, sinkPC, closePC, hbPC, conn, closed, sinkEnd, readyCh,
                 waiter, traffic, heartbeatConn, inUse, heartbeats>>

-----------------------------------------------------------------------------
(* The sink.                                                               *)

ConnectionLost ==
  /\ conn = "open"
  /\ sinkPC = "receive"
  /\ conn' = "lost"
  /\ UNCHANGED <<startPC, sinkPC, closePC, hbPC, closed, sinkEnd, cancelCh, readyCh,
                 waiter, traffic, heartbeatConn, panicked, inUse, heartbeats>>

\* The source and the listener do as they please.
Traffic ==
  /\ traffic' \in {"quiet", "steady", "stuck"} \ {traffic}
  /\ UNCHANGED <<startPC, sinkPC, closePC, hbPC, conn, closed, sinkEnd, cancelCh,
                 readyCh, waiter, heartbeatConn, panicked, inUse, heartbeats>>

\* The loop ends only where ReceiveMessage fails: when the connection is lost, or at
\* the deadline if the stream was closed.  A sink that waits for the listener to take
\* a message does not receive.
SinkStops ==
  /\ sinkPC = "receive"
  /\ traffic # "stuck"
  /\ conn # "open" \/ (closed /\ traffic = "quiet")
  /\ sinkPC' = "end"
  /\ UNCHANGED <<startPC, closePC, hbPC, conn, closed, sinkEnd, cancelCh, readyCh,
                 waiter, traffic, heartbeatConn, panicked, inUse, heartbeats>>

\* Mutant: a sink that ends leaves no token.
SinkEndNoToken ==
  /\ sinkPC = "end"
  /\ sinkPC' = "check"
  /\ UNCHANGED <<startPC, closePC, hbPC, conn, closed, sinkEnd, cancelCh, readyCh,
                 waiter, traffic, heartbeatConn, panicked, inUse, heartbeats>>

\* The token that says the sink has ended.
SinkEnd ==
  /\ sinkPC = "end"
  /\ IF sinkEnd.closed
       THEN panicked' = "sinkEnd closed" /\ UNCHANGED <<sinkPC, sinkEnd>>
       ELSE /\ sinkEnd.len = 0
            /\ sinkEnd' = [sinkEnd EXCEPT !.len = 1]
            /\ sinkPC' = "check"
            /\ UNCHANGED panicked
  /\ UNCHANGED <<startPC, closePC, hbPC, conn, closed, cancelCh, readyCh, waiter,
                 traffic, heartbeatConn, inUse, heartbeats>>

\* Mutant: a lost connection only ends the sink.
SinkCheckEnds ==
  /\ sinkPC = "check"
  /\ sinkPC' = "done"
  /\ UNCHANGED <<startPC, closePC, hbPC, conn, closed, sinkEnd, cancelCh, readyCh,
                 waiter, traffic, heartbeatConn, panicked, inUse, heartbeats>>

\* The sink that was not stopped by Close closes the stream itself ...
SinkCheck ==
  /\ sinkPC = "check"
  /\ IF closed
       THEN sinkPC' = "done" /\ UNCHANGED closePC
       ELSE sinkPC' = "closing" /\ closePC' = [closePC EXCEPT !["sink"] = "store"]
  /\ UNCHANGED <<startPC, hbPC, conn, closed, sinkEnd, cancelCh, readyCh, waiter,
                 traffic, heartbeatConn, panicked, inUse, heartbeats>>

\* ... and takes the process with it: only a lost connection got it here.
SinkPanics ==
  /\ sinkPC = "closing"
  /\ closePC["sink"] = "done"
  /\ panicked' = "corrupted connection"
  /\ UNCHANGED <<startPC, sinkPC, closePC, hbPC, conn, closed, sinkEnd, cancelCh,
                 readyCh, waiter, traffic, heartbeatConn, inUse, heartbeats>>

-----------------------------------------------------------------------------
(* Close.                                                                  *)

\* Close is called when WaitUntilReady, ready or not, or Start has returned.
CallClose ==
  /\ closePC["connector"] = "idle"
  /\ waiter # "waiting" \/ startPC = "returned"
  /\ closePC' = [closePC EXCEPT !["connector"] = "signals"]
  /\ UNCHANGED <<startPC, sinkPC, hbPC, conn, closed, sinkEnd, cancelCh, readyCh,
                 waiter, traffic, heartbeatConn, panicked, inUse, heartbeats>>

\* if !isClosed(ch) { close(ch) }
CloseUnlessClosed(ch) == IF CanReceive(ch) THEN AfterReceive(ch) ELSE CloseChannel(ch)

CloseSignals ==
  /\ closePC["connector"] = "signals"
  /\ cancelCh' = CloseUnlessClosed(cancelCh)
  /\ readyCh' = CloseUnlessClosed(readyCh)
  /\ closePC' = [closePC EXCEPT !["connector"] = "heartbeat"]
  /\ UNCHANGED <<startPC, sinkPC, hbPC, conn, closed, sinkEnd, waiter, traffic,
                 heartbeatConn, panicked, inUse, heartbeats>>

\* closeHeartbeatConn, under heartbeatMu.
CloseHeartbeatConn ==
  /\ closePC["connector"] = "heartbeat"
  /\ hbPC # "query"
  /\ heartbeatConn' = FALSE
  /\ closePC' = [closePC EXCEPT !["connector"] = "store"]
  /\ UNCHANGED <<startPC, sinkPC, hbPC, conn, closed, sinkEnd, cancelCh, readyCh,
                 waiter, traffic, panicked, inUse, heartbeats>>

\* close(s.sinkEnd), which panics when somebody else was faster.
CloseSinkEnd(x) ==
  /\ closePC[x] = "close"
  /\ IF sinkEnd.closed
       THEN panicked' = "sinkEnd closed twice" /\ UNCHANGED <<closePC, sinkEnd>>
       ELSE /\ sinkEnd' = CloseChannel(sinkEnd)
            /\ closePC' = [closePC EXCEPT ![x] = "conn"]
            /\ UNCHANGED panicked
  /\ UNCHANGED <<closed, conn>>

\* Mutant: Close does not wait for the token.
StreamCloseNoWait(x) ==
  /\ \/ /\ closePC[x] = "store"
        /\ closed' = TRUE
        /\ closePC' = [closePC EXCEPT ![x] = "close"]
        /\ UNCHANGED <<sinkEnd, conn, panicked>>
     \/ CloseSinkEnd(x)
     \/ /\ closePC[x] = "conn"
        /\ conn' = IF conn = "none" THEN conn ELSE "closed"
        /\ closePC' = [closePC EXCEPT ![x] = "done"]
        /\ UNCHANGED <<closed, sinkEnd, panicked>>
  /\ UNCHANGED <<startPC, sinkPC, hbPC, cancelCh, readyCh, waiter, traffic,
                 heartbeatConn, inUse, heartbeats>>

\* Mutant: Close does not ask isClosed.
StreamCloseNoCheck(x) ==
  /\ \/ /\ closePC[x] = "store"
        /\ closed' = TRUE
        /\ closePC' = [closePC EXCEPT ![x] = "take"]
        /\ UNCHANGED <<sinkEnd, conn, panicked>>
     \/ /\ closePC[x] = "take"
        /\ CanReceive(sinkEnd)
        /\ sinkEnd' = AfterReceive(sinkEnd)
        /\ closePC' = [closePC EXCEPT ![x] = "close"]
        /\ UNCHANGED <<closed, conn, panicked>>
     \/ CloseSinkEnd(x)
     \/ /\ closePC[x] = "conn"
        /\ conn' = IF conn = "none" THEN conn ELSE "closed"
        /\ closePC' = [closePC EXCEPT ![x] = "done"]
        /\ UNCHANGED <<closed, sinkEnd, panicked>>
  /\ UNCHANGED <<startPC, sinkPC, hbPC, cancelCh, readyCh, waiter, traffic,
                 heartbeatConn, inUse, heartbeats>>

\* stream.Close, statement by statement: the flag, the token of the sink, the
\* channel unless isClosed finds an element, the connection.
StreamClose(x) ==
  /\ \/ /\ closePC[x] = "store"
        /\ closed' = TRUE
        /\ closePC' = [closePC EXCEPT ![x] = "take"]
        /\ UNCHANGED <<sinkEnd, conn, panicked>>
     \/ /\ closePC[x] = "take"
        /\ CanReceive(sinkEnd)
        /\ sinkEnd' = AfterReceive(sinkEnd)
        /\ closePC' = [closePC EXCEPT ![x] = "isClosed"]
        /\ UNCHANGED <<closed, conn, panicked>>
     \/ /\ closePC[x] = "isClosed"
        /\ sinkEnd' = AfterReceive(sinkEnd)
        /\ closePC' = [closePC EXCEPT ![x] = IF CanReceive(sinkEnd) THEN "conn" ELSE "close"]
        /\ UNCHANGED <<closed, conn, panicked>>
     \/ CloseSinkEnd(x)
     \/ /\ closePC[x] = "conn"
        /\ conn' = IF conn = "none" THEN conn ELSE "closed"
        /\ closePC' = [closePC EXCEPT ![x] = "done"]
        /\ UNCHANGED <<closed, sinkEnd, panicked>>
  /\ UNCHANGED <<startPC, sinkPC, hbPC, cancelCh, readyCh, waiter, traffic,
                 heartbeatConn, inUse, heartbeats>>

-----------------------------------------------------------------------------
(* The heartbeat.                                                          *)

\* execHeartbeat takes the lock and opens the connection if there is none.
HeartbeatTick ==
  /\ hbPC = "idle"
  /\ heartbeats < MaxHeartbeats
  /\ heartbeats' = heartbeats + 1
  /\ hbPC' = "query"
  /\ heartbeatConn' = TRUE
  /\ UNCHANGED <<startPC, sinkPC, closePC, conn, closed, sinkEnd, cancelCh, readyCh,
                 waiter, traffic, panicked, inUse>>

\* The query ends; the connection is given up when it failed.
HeartbeatDone ==
  /\ hbPC = "query"
  /\ hbPC' = "idle"
  /\ heartbeatConn' \in {heartbeatConn, FALSE}
  /\ UNCHANGED <<startPC, sinkPC, closePC, conn, closed, sinkEnd, cancelCh, readyCh,
                 waiter, traffic, panicked, inUse, heartbeats>>

-----------------------------------------------------------------------------

StartStep == Connect \/ OpenStream \/ OpenFailed \/ Ready \/ StartReturns
SinkStep == SinkStops \/ SinkEnd \/ SinkCheck \/ SinkPanics \/ StreamClose("sink")
CloseStep == CloseSignals \/ CloseHeartbeatConn \/ StreamClose("connector")

\* A process that has panicked does nothing more.
Next ==
  /\ panicked = "no"
  /\ \/ StartStep \/ SinkStep \/ CloseStep
     \/ WaitUntilReady \/ GiveUpWaiting \/ CallClose
     \/ Signal \/ ConnectionLost \/ Traffic
     \/ HeartbeatTick \/ HeartbeatDone

Spec == Init /\ [][Next]_vars

\* Goroutines that can run do, and a mutex is granted to one that waits.  Signals,
\* losses, calls of Close and pauses of the source need not happen.
Fairness ==
  /\ WF_vars(panicked = "no" /\ StartStep)
  /\ WF_vars(panicked = "no" /\ SinkStep)
  /\ SF_vars(panicked = "no" /\ CloseStep)
  /\ WF_vars(panicked = "no" /\ HeartbeatDone)

FairSpec == Spec /\ Fairness

-----------------------------------------------------------------------------
(* Properties.                                                             *)

Closing == closePC["connector"] # "idle"
Closed == closePC["connector"] = "done"

\* Close returns once Open was called, if the source pauses for good and the listener
\* takes what it is handed: the sink, or the Open that failed, leaves the one token
\* that all callers of stream.Close together need.  The only other end is the panic
\* of a sink that lost its connection.  It supposes that no Open found the slot in
\* use, that no signal arrives after Close, and that Start does not meet the closed
\* readyCh.  (Without an Open nobody leaves a token, and under steady traffic the sink
\* never looks at the flag: Close blocks.)
CloseReturnsAfterOpen ==
  /\ <>[](traffic = "quiet")
  /\ [](inUse = 0 /\ panicked \notin {"cancelCh closed", "readyCh closed"})
  => ((Closing /\ (sinkPC # "none" \/ sinkEnd.len > 0))
        ~> (Closed \/ panicked = "corrupted connection"))

\* The sink and a failed Open leave their token in a sinkEnd that is open, unless an
\* Open found the slot in use: the token that one leaves is taken for that of the
\* next sink.  Start sends to a readyCh that is open, unless somebody called Close
\* after giving up in WaitUntilReady.  (Of cancelCh nothing of the kind is true: Close
\* never calls signal.Stop, and a later signal is sent to the closed channel.)
TokenFindsChannelOpen ==
  /\ panicked = "sinkEnd closed" => inUse > 0
  /\ panicked = "readyCh closed" => waiter = "cancelled"

\* A lost connection ends the process, whoever calls Close at the same time, as long
\* as the listener takes what it is handed: the stream is not left silently behind.
\* Again if Open never found the slot in use.
LostConnectionEnds ==
  <>[](traffic # "stuck") =>
    ((conn = "lost" /\ inUse = 0) ~> (panicked # "no" \/ (Closed /\ sinkPC = "done")))

\* The two callers of stream.Close, the sink that lost its connection and the
\* connector, never both close sinkEnd: isClosed and close are two statements, and
\* a second close would panic.
SinkEndClosedOnce == panicked # "sinkEnd closed twice"

\* Once the sink has sent its token, a caller of stream.Close that waits for it finds
\* it, or the channel closed, or another caller about to close it: no token is taken
\* from somebody who still needs it.
TokenForEveryCloser ==
  sinkPC \in {"check", "closing", "done"} =>
    \A x \in Closers : closePC[x] = "take" =>
      CanReceive(sinkEnd) \/ \E y \in Closers : closePC[y] \in {"isClosed", "close"}

-----------------------------------------------------------------------------
(* Why it is so: the inductive invariant.                                  *)

\* The one token of sinkEnd was sent: by the sink that ended, or by the Open that
\* failed for good, after which there is no sink.
TokenSent ==
  \/ sinkPC \in {"check", "closing", "done"}
  \/ sinkPC = "none" /\ startPC = "returned"

\* Where a caller of stream.Close is: before the receive, or beyond it.
Before(x) == closePC[x] \in {"idle", "signals", "heartbeat", "store", "take"}
Holds(x) == closePC[x] \in {"isClosed", "close"}
TokenTaken == \E x \in Closers : ~Before(x)

\* There is no sink before Open succeeds, and no slot in use that was not counted.
StartOK ==
  /\ startPC \in {"begin", "open", "inUse", "failed"} => sinkPC = "none"
  /\ startPC = "inUse" => inUse > 0

\* Nobody takes a token, or closes the channel, before it was sent.
SinkEndOK ==
  inUse = 0 /\ (sinkEnd.len > 0 \/ sinkEnd.closed \/ TokenTaken) => TokenSent

\* The flag is set by who goes on to wait for the token, and the sink calls Close
\* only when it found the flag unset: the connector then has taken nothing.
FlagOK ==
  /\ closed <=> \E x \in Closers : closePC[x] \notin {"idle", "signals", "heartbeat", "store"}
  /\ sinkPC = "check" /\ ~closed => sinkEnd.len = 1
  /\ sinkPC = "done" => closed
  /\ closePC["sink"] # "idle" <=> sinkPC = "closing"

\* sinkEnd is closed by who is through with it, and as long as it is open and both
\* may call Close, there is one token: in the channel, or with one of them.
OneToken ==
  /\ sinkEnd.closed => \E x \in Closers : closePC[x] \in {"conn", "done"}
  /\ sinkEnd.closed => \A x \in Closers : closePC[x] # "close"
  /\ sinkPC = "closing" /\ ~sinkEnd.closed =>
       \/ sinkEnd.len = 1 /\ \A x \in Closers : Before(x)
       \/ sinkEnd.len = 0 /\ \E x \in Closers : Holds(x) /\ \A y \in Closers \ {x} : Before(y)

\* readyCh is not used, and Close is not called, before Start sends to readyCh or
\* returns, unless WaitUntilReady gave up.
ReadyOK ==
  waiter # "cancelled" /\ (readyCh.len > 0 \/ readyCh.closed \/ waiter = "ready" \/ Closing)
    => startPC \in {"wait", "returned"}

LifecycleInv ==
  /\ TypeOK
  /\ StartOK
  /\ SinkEndOK
  /\ FlagOK
  /\ OneToken
  /\ ReadyOK
  /\ TokenFindsChannelOpen
  /\ SinkEndClosedOnce
  /\ TokenForEveryCloser
=============================================================================
