--------------------------- MODULE LifecycleProofs --------------------------
(***************************************************************************)
(* Proofs about Lifecycle.tla, for every number of Opens that find the     *)
(* slot in use and of heartbeats.                                          *)
(***************************************************************************)
EXTENDS Lifecycle, TLAPS

\* What a send, a receive and a close do to a channel.
LEMMA ChannelOps ==
  ASSUME NEW ch \in Channel
  PROVE  /\ ch.len \in 0 .. 1 /\ ch.closed \in BOOLEAN
         /\ AfterReceive(ch) \in Channel
         /\ AfterReceive(ch).len = 0 /\ AfterReceive(ch).closed = ch.closed
         /\ CloseChannel(ch) \in Channel
         /\ CloseChannel(ch).len = ch.len /\ CloseChannel(ch).closed
         /\ [ch EXCEPT !.len = 1] \in Channel
         /\ [ch EXCEPT !.len = 1].len = 1
         /\ [ch EXCEPT !.len = 1].closed = ch.closed
         /\ CloseUnlessClosed(ch) \in Channel
  <1>1. ch.len \in 0 .. 1 /\ ch.closed \in BOOLEAN
    BY DEF Channel
  <1>2. /\ AfterReceive(ch) \in Channel
        /\ AfterReceive(ch).len = 0 /\ AfterReceive(ch).closed = ch.closed
    BY <1>1 DEF Channel, AfterReceive
  <1>3. /\ CloseChannel(ch) \in Channel
        /\ CloseChannel(ch).len = ch.len /\ CloseChannel(ch).closed
    BY <1>1 DEF Channel, CloseChannel
  <1>4. /\ [ch EXCEPT !.len = 1] \in Channel
        /\ [ch EXCEPT !.len = 1].len = 1
        /\ [ch EXCEPT !.len = 1].closed = ch.closed
    BY <1>1 DEF Channel
  <1>5. QED
    BY <1>1, <1>2, <1>3, <1>4 DEF CloseUnlessClosed

\* The parts of the type invariant, the truth values apart.
ValuesOK ==
  /\ closed \in BOOLEAN
  /\ heartbeatConn \in BOOLEAN

PlacesOK ==
  /\ startPC \in {"begin", "open", "inUse", "failed", "ready", "wait", "returned"}
  /\ sinkPC \in {"none", "receive", "end", "check", "closing", "done"}
  /\ closePC \in [Closers -> ClosePCs]
  /\ hbPC \in {"none", "idle", "query"}
  /\ conn \in {"none", "open", "lost", "closed"}
  /\ waiter \in {"waiting", "ready", "cancelled"}
  /\ traffic \in {"quiet", "steady", "stuck"}
  /\ panicked \in {"no", "corrupted connection", "sinkEnd closed", "sinkEnd closed twice",
                   "cancelCh closed", "readyCh closed"}
  /\ inUse \in 0 .. MaxSlotInUse
  /\ heartbeats \in 0 .. MaxHeartbeats

ChannelsOK == sinkEnd \in Channel /\ cancelCh \in Channel /\ readyCh \in Channel

\* The rest of LifecycleInv.
TokensOK ==
  /\ StartOK /\ SinkEndOK /\ FlagOK /\ OneToken /\ ReadyOK
  /\ TokenFindsChannelOpen /\ SinkEndClosedOnce /\ TokenForEveryCloser

LEMMA Parts == LifecycleInv <=> ValuesOK /\ PlacesOK /\ ChannelsOK /\ TokensOK
  <1>1. TypeOK => ValuesOK /\ PlacesOK /\ ChannelsOK
    BY Zenon DEF TypeOK, ValuesOK, PlacesOK, ChannelsOK
  <1>2. ValuesOK /\ PlacesOK /\ ChannelsOK => TypeOK
    BY Zenon DEF TypeOK, ValuesOK, PlacesOK, ChannelsOK
  <1>3. QED
    BY <1>1, <1>2, Zenon DEF LifecycleInv, TokensOK

LEMMA PartsNext == LifecycleInv' <=> ValuesOK' /\ PlacesOK' /\ ChannelsOK' /\ TokensOK'
  BY Parts, PTL

LEMMA InitInv == Init => LifecycleInv
  <1> SUFFICES ASSUME Init PROVE LifecycleInv
    OBVIOUS
  <1>1. Empty \in Channel /\ Empty.len = 0 /\ Empty.closed = FALSE
    BY DEF Empty, Channel
  <1>2. ValuesOK
    BY Zenon DEF Init, ValuesOK
  <1>3. PlacesOK
    BY LifecycleBounds DEF Init, PlacesOK, Closers, ClosePCs
  <1>4. ChannelsOK
    BY <1>1 DEF Init, ChannelsOK
  <1>5. TokensOK
    BY <1>1 DEF Init, TokensOK, StartOK, SinkEndOK, FlagOK, OneToken, ReadyOK,
         TokenFindsChannelOpen, SinkEndClosedOnce, TokenForEveryCloser, TokenSent, TokenTaken,
         Before, Closing, Closers
  <1>6. QED
    BY <1>2, <1>3, <1>4, <1>5, Parts

-----------------------------------------------------------------------------
(* Start.                                                                  *)

LEMMA ConnectInv == LifecycleInv /\ panicked = "no" /\ Connect => LifecycleInv'
  <1> SUFFICES ASSUME LifecycleInv, panicked = "no", Connect PROVE LifecycleInv'
    OBVIOUS
  <1>0. ValuesOK /\ PlacesOK /\ ChannelsOK /\ TokensOK
    BY Parts
  <1>1. ValuesOK'
    BY <1>0, Zenon DEF ValuesOK, Connect
  <1>2. PlacesOK'
    BY <1>0 DEF PlacesOK, Closers, ClosePCs, Connect
  <1>3. ChannelsOK'
    BY <1>0 DEF ChannelsOK, Connect
  <1>4. TokensOK'
    BY <1>0 DEF ValuesOK, PlacesOK, ChannelsOK, TokensOK, StartOK, SinkEndOK, FlagOK,
         OneToken, ReadyOK, TokenFindsChannelOpen, SinkEndClosedOnce, TokenForEveryCloser,
         TokenSent, TokenTaken, Before, Holds, Closing, Closers, CanReceive, Connect
  <1>5. QED
    BY <1>1, <1>2, <1>3, <1>4, PartsNext

LEMMA OpenStreamInv == LifecycleInv /\ panicked = "no" /\ OpenStream => LifecycleInv'
  <1> SUFFICES ASSUME LifecycleInv, panicked = "no", OpenStream PROVE LifecycleInv'
    OBVIOUS
  <1>0. ValuesOK /\ PlacesOK /\ ChannelsOK /\ TokensOK
    BY Parts
  <1>1. ValuesOK'
    BY <1>0, Zenon DEF ValuesOK, OpenStream
  <1>2. PlacesOK'
    BY <1>0, LifecycleBounds DEF PlacesOK, Closers, ClosePCs, OpenStream
  <1>3. ChannelsOK'
    BY <1>0 DEF ChannelsOK, OpenStream
  <1>4. TokensOK'
    BY <1>0 DEF ValuesOK, PlacesOK, ChannelsOK, TokensOK, StartOK, SinkEndOK, FlagOK,
         OneToken, ReadyOK, TokenFindsChannelOpen, SinkEndClosedOnce, TokenForEveryCloser,
         TokenSent, TokenTaken, Before, Holds, Closing, Closers, CanReceive, OpenStream
  <1>5. QED
    BY <1>1, <1>2, <1>3, <1>4, PartsNext

LEMMA OpenFailedInv == LifecycleInv /\ panicked = "no" /\ OpenFailed => LifecycleInv'
  <1> SUFFICES ASSUME LifecycleInv, panicked = "no", OpenFailed PROVE LifecycleInv'
    OBVIOUS
  <1>0. ValuesOK /\ PlacesOK /\ ChannelsOK /\ TokensOK
    BY Parts
  <1>1. ValuesOK'
    BY <1>0, Zenon DEF ValuesOK, OpenFailed
  <1>2. PlacesOK'
    BY <1>0 DEF PlacesOK, Closers, ClosePCs, OpenFailed
  <1>3. sinkEnd.len \in 0 .. 1 /\ sinkEnd.closed \in BOOLEAN
    BY <1>0 DEF ChannelsOK, Channel
  <1>4. CASE sinkEnd.closed
    <2>1. panicked' = "sinkEnd closed" /\ UNCHANGED <<startPC, sinkPC, sinkEnd>>
      BY <1>4 DEF OpenFailed
    <2>2. ChannelsOK'
      BY <1>0, <2>1 DEF ChannelsOK, OpenFailed
    <2>3. inUse > 0
      <3>1. ~TokenSent
        BY <1>0 DEF TokensOK, StartOK, TokenSent, OpenFailed
      <3>2. inUse # 0
        BY <1>0, <1>4, <3>1, Zenon DEF TokensOK, SinkEndOK
      <3>3. QED
        BY <1>0, <3>2, LifecycleBounds DEF PlacesOK
    <2>4. TokensOK'
      BY <1>0, <2>1, <2>3 DEF ValuesOK, PlacesOK, ChannelsOK, TokensOK, StartOK, SinkEndOK,
           FlagOK, OneToken, ReadyOK, TokenFindsChannelOpen, SinkEndClosedOnce,
           TokenForEveryCloser, TokenSent, TokenTaken, Before, Holds, Closing, Closers,
           CanReceive, OpenFailed
    <2>5. QED
      BY <1>1, <1>2, <2>2, <2>4, PartsNext
  <1>5. CASE ~sinkEnd.closed
    <2>1. sinkEnd' = [sinkEnd EXCEPT !.len = 1] /\ sinkEnd.len = 0 /\ UNCHANGED panicked
      BY <1>5 DEF OpenFailed
    <2>2. sinkEnd' \in Channel /\ sinkEnd'.len = 1 /\ ~sinkEnd'.closed
      BY <1>0, <1>5, <2>1 DEF ChannelsOK, Channel
    <2>3. ChannelsOK'
      BY <1>0, <2>2 DEF ChannelsOK, OpenFailed
    <2>4. TokensOK'
      BY <1>0, <1>5, <2>1, <2>2 DEF ValuesOK, PlacesOK, ChannelsOK, TokensOK, StartOK,
           SinkEndOK, FlagOK, OneToken, ReadyOK, TokenFindsChannelOpen, SinkEndClosedOnce,
           TokenForEveryCloser, TokenSent, TokenTaken, Before, Holds, Closing, Closers,
           CanReceive, OpenFailed
    <2>5. QED
      BY <1>1, <1>2, <2>3, <2>4, PartsNext
  <1>6. QED
    BY <1>3, <1>4, <1>5

LEMMA ReadyInv == LifecycleInv /\ panicked = "no" /\ Ready => LifecycleInv'
  <1> SUFFICES ASSUME LifecycleInv, panicked = "no", Ready PROVE LifecycleInv'
    OBVIOUS
  <1>0. ValuesOK /\ PlacesOK /\ ChannelsOK /\ TokensOK
    BY Parts
  <1>1. ValuesOK'
    BY <1>0, Zenon DEF ValuesOK, Ready
  <1>2. PlacesOK'
    BY <1>0 DEF PlacesOK, Closers, ClosePCs, Ready
  <1>3. /\ readyCh' = readyCh \/ readyCh' = [readyCh EXCEPT !.len = 1]
        /\ readyCh' \in Channel
        /\ readyCh' # readyCh => readyCh'.len = 1 /\ readyCh'.closed = readyCh.closed
    <2>1. readyCh' = readyCh \/ readyCh' = [readyCh EXCEPT !.len = 1]
      BY DEF Ready
    <2>2. readyCh \in Channel
      BY <1>0 DEF ChannelsOK
    <2>3. QED
      BY <2>1, <2>2 DEF Channel
  <1>4. ChannelsOK'
    BY <1>0, <1>3 DEF ChannelsOK, Ready
  <1>5. TokensOK'
    <2>1. UNCHANGED <<sinkPC, closePC, closed, sinkEnd, cancelCh, waiter, inUse>>
      BY DEF Ready
    <2>2. (StartOK /\ SinkEndOK /\ ReadyOK)'
      BY <1>0, <2>1 DEF TokensOK, StartOK, SinkEndOK, ReadyOK, TokenSent, TokenTaken, Before,
           Closing, Ready
    <2>3. (TokenFindsChannelOpen /\ SinkEndClosedOnce)'
      BY <1>0, <2>1 DEF TokensOK, ReadyOK, TokenFindsChannelOpen, SinkEndClosedOnce, Ready
    <2>4. (FlagOK /\ OneToken)'
      BY <1>0, <2>1 DEF TokensOK, FlagOK, OneToken, Before, Holds
    <2>5. TokenForEveryCloser'
      BY <1>0, <2>1 DEF TokensOK, TokenForEveryCloser, CanReceive
    <2>6. QED
      BY <2>2, <2>3, <2>4, <2>5 DEF TokensOK
  <1>6. QED
    BY <1>1, <1>2, <1>4, <1>5, PartsNext

LEMMA StartReturnsInv == LifecycleInv /\ panicked = "no" /\ StartReturns => LifecycleInv'
  <1> SUFFICES ASSUME LifecycleInv, panicked = "no", StartReturns PROVE LifecycleInv'
    OBVIOUS
  <1>0. ValuesOK /\ PlacesOK /\ ChannelsOK /\ TokensOK
    BY Parts
  <1>1. ValuesOK'
    BY <1>0, Zenon DEF ValuesOK, StartReturns
  <1>2. PlacesOK'
    BY <1>0 DEF PlacesOK, Closers, ClosePCs, StartReturns
  <1>3. ChannelsOK'
    BY <1>0, ChannelOps DEF ChannelsOK, StartReturns
  <1>4. TokensOK'
    BY <1>0, ChannelOps DEF ValuesOK, PlacesOK, ChannelsOK, TokensOK, StartOK, SinkEndOK,
         FlagOK, OneToken, ReadyOK, TokenFindsChannelOpen, SinkEndClosedOnce,
         TokenForEveryCloser, TokenSent, TokenTaken, Before, Holds, Closing, Closers,
         CanReceive, StartReturns
  <1>5. QED
    BY <1>1, <1>2, <1>3, <1>4, PartsNext

LEMMA WaitUntilReadyInv == LifecycleInv /\ panicked = "no" /\ WaitUntilReady => LifecycleInv'
  <1> SUFFICES ASSUME LifecycleInv, panicked = "no", WaitUntilReady PROVE LifecycleInv'
    OBVIOUS
  <1>0. ValuesOK /\ PlacesOK /\ ChannelsOK /\ TokensOK
    BY Parts
  <1>1. ValuesOK'
    BY <1>0, Zenon DEF ValuesOK, WaitUntilReady
  <1>2. PlacesOK'
    BY <1>0 DEF PlacesOK, Closers, ClosePCs, WaitUntilReady
  <1>3. ChannelsOK'
    BY <1>0, ChannelOps DEF ChannelsOK, WaitUntilReady
  <1>4. TokensOK'
    BY <1>0, ChannelOps DEF ValuesOK, PlacesOK, ChannelsOK, TokensOK, StartOK, SinkEndOK,
         FlagOK, OneToken, ReadyOK, TokenFindsChannelOpen, SinkEndClosedOnce,
         TokenForEveryCloser, TokenSent, TokenTaken, Before, Holds, Closing, Closers,
         CanReceive, WaitUntilReady
  <1>5. QED
    BY <1>1, <1>2, <1>3, <1>4, PartsNext

LEMMA GiveUpWaitingInv == LifecycleInv /\ panicked = "no" /\ GiveUpWaiting => LifecycleInv'
  <1> SUFFICES ASSUME LifecycleInv, panicked = "no", GiveUpWaiting PROVE LifecycleInv'
    OBVIOUS
  <1>0. ValuesOK /\ PlacesOK /\ ChannelsOK /\ TokensOK
    BY Parts
  <1>1. ValuesOK'
    BY <1>0, Zenon DEF ValuesOK, GiveUpWaiting
  <1>2. PlacesOK'
    BY <1>0 DEF PlacesOK, Closers, ClosePCs, GiveUpWaiting
  <1>3. ChannelsOK'
    BY <1>0 DEF ChannelsOK, GiveUpWaiting
  <1>4. TokensOK'
    BY <1>0 DEF ValuesOK, PlacesOK, ChannelsOK, TokensOK, StartOK, SinkEndOK, FlagOK,
         OneToken, ReadyOK, TokenFindsChannelOpen, SinkEndClosedOnce, TokenForEveryCloser,
         TokenSent, TokenTaken, Before, Holds, Closing, Closers, CanReceive, GiveUpWaiting
  <1>5. QED
    BY <1>1, <1>2, <1>3, <1>4, PartsNext

LEMMA SignalInv == LifecycleInv /\ panicked = "no" /\ Signal => LifecycleInv'
  <1> SUFFICES ASSUME LifecycleInv, panicked = "no", Signal PROVE LifecycleInv'
    OBVIOUS
  <1>0. ValuesOK /\ PlacesOK /\ ChannelsOK /\ TokensOK
    BY Parts
  <1>1. ValuesOK'
    BY <1>0, Zenon DEF ValuesOK, Signal
  <1>2. PlacesOK'
    BY <1>0 DEF PlacesOK, Closers, ClosePCs, Signal
  <1>3. /\ cancelCh' = cancelCh \/ cancelCh' = [cancelCh EXCEPT !.len = 1]
        /\ cancelCh' \in Channel
        /\ cancelCh' # cancelCh => cancelCh'.len = 1 /\ cancelCh'.closed = cancelCh.closed
    <2>1. cancelCh' = cancelCh \/ cancelCh' = [cancelCh EXCEPT !.len = 1]
      BY DEF Signal
    <2>2. cancelCh \in Channel
      BY <1>0 DEF ChannelsOK
    <2>3. QED
      BY <2>1, <2>2 DEF Channel
  <1>4. ChannelsOK'
    BY <1>0, <1>3 DEF ChannelsOK, Signal
  <1>5. TokensOK'
    <2>1. UNCHANGED <<startPC, sinkPC, closePC, closed, sinkEnd, readyCh, waiter, inUse>>
      BY DEF Signal
    <2>2. (StartOK /\ SinkEndOK /\ ReadyOK)'
      BY <1>0, <2>1 DEF TokensOK, StartOK, SinkEndOK, ReadyOK, TokenSent, TokenTaken, Before,
           Closing
    <2>3. (TokenFindsChannelOpen /\ SinkEndClosedOnce)'
      BY <1>0, <2>1 DEF TokensOK, TokenFindsChannelOpen, SinkEndClosedOnce, Signal
    <2>4. (FlagOK /\ OneToken)'
      BY <1>0, <2>1 DEF TokensOK, FlagOK, OneToken, Before, Holds
    <2>5. TokenForEveryCloser'
      BY <1>0, <2>1 DEF TokensOK, TokenForEveryCloser, CanReceive
    <2>6. QED
      BY <2>2, <2>3, <2>4, <2>5 DEF TokensOK
  <1>6. QED
    BY <1>1, <1>2, <1>4, <1>5, PartsNext

-----------------------------------------------------------------------------
(* The sink.                                                               *)

LEMMA ConnectionLostInv == LifecycleInv /\ panicked = "no" /\ ConnectionLost => LifecycleInv'
  <1> SUFFICES ASSUME LifecycleInv, panicked = "no", ConnectionLost PROVE LifecycleInv'
    OBVIOUS
  <1>0. ValuesOK /\ PlacesOK /\ ChannelsOK /\ TokensOK
    BY Parts
  <1>1. ValuesOK'
    BY <1>0, Zenon DEF ValuesOK, ConnectionLost
  <1>2. PlacesOK'
    BY <1>0 DEF PlacesOK, Closers, ClosePCs, ConnectionLost
  <1>3. ChannelsOK'
    BY <1>0 DEF ChannelsOK, ConnectionLost
  <1>4. TokensOK'
    BY <1>0 DEF ValuesOK, PlacesOK, ChannelsOK, TokensOK, StartOK, SinkEndOK, FlagOK,
         OneToken, ReadyOK, TokenFindsChannelOpen, SinkEndClosedOnce, TokenForEveryCloser,
         TokenSent, TokenTaken, Before, Holds, Closing, Closers, CanReceive, ConnectionLost
  <1>5. QED
    BY <1>1, <1>2, <1>3, <1>4, PartsNext

LEMMA TrafficInv == LifecycleInv /\ panicked = "no" /\ Traffic => LifecycleInv'
  <1> SUFFICES ASSUME LifecycleInv, panicked = "no", Traffic PROVE LifecycleInv'
    OBVIOUS
  <1>0. ValuesOK /\ PlacesOK /\ ChannelsOK /\ TokensOK
    BY Parts
  <1>1. ValuesOK'
    BY <1>0, Zenon DEF ValuesOK, Traffic
  <1>2. PlacesOK'
    BY <1>0 DEF PlacesOK, Closers, ClosePCs, Traffic
  <1>3. ChannelsOK'
    BY <1>0 DEF ChannelsOK, Traffic
  <1>4. TokensOK'
    BY <1>0 DEF ValuesOK, PlacesOK, ChannelsOK, TokensOK, StartOK, SinkEndOK, FlagOK,
         OneToken, ReadyOK, TokenFindsChannelOpen, SinkEndClosedOnce, TokenForEveryCloser,
         TokenSent, TokenTaken, Before, Holds, Closing, Closers, CanReceive, Traffic
  <1>5. QED
    BY <1>1, <1>2, <1>3, <1>4, PartsNext

LEMMA SinkStopsInv == LifecycleInv /\ panicked = "no" /\ SinkStops => LifecycleInv'
  <1> SUFFICES ASSUME LifecycleInv, panicked = "no", SinkStops PROVE LifecycleInv'
    OBVIOUS
  <1>0. ValuesOK /\ PlacesOK /\ ChannelsOK /\ TokensOK
    BY Parts
  <1>1. ValuesOK'
    BY <1>0, Zenon DEF ValuesOK, SinkStops
  <1>2. PlacesOK'
    BY <1>0 DEF PlacesOK, Closers, ClosePCs, SinkStops
  <1>3. ChannelsOK'
    BY <1>0 DEF ChannelsOK, SinkStops
  <1>4. TokensOK'
    BY <1>0 DEF ValuesOK, PlacesOK, ChannelsOK, TokensOK, StartOK, SinkEndOK, FlagOK,
         OneToken, ReadyOK, TokenFindsChannelOpen, SinkEndClosedOnce, TokenForEveryCloser,
         TokenSent, TokenTaken, Before, Holds, Closing, Closers, CanReceive, SinkStops
  <1>5. QED
    BY <1>1, <1>2, <1>3, <1>4, PartsNext

LEMMA SinkEndInv == LifecycleInv /\ panicked = "no" /\ SinkEnd => LifecycleInv'
  <1> SUFFICES ASSUME LifecycleInv, panicked = "no", SinkEnd PROVE LifecycleInv'
    OBVIOUS
  <1>0. ValuesOK /\ PlacesOK /\ ChannelsOK /\ TokensOK
    BY Parts
  <1>1. ValuesOK'
    BY <1>0, Zenon DEF ValuesOK, SinkEnd
  <1>2. PlacesOK'
    BY <1>0 DEF PlacesOK, Closers, ClosePCs, SinkEnd
  <1>3. sinkEnd.len \in 0 .. 1 /\ sinkEnd.closed \in BOOLEAN
    BY <1>0 DEF ChannelsOK, Channel
  <1>4. CASE sinkEnd.closed
    <2>1. panicked' = "sinkEnd closed" /\ UNCHANGED <<startPC, sinkPC, sinkEnd>>
      BY <1>4 DEF SinkEnd
    <2>2. ChannelsOK'
      BY <1>0, <2>1 DEF ChannelsOK, SinkEnd
    <2>3. inUse > 0
      <3>1. ~TokenSent
        BY <1>0 DEF TokensOK, StartOK, TokenSent, SinkEnd
      <3>2. inUse # 0
        BY <1>0, <1>4, <3>1, Zenon DEF TokensOK, SinkEndOK
      <3>3. QED
        BY <1>0, <3>2, LifecycleBounds DEF PlacesOK
    <2>4. TokensOK'
      BY <1>0, <2>1, <2>3 DEF ValuesOK, PlacesOK, ChannelsOK, TokensOK, StartOK, SinkEndOK,
           FlagOK, OneToken, ReadyOK, TokenFindsChannelOpen, SinkEndClosedOnce,
           TokenForEveryCloser, TokenSent, TokenTaken, Before, Holds, Closing, Closers,
           CanReceive, SinkEnd
    <2>5. QED
      BY <1>1, <1>2, <2>2, <2>4, PartsNext
  <1>5. CASE ~sinkEnd.closed
    <2>1. sinkEnd' = [sinkEnd EXCEPT !.len = 1] /\ sinkEnd.len = 0 /\ UNCHANGED panicked
      BY <1>5 DEF SinkEnd
    <2>2. sinkEnd' \in Channel /\ sinkEnd'.len = 1 /\ ~sinkEnd'.closed
      BY <1>0, <1>5, <2>1 DEF ChannelsOK, Channel
    <2>3. ChannelsOK'
      BY <1>0, <2>2 DEF ChannelsOK, SinkEnd
    <2>4. TokensOK'
      BY <1>0, <1>5, <2>1, <2>2 DEF ValuesOK, PlacesOK, ChannelsOK, TokensOK, StartOK,
           SinkEndOK, FlagOK, OneToken, ReadyOK, TokenFindsChannelOpen, SinkEndClosedOnce,
           TokenForEveryCloser, TokenSent, TokenTaken, Before, Holds, Closing, Closers,
           CanReceive, SinkEnd
    <2>5. QED
      BY <1>1, <1>2, <2>3, <2>4, PartsNext
  <1>6. QED
    BY <1>3, <1>4, <1>5

LEMMA SinkCheckInv == LifecycleInv /\ panicked = "no" /\ SinkCheck => LifecycleInv'
  <1> SUFFICES ASSUME LifecycleInv, panicked = "no", SinkCheck PROVE LifecycleInv'
    OBVIOUS
  <1>0. ValuesOK /\ PlacesOK /\ ChannelsOK /\ TokensOK
    BY Parts
  <1>1. ValuesOK'
    BY <1>0, Zenon DEF ValuesOK, SinkCheck
  <1>2. PlacesOK'
    BY <1>0 DEF PlacesOK, Closers, ClosePCs, SinkCheck
  <1>3. ChannelsOK'
    BY <1>0 DEF ChannelsOK, SinkCheck
  <1>4. TokensOK'
    BY <1>0 DEF ValuesOK, PlacesOK, ChannelsOK, TokensOK, StartOK, SinkEndOK, FlagOK,
         OneToken, ReadyOK, TokenFindsChannelOpen, SinkEndClosedOnce, TokenForEveryCloser,
         TokenSent, TokenTaken, Before, Holds, Closing, Closers, CanReceive, SinkCheck
  <1>5. QED
    BY <1>1, <1>2, <1>3, <1>4, PartsNext

LEMMA SinkPanicsInv == LifecycleInv /\ panicked = "no" /\ SinkPanics => LifecycleInv'
  <1> SUFFICES ASSUME LifecycleInv, panicked = "no", SinkPanics PROVE LifecycleInv'
    OBVIOUS
  <1>0. ValuesOK /\ PlacesOK /\ ChannelsOK /\ TokensOK
    BY Parts
  <1>1. ValuesOK'
    BY <1>0, Zenon DEF ValuesOK, SinkPanics
  <1>2. PlacesOK'
    BY <1>0 DEF PlacesOK, Closers, ClosePCs, SinkPanics
  <1>3. ChannelsOK'
    BY <1>0 DEF ChannelsOK, SinkPanics
  <1>4. TokensOK'
    BY <1>0 DEF ValuesOK, PlacesOK, ChannelsOK, TokensOK, StartOK, SinkEndOK, FlagOK,
         OneToken, ReadyOK, TokenFindsChannelOpen, SinkEndClosedOnce, TokenForEveryCloser,
         TokenSent, TokenTaken, Before, Holds, Closing, Closers, CanReceive, SinkPanics
  <1>5. QED
    BY <1>1, <1>2, <1>3, <1>4, PartsNext

-----------------------------------------------------------------------------
(* Close.                                                                  *)

LEMMA CallCloseInv == LifecycleInv /\ panicked = "no" /\ CallClose => LifecycleInv'
  <1> SUFFICES ASSUME LifecycleInv, panicked = "no", CallClose PROVE LifecycleInv'
    OBVIOUS
  <1>0. ValuesOK /\ PlacesOK /\ ChannelsOK /\ TokensOK
    BY Parts
  <1>1. ValuesOK'
    BY <1>0, Zenon DEF ValuesOK, CallClose
  <1>2. PlacesOK'
    BY <1>0 DEF PlacesOK, Closers, ClosePCs, CallClose
  <1>3. ChannelsOK'
    BY <1>0 DEF ChannelsOK, CallClose
  <1>4. TokensOK'
    BY <1>0 DEF ValuesOK, PlacesOK, ChannelsOK, TokensOK, StartOK, SinkEndOK, FlagOK,
         OneToken, ReadyOK, TokenFindsChannelOpen, SinkEndClosedOnce, TokenForEveryCloser,
         TokenSent, TokenTaken, Before, Holds, Closing, Closers, CanReceive, CallClose
  <1>5. QED
    BY <1>1, <1>2, <1>3, <1>4, PartsNext

LEMMA CloseSignalsInv == LifecycleInv /\ panicked = "no" /\ CloseSignals => LifecycleInv'
  <1> SUFFICES ASSUME LifecycleInv, panicked = "no", CloseSignals PROVE LifecycleInv'
    OBVIOUS
  <1>0. ValuesOK /\ PlacesOK /\ ChannelsOK /\ TokensOK
    BY Parts
  <1>1. ValuesOK'
    BY <1>0, Zenon DEF ValuesOK, CloseSignals
  <1>2. PlacesOK'
    BY <1>0 DEF PlacesOK, Closers, ClosePCs, CloseSignals
  <1>3. ChannelsOK'
    BY <1>0, ChannelOps DEF ChannelsOK, CloseSignals
  <1>4. TokensOK'
    BY <1>0, ChannelOps DEF ValuesOK, PlacesOK, ChannelsOK, TokensOK, StartOK, SinkEndOK,
         FlagOK, OneToken, ReadyOK, TokenFindsChannelOpen, SinkEndClosedOnce,
         TokenForEveryCloser, TokenSent, TokenTaken, Before, Holds, Closing, Closers,
         CanReceive, CloseSignals
  <1>5. QED
    BY <1>1, <1>2, <1>3, <1>4, PartsNext

LEMMA CloseHeartbeatConnInv == LifecycleInv /\ panicked = "no" /\ CloseHeartbeatConn => LifecycleInv'
  <1> SUFFICES ASSUME LifecycleInv, panicked = "no", CloseHeartbeatConn PROVE LifecycleInv'
    OBVIOUS
  <1>0. ValuesOK /\ PlacesOK /\ ChannelsOK /\ TokensOK
    BY Parts
  <1>1. ValuesOK'
    BY <1>0, Zenon DEF ValuesOK, CloseHeartbeatConn
  <1>2. PlacesOK'
    BY <1>0 DEF PlacesOK, Closers, ClosePCs, CloseHeartbeatConn
  <1>3. ChannelsOK'
    BY <1>0 DEF ChannelsOK, CloseHeartbeatConn
  <1>4. TokensOK'
    BY <1>0 DEF ValuesOK, PlacesOK, ChannelsOK, TokensOK, StartOK, SinkEndOK, FlagOK,
         OneToken, ReadyOK, TokenFindsChannelOpen, SinkEndClosedOnce, TokenForEveryCloser,
         TokenSent, TokenTaken, Before, Holds, Closing, Closers, CanReceive,
         CloseHeartbeatConn
  <1>5. QED
    BY <1>1, <1>2, <1>3, <1>4, PartsNext

-----------------------------------------------------------------------------
(* The heartbeat.                                                          *)

LEMMA HeartbeatTickInv == LifecycleInv /\ panicked = "no" /\ HeartbeatTick => LifecycleInv'
  <1> SUFFICES ASSUME LifecycleInv, panicked = "no", HeartbeatTick PROVE LifecycleInv'
    OBVIOUS
  <1>0. ValuesOK /\ PlacesOK /\ ChannelsOK /\ TokensOK
    BY Parts
  <1>1. ValuesOK'
    BY <1>0, Zenon DEF ValuesOK, HeartbeatTick
  <1>2. PlacesOK'
    BY <1>0, LifecycleBounds DEF PlacesOK, Closers, ClosePCs, HeartbeatTick
  <1>3. ChannelsOK'
    BY <1>0 DEF ChannelsOK, HeartbeatTick
  <1>4. TokensOK'
    BY <1>0 DEF ValuesOK, PlacesOK, ChannelsOK, TokensOK, StartOK, SinkEndOK, FlagOK,
         OneToken, ReadyOK, TokenFindsChannelOpen, SinkEndClosedOnce, TokenForEveryCloser,
         TokenSent, TokenTaken, Before, Holds, Closing, Closers, CanReceive, HeartbeatTick
  <1>5. QED
    BY <1>1, <1>2, <1>3, <1>4, PartsNext

LEMMA HeartbeatDoneInv == LifecycleInv /\ panicked = "no" /\ HeartbeatDone => LifecycleInv'
  <1> SUFFICES ASSUME LifecycleInv, panicked = "no", HeartbeatDone PROVE LifecycleInv'
    OBVIOUS
  <1>0. ValuesOK /\ PlacesOK /\ ChannelsOK /\ TokensOK
    BY Parts
  <1>1. ValuesOK'
    BY <1>0, Zenon DEF ValuesOK, HeartbeatDone
  <1>2. PlacesOK'
    BY <1>0 DEF PlacesOK, Closers, ClosePCs, HeartbeatDone
  <1>3. ChannelsOK'
    BY <1>0 DEF ChannelsOK, HeartbeatDone
  <1>4. TokensOK'
    BY <1>0 DEF ValuesOK, PlacesOK, ChannelsOK, TokensOK, StartOK, SinkEndOK, FlagOK,
         OneToken, ReadyOK, TokenFindsChannelOpen, SinkEndClosedOnce, TokenForEveryCloser,
         TokenSent, TokenTaken, Before, Holds, Closing, Closers, CanReceive, HeartbeatDone
  <1>5. QED
    BY <1>1, <1>2, <1>3, <1>4, PartsNext

-----------------------------------------------------------------------------
(* stream.Close, by the connector and by the sink.                         *)

LEMMA StreamCloseInv ==
  ASSUME NEW x \in Closers, LifecycleInv, panicked = "no", StreamClose(x)
  PROVE  LifecycleInv'
  <1>0. ValuesOK /\ PlacesOK /\ ChannelsOK /\ TokensOK
    BY Parts
  <1>1. ValuesOK'
    BY <1>0, Zenon DEF ValuesOK, StreamClose, CloseSinkEnd
  <1>2. PlacesOK'
    <2>1. /\ \/ UNCHANGED closePC
             \/ \E pc \in ClosePCs : closePC' = [closePC EXCEPT ![x] = pc]
          /\ conn' \in {conn, "closed"}
          /\ panicked' \in {panicked, "sinkEnd closed twice"}
          /\ UNCHANGED <<startPC, sinkPC, hbPC, waiter, traffic, inUse, heartbeats>>
      BY DEF ClosePCs, StreamClose, CloseSinkEnd
    <2>2. closePC' \in [Closers -> ClosePCs]
      BY <1>0, <2>1 DEF PlacesOK
    <2>3. QED
      BY <1>0, <2>1, <2>2 DEF PlacesOK
  <1>3. ChannelsOK'
    <2>1. /\ sinkEnd' \in {sinkEnd, AfterReceive(sinkEnd), CloseChannel(sinkEnd)}
          /\ UNCHANGED <<cancelCh, readyCh>>
      BY DEF StreamClose, CloseSinkEnd
    <2>2. AfterReceive(sinkEnd) \in Channel /\ CloseChannel(sinkEnd) \in Channel
      BY <1>0, ChannelOps DEF ChannelsOK
    <2>3. QED
      BY <1>0, <2>1, <2>2 DEF ChannelsOK
  <1>4. /\ sinkEnd.len \in 0 .. 1 /\ sinkEnd.closed \in BOOLEAN
        /\ AfterReceive(sinkEnd).len = 0 /\ AfterReceive(sinkEnd).closed = sinkEnd.closed
        /\ CloseChannel(sinkEnd).len = sinkEnd.len /\ CloseChannel(sinkEnd).closed
    BY <1>0, ChannelOps DEF ChannelsOK
  <1>5. UNCHANGED <<startPC, sinkPC, hbPC, cancelCh, readyCh, waiter, inUse>>
    BY DEF StreamClose
  <1>6. TokensOK'
    <2>1. CASE /\ closePC[x] = "store" /\ closed' = TRUE
               /\ closePC' = [closePC EXCEPT ![x] = "take"]
               /\ UNCHANGED <<sinkEnd, conn, panicked>>
      <3>1. closed'
        BY <2>1, Zenon
      <3>2. /\ (closePC["sink"] # "idle") <=> (closePC'["sink"] # "idle")
            /\ closePC'[x] \notin {"idle", "signals", "heartbeat", "store"}
        BY <1>0, <2>1 DEF PlacesOK, Closers
      <3>3. FlagOK'
        BY <1>0, <1>5, <3>1, <3>2, Zenon DEF TokensOK, FlagOK
      <3>4. (StartOK /\ SinkEndOK /\ OneToken /\ ReadyOK)'
        BY <1>0, <1>4, <1>5, <2>1 DEF PlacesOK, TokensOK, StartOK, SinkEndOK, OneToken,
             ReadyOK, TokenSent, TokenTaken, Before, Holds, Closing, Closers
      <3>5. (TokenFindsChannelOpen /\ SinkEndClosedOnce /\ TokenForEveryCloser)'
        BY <1>0, <1>4, <1>5, <2>1 DEF PlacesOK, TokensOK, OneToken, TokenFindsChannelOpen, Before,
             Holds, SinkEndClosedOnce, TokenForEveryCloser, FlagOK, Closers, CanReceive
      <3>6. QED
        BY <3>3, <3>4, <3>5 DEF TokensOK
    <2>2. CASE /\ closePC[x] = "take" /\ CanReceive(sinkEnd)
               /\ sinkEnd' = AfterReceive(sinkEnd)
               /\ closePC' = [closePC EXCEPT ![x] = "isClosed"]
               /\ UNCHANGED <<closed, conn, panicked>>
      BY <1>0, <1>4, <1>5, <2>2 DEF ValuesOK, PlacesOK, ChannelsOK, TokensOK, StartOK,
           SinkEndOK, FlagOK, OneToken, ReadyOK, TokenFindsChannelOpen, SinkEndClosedOnce,
           TokenForEveryCloser, TokenSent, TokenTaken, Before, Holds, Closing, Closers,
           CanReceive
    <2>3. CASE /\ closePC[x] = "isClosed" /\ sinkEnd' = AfterReceive(sinkEnd)
               /\ closePC' = [closePC EXCEPT ![x] = IF CanReceive(sinkEnd) THEN "conn" ELSE "close"]
               /\ UNCHANGED <<closed, conn, panicked>>
      BY <1>0, <1>4, <1>5, <2>3 DEF ValuesOK, PlacesOK, ChannelsOK, TokensOK, StartOK,
           SinkEndOK, FlagOK, OneToken, ReadyOK, TokenFindsChannelOpen, SinkEndClosedOnce,
           TokenForEveryCloser, TokenSent, TokenTaken, Before, Holds, Closing, Closers,
           CanReceive
    <2>4. CASE CloseSinkEnd(x)
      BY <1>0, <1>4, <1>5, <2>4 DEF ValuesOK, PlacesOK, ChannelsOK, TokensOK, StartOK,
           SinkEndOK, FlagOK, OneToken, ReadyOK, TokenFindsChannelOpen, SinkEndClosedOnce,
           TokenForEveryCloser, TokenSent, TokenTaken, Before, Holds, Closing, Closers,
           CanReceive, CloseSinkEnd
    <2>5. CASE /\ closePC[x] = "conn" /\ closePC' = [closePC EXCEPT ![x] = "done"]
                /\ UNCHANGED <<closed, sinkEnd, panicked>>
      BY <1>0, <1>4, <1>5, <2>5 DEF ValuesOK, PlacesOK, ChannelsOK, TokensOK, StartOK,
           SinkEndOK, FlagOK, OneToken, ReadyOK, TokenFindsChannelOpen, SinkEndClosedOnce,
           TokenForEveryCloser, TokenSent, TokenTaken, Before, Holds, Closing, Closers,
           CanReceive
    <2>6. QED
      BY <2>1, <2>2, <2>3, <2>4, <2>5 DEF StreamClose
  <1>7. QED
    BY <1>1, <1>2, <1>3, <1>6, PartsNext

-----------------------------------------------------------------------------
(* The theorems.                                                           *)

LEMMA NextInv == LifecycleInv /\ [Next]_vars => LifecycleInv'
  <1> SUFFICES ASSUME LifecycleInv, [Next]_vars PROVE LifecycleInv'
    OBVIOUS
  <1>1. ASSUME panicked = "no", StartStep PROVE LifecycleInv'
    BY <1>1, ConnectInv, OpenStreamInv, OpenFailedInv, ReadyInv, StartReturnsInv DEF StartStep
  <1>2. ASSUME panicked = "no", SinkStep PROVE LifecycleInv'
    BY <1>2, SinkStopsInv, SinkEndInv, SinkCheckInv, SinkPanicsInv, StreamCloseInv
       DEF SinkStep, Closers
  <1>3. ASSUME panicked = "no", CloseStep PROVE LifecycleInv'
    BY <1>3, CloseSignalsInv, CloseHeartbeatConnInv, StreamCloseInv DEF CloseStep, Closers
  <1>4. CASE UNCHANGED vars
    <2>1. ValuesOK /\ PlacesOK /\ ChannelsOK /\ TokensOK
      BY Parts
    <2>2. ValuesOK'
      BY <1>4, <2>1, Zenon DEF vars, ValuesOK
    <2>3. PlacesOK'
      <3>1. /\ startPC' \in {"begin", "open", "inUse", "failed", "ready", "wait", "returned"}
            /\ sinkPC' \in {"none", "receive", "end", "check", "closing", "done"}
            /\ closePC' \in [Closers -> ClosePCs]
            /\ hbPC' \in {"none", "idle", "query"}
            /\ conn' \in {"none", "open", "lost", "closed"}
        BY <1>4, <2>1 DEF vars, PlacesOK
      <3>2. /\ waiter' \in {"waiting", "ready", "cancelled"}
            /\ traffic' \in {"quiet", "steady", "stuck"}
            /\ panicked' \in {"no", "corrupted connection", "sinkEnd closed",
                             "sinkEnd closed twice", "cancelCh closed", "readyCh closed"}
            /\ inUse' \in 0 .. MaxSlotInUse
            /\ heartbeats' \in 0 .. MaxHeartbeats
        BY <1>4, <2>1 DEF vars, PlacesOK
      <3>3. QED
        BY <3>1, <3>2 DEF PlacesOK
    <2>4. ChannelsOK'
      BY <1>4, <2>1 DEF vars, ChannelsOK
    <2>5. TokensOK'
      BY <1>4, <2>1 DEF vars, TokensOK, StartOK, SinkEndOK, FlagOK, OneToken, ReadyOK,
           TokenFindsChannelOpen, SinkEndClosedOnce, TokenForEveryCloser, TokenSent, TokenTaken,
           Before, Holds, Closing, CanReceive
    <2>6. QED
      BY <2>2, <2>3, <2>4, <2>5, PartsNext
  <1>5. QED
    BY <1>1, <1>2, <1>3, <1>4, WaitUntilReadyInv, GiveUpWaitingInv, SignalInv,
       ConnectionLostInv, TrafficInv, CallCloseInv, HeartbeatTickInv, HeartbeatDoneInv
       DEF Next

\* However Start, the sink, the heartbeat and Close interleave (Open, Close and sink
\* of stream.go, Start and Close of connector.go), the inductive invariant holds.
THEOREM LifecycleInvariant == Spec => []LifecycleInv
  <1>1. QED
    BY InitInv, NextInv, PTL DEF Spec

\* Neither the sink nor a failed Open sends on a sinkEnd that stream.Close has
\* closed, unless an Open found the slot in use; Start does not send on a closed
\* readyCh, unless WaitUntilReady gave up and Close was called early.  Nothing is said
\* of cancelCh, to which a signal after Close is sent although it is closed.
THEOREM LifecycleTokenFindsChannelOpen == Spec => []TokenFindsChannelOpen
  <1>1. LifecycleInv => TokenFindsChannelOpen
    BY DEF LifecycleInv
  <1>2. QED
    BY <1>1, LifecycleInvariant, PTL

\* sinkEnd is closed once, although stream.Close asks isClosed and closes in two
\* statements and the sink and the connector both call it.
THEOREM LifecycleSinkEndClosedOnce == Spec => []SinkEndClosedOnce
  <1>1. LifecycleInv => SinkEndClosedOnce
    BY DEF LifecycleInv
  <1>2. QED
    BY <1>1, LifecycleInvariant, PTL

\* Once the sink has ended, a caller of stream.Close that waits for its token has it
\* coming: it is there, or the channel is closed, or another caller closes it next.
THEOREM LifecycleTokenForEveryCloser == Spec => []TokenForEveryCloser
  <1>1. LifecycleInv => TokenForEveryCloser
    BY DEF LifecycleInv
  <1>2. QED
    BY <1>1, LifecycleInvariant, PTL
=============================================================================
