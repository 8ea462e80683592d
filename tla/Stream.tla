------------------------------- MODULE Stream -------------------------------
(***************************************************************************)
(* The replication stream of pq/replication/stream.go: the sink goroutine  *)
(* that receives the walsender's messages and keeps one change back until  *)
(* the COMMIT tells the transaction's end LSN, the channel messageCH to    *)
(* the process goroutine, and the acknowledged position lastXLogPos that   *)
(* status updates report to the server's replication slot.                 *)
(*                                                                         *)
(* The walsender is external.  What it would send over the whole life of   *)
(* the slot is the sequence `feed'; a session started at LSN p leaves out  *)
(* the transactions that end at or before p.  A TCP connection neither     *)
(* reorders nor loses, so the sink reads the feed at a cursor.             *)
(***************************************************************************)
EXTENDS Integers, Sequences

CONSTANTS
  Feeds,       \* the feeds the server may have to send (one is chosen)
  Keys,        \* primary keys of the replicated rows
  NoKey,       \* the key field of a message that changes no row
  MessageCap   \* capacity of messageCH: 1000 in NewStream

ASSUME MessageCapAssumption == MessageCap \in Nat \ {0}

\* What message.New makes of a WAL message: a Begin, a Commit, a row change, a
\* Relation, or nothing (an unsupported byte such as TRUNCATE, or one of the
\* stream control messages of an in-progress transaction).
Tags == {"begin", "commit", "dml", "relation", "unsupported", "streamcontrol"}

\* lsn is the WALStart the message carries (0 for a Relation, which the server
\* sends without a position), end the transaction's end LSN; end = 0 marks a
\* transaction that rolled back, part of which was streamed while in progress.
WalMessage == [tag : Tags, key : Keys \cup {NoKey}, lsn : Nat, end : Nat]

ASSUME FeedsAssumption == Feeds \subseteq Seq(WalMessage)

ASSUME FeedKeyAssumption ==
  \A f \in Feeds : \A i \in DOMAIN f : f[i].tag = "dml" => f[i].key \in Keys

VARIABLES
  feed,          \* the walsender's messages (never changes)
  cursor,        \* index of the last message the sink received
  startLsn,      \* LSN the session's START_REPLICATION resolved to
  sinkPC,        \* "receive", or "send" between LoadXLogPos and the send
  statusPos,     \* position loaded for the status update in progress
  prevMessage,   \* the change kept back, or NoMessage
  messageCH,     \* channel to the process goroutine
  lastXLogPos,   \* acknowledged position, only in memory
  confirmed      \* the slot's confirmed_flush_lsn, at the server

streamVars == <<feed, cursor, startLsn, sinkPC, statusPos, prevMessage,
                messageCH, lastXLogPos, confirmed>>

\* replication.Message: a message of the feed with the WAL position its Ack
\* reports.
Message == [idx : Nat \ {0}, lsn : Nat]
NoMessage == [idx |-> 0, lsn |-> 0]

\* The transactions a session leaves out.
Skipped(m) == m.end > 0 /\ m.end <= startLsn

StreamTypeOK ==
  /\ feed \in Feeds
  /\ cursor \in 0 .. Len(feed)
  /\ startLsn \in Nat
  /\ sinkPC \in {"receive", "send"}
  /\ statusPos \in Nat
  /\ prevMessage \in Message \cup {NoMessage}
  /\ messageCH \in Seq(Message)
  /\ Len(messageCH) <= MessageCap
  /\ lastXLogPos \in Nat
  /\ confirmed \in Nat

StreamInit ==
  /\ feed \in Feeds
  /\ cursor = 0
  /\ startLsn = 0
  /\ sinkPC = "receive"
  /\ statusPos = 0
  /\ prevMessage = NoMessage
  /\ messageCH = << >>
  /\ lastXLogPos = 0
  /\ confirmed = 0

-----------------------------------------------------------------------------
(* The sink goroutine.                                                     *)

\* The next message of this session is message i of the feed.
Receive(i) ==
  /\ sinkPC = "receive"
  /\ i \in (cursor + 1) .. Len(feed)
  /\ ~ Skipped(feed[i])
  /\ \A j \in (cursor + 1) .. (i - 1) : Skipped(feed[j])
  /\ cursor' = i
  /\ UNCHANGED <<feed, startLsn, sinkPC, statusPos, lastXLogPos, confirmed>>

\* A Begin resets the state of the transaction.
SinkBegin(i) ==
  /\ Receive(i)
  /\ feed[i].tag = "begin"
  /\ prevMessage' = NoMessage
  /\ UNCHANGED messageCH

\* Mutant: the Commit forgets to clear prevMessage.
SinkCommitKeepsPrev(i) ==
  /\ Receive(i)
  /\ feed[i].tag = "commit"
  /\ IF prevMessage = NoMessage
       THEN UNCHANGED messageCH
       ELSE /\ Len(messageCH) < MessageCap
            /\ messageCH' = Append(messageCH,
                                   [idx |-> prevMessage.idx, lsn |-> feed[i].end])
  /\ UNCHANGED prevMessage

\* A Commit emits the change kept back, with the transaction's end LSN in the
\* place of its own position.
SinkCommit(i) ==
  /\ Receive(i)
  /\ feed[i].tag = "commit"
  /\ IF prevMessage = NoMessage
       THEN UNCHANGED messageCH
       ELSE /\ Len(messageCH) < MessageCap
            /\ messageCH' = Append(messageCH,
                                   [idx |-> prevMessage.idx, lsn |-> feed[i].end])
  /\ prevMessage' = NoMessage

\* Mutant: the change kept back is overwritten, not sent.
SinkChangeOverwrites(i) ==
  /\ Receive(i)
  /\ feed[i].tag \in {"dml", "relation"}
  /\ UNCHANGED messageCH
  /\ prevMessage' = [idx |-> i, lsn |-> feed[i].lsn]

\* A row change or a Relation pushes the one kept back out and takes its place.
SinkChange(i) ==
  /\ Receive(i)
  /\ feed[i].tag \in {"dml", "relation"}
  /\ IF prevMessage = NoMessage
       THEN UNCHANGED messageCH
       ELSE /\ Len(messageCH) < MessageCap
            /\ messageCH' = Append(messageCH, prevMessage)
  /\ prevMessage' = [idx |-> i, lsn |-> feed[i].lsn]

\* message.New returned an error or no message: the sink drops it.
SinkIgnore(i) ==
  /\ Receive(i)
  /\ feed[i].tag \in {"unsupported", "streamcontrol"}
  /\ UNCHANGED <<prevMessage, messageCH>>

\* Mutant: the deadline passes without a status update.
SinkTimeoutSilent ==
  /\ sinkPC = "receive"
  /\ lastXLogPos > 0
  /\ UNCHANGED streamVars

\* Nothing arrived for 300ms: report the acknowledged position, unless nothing
\* has been acknowledged yet.
SinkTimeout ==
  /\ sinkPC = "receive"
  /\ lastXLogPos > 0
  /\ sinkPC' = "send"
  /\ statusPos' = lastXLogPos
  /\ UNCHANGED <<feed, cursor, startLsn, prevMessage, messageCH, lastXLogPos,
                 confirmed>>

\* Mutant: the keepalive moves the acknowledged position to the server's WAL
\* end (the lines commented out in the code).
SinkKeepaliveAcks ==
  /\ sinkPC = "receive"
  /\ \E i \in 1 .. cursor : lastXLogPos < feed[i].end /\ lastXLogPos' = feed[i].end
  /\ sinkPC' = "send"
  /\ statusPos' = lastXLogPos'
  /\ UNCHANGED <<feed, cursor, startLsn, prevMessage, messageCH, confirmed>>

\* A keepalive that asks for a reply.  The server's WAL end it carries is where
\* the source is, not what the target has: lastXLogPos does not move.
SinkKeepalive ==
  /\ sinkPC = "receive"
  /\ sinkPC' = "send"
  /\ statusPos' = lastXLogPos
  /\ UNCHANGED <<feed, cursor, startLsn, prevMessage, messageCH, lastXLogPos,
                 confirmed>>

\* The server's side of a status update.  Position 0 is no position; a lower
\* one than the last is taken as well (servers differ: this is the weaker).
Confirm(pos) == IF pos > 0 THEN pos ELSE confirmed

\* SendStandbyStatusUpdate by the sink, of the position it loaded before.
SinkSend ==
  /\ sinkPC = "send"
  /\ sinkPC' = "receive"
  /\ statusPos' = 0
  /\ confirmed' = Confirm(statusPos)
  /\ UNCHANGED <<feed, cursor, startLsn, prevMessage, messageCH, lastXLogPos>>

SinkReceive == \E i \in DOMAIN feed :
                 SinkBegin(i) \/ SinkCommit(i) \/ SinkChange(i) \/ SinkIgnore(i)

-----------------------------------------------------------------------------
(* The Ack closure of process, and the life of the process.                *)

\* UpdateXLogPos: the position never moves back.
UpdateXLogPos(l) == lastXLogPos' = IF lastXLogPos < l THEN l ELSE lastXLogPos

\* The process dies: the stream's memory and its connection are gone.
StreamDown ==
  /\ sinkPC' = "receive"
  /\ statusPos' = 0
  /\ prevMessage' = NoMessage
  /\ messageCH' = << >>
  /\ lastXLogPos' = 0
  /\ UNCHANGED <<feed, cursor, startLsn, confirmed>>

\* Open of a new process: START_REPLICATION at lastXLogPos = 0, which the
\* server takes as confirmed_flush_lsn.
Open ==
  /\ cursor' = 0
  /\ startLsn' = confirmed
  /\ UNCHANGED <<feed, sinkPC, statusPos, prevMessage, messageCH, lastXLogPos,
                 confirmed>>
=============================================================================
