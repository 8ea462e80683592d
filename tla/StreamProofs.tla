---------------------------- MODULE StreamProofs ----------------------------
(***************************************************************************)
(* What the replication stream does to the messages on it, for every set   *)
(* of commit-ordered feeds: the facts the proofs of both sinks rest on.    *)
(***************************************************************************)
EXTENDS CommitOrder, TLAPS

-----------------------------------------------------------------------------
(* Channels.                                                               *)

\* The fields of a message on a channel are natural numbers.
LEMMA MessageType ==
  ASSUME NEW m \in Message
  PROVE  m.idx \in Nat /\ m.idx > 0 /\ m.lsn \in Nat
BY DEF Message

\* A nil prevMessage is no message.
LEMMA NoMessageType == NoMessage \notin Message
BY DEF Message, NoMessage

\* A send on a channel that is not full keeps the channel within its capacity.
LEMMA AppendType ==
  ASSUME NEW S, NEW s \in Seq(S), NEW e \in S, NEW cap \in Nat, Len(s) < cap
  PROVE  Append(s, e) \in Seq(S) /\ Len(Append(s, e)) <= cap
OBVIOUS

\* After a send the channel holds what it held, and the new message.
LEMMA AppendElement ==
  ASSUME NEW S, NEW s \in Seq(S), NEW e \in S
  PROVE  \A n \in DOMAIN Append(s, e) :
           Append(s, e)[n] = e \/ (n \in DOMAIN s /\ Append(s, e)[n] = s[n])
<1>1. /\ Len(s) \in Nat
      /\ \A n \in 1 .. Len(s) : Append(s, e)[n] = s[n]
      /\ Append(s, e)[Len(s) + 1] = e
      /\ DOMAIN Append(s, e) = 1 .. (Len(s) + 1) /\ DOMAIN s = 1 .. Len(s)
  OBVIOUS
<1> QED BY <1>1

\* The feed indices on a channel after a send.
LEMMA IdxAppend ==
  ASSUME NEW S, NEW s \in Seq(S), NEW e \in S
  PROVE  Idx(Append(s, e)) = Idx(s) \cup {e.idx}
<1> DEFINE t == Append(s, e)
<1>1. /\ t \in Seq(S) /\ Len(t) = Len(s) + 1 /\ Len(s) \in Nat
      /\ \A n \in 1 .. Len(s) : t[n] = s[n]
      /\ t[Len(s) + 1] = e
  OBVIOUS
<1>2. DOMAIN t = 1 .. (Len(s) + 1) /\ DOMAIN s = 1 .. Len(s)
  BY <1>1
<1> HIDE DEF t
<1>3. DOMAIN t = DOMAIN s \cup {Len(s) + 1}
  BY <1>1, <1>2
<1> QED BY <1>1, <1>2, <1>3 DEF Idx

\* A receive takes the first message and leaves the others in their order.
LEMMA TailElement ==
  ASSUME NEW S, NEW s \in Seq(S), s # << >>
  PROVE  /\ Head(s) \in S /\ 1 \in DOMAIN s /\ Head(s) = s[1]
         /\ Tail(s) \in Seq(S) /\ Len(Tail(s)) = Len(s) - 1
         /\ \A n \in DOMAIN Tail(s) : n + 1 \in DOMAIN s /\ Tail(s)[n] = s[n + 1]
OBVIOUS

\* The feed indices on a channel after a receive.
LEMMA IdxTail ==
  ASSUME NEW S, NEW s \in Seq(S), s # << >>
  PROVE  /\ Idx(s) = Idx(Tail(s)) \cup {Head(s).idx}
         /\ Head(s) \in S
         /\ Tail(s) \in Seq(S)
         /\ Len(Tail(s)) = Len(s) - 1
<1> DEFINE t == Tail(s)
<1>1. /\ t \in Seq(S) /\ Len(t) = Len(s) - 1
      /\ \A n \in 1 .. Len(t) : t[n] = s[n + 1]
      /\ Head(s) = s[1] /\ 1 \in 1 .. Len(s) /\ Head(s) \in S
  OBVIOUS
<1>2. DOMAIN t = 1 .. Len(t) /\ DOMAIN s = 1 .. Len(s) /\ Len(s) \in Nat /\ Len(t) \in Nat
  BY <1>1
<1> HIDE DEF t
<1>3. \A n \in DOMAIN s : n # 1 => n - 1 \in DOMAIN t /\ s[n] = t[n - 1]
  BY <1>1, <1>2
<1>4. \A n \in DOMAIN t : n + 1 \in DOMAIN s /\ t[n] = s[n + 1]
  BY <1>1, <1>2
<1>5. Idx(s) \subseteq Idx(t) \cup {Head(s).idx}
  BY <1>1, <1>3 DEF Idx
<1>6. Idx(t) \cup {Head(s).idx} \subseteq Idx(s)
  BY <1>1, <1>2, <1>4 DEF Idx
<1> QED BY <1>1, <1>5, <1>6 DEF t

\* A send of a later message keeps a channel in feed order.
LEMMA SortedAppend ==
  ASSUME NEW S, NEW s \in Seq(S), NEW e \in S, Sorted(s),
         \A p \in Idx(s) : p < e.idx
  PROVE  Sorted(Append(s, e))
<1> DEFINE t == Append(s, e)
<1>1. /\ Len(s) \in Nat
      /\ \A n \in 1 .. Len(s) : t[n] = s[n]
      /\ t[Len(s) + 1] = e
      /\ DOMAIN t = 1 .. (Len(s) + 1) /\ DOMAIN s = 1 .. Len(s)
  OBVIOUS
<1> HIDE DEF t
<1>2. \A n \in DOMAIN s : s[n].idx < e.idx
  BY DEF Idx
<1>3. Sorted(t)
  BY <1>1, <1>2 DEF Sorted
<1> QED BY <1>3 DEF t

\* A receive keeps a channel in feed order, and takes the earliest message.
LEMMA SortedTail ==
  ASSUME NEW S, NEW s \in Seq(S), s # << >>, Sorted(s)
  PROVE  /\ Sorted(Tail(s))
         /\ \A p \in Idx(Tail(s)) : Head(s).idx < p
<1> DEFINE t == Tail(s)
<1>1. /\ Len(s) \in Nat /\ Len(s) > 0 /\ DOMAIN s = 1 .. Len(s)
      /\ DOMAIN t = 1 .. (Len(s) - 1)
      /\ \A n \in 1 .. (Len(s) - 1) : t[n] = s[n + 1]
      /\ Head(s) = s[1]
  OBVIOUS
<1> HIDE DEF t
<1>2. Sorted(t)
  BY <1>1 DEF Sorted
<1>3. \A n \in DOMAIN t : Head(s).idx < t[n].idx
  BY <1>1 DEF Sorted
<1> QED BY <1>2, <1>3 DEF t, Idx

\* An empty channel is in order and has no messages.
LEMMA EmptySeq ==
  /\ \A S : << >> \in Seq(S)
  /\ Len(<< >>) = 0 /\ DOMAIN << >> = {}
  /\ Idx(<< >>) = {} /\ Sorted(<< >>)
BY DEF Idx, Sorted

-----------------------------------------------------------------------------
(* The feed.                                                               *)

\* What the assumptions say of the feed that was chosen.
LEMMA FeedType ==
  ASSUME StreamTypeOK
  PROVE  /\ feed \in Seq(WalMessage)
         /\ CommitOrdered(feed)
         /\ \A i \in DOMAIN feed : feed[i].tag = "dml" => feed[i].key \in Keys
         /\ DOMAIN feed = 1 .. Len(feed) /\ Len(feed) \in Nat
         /\ cursor \in Nat /\ 1 .. cursor \subseteq DOMAIN feed
<1>1. /\ feed \in Seq(WalMessage)
      /\ CommitOrdered(feed)
      /\ \A i \in DOMAIN feed : feed[i].tag = "dml" => feed[i].key \in Keys
  BY FeedsAssumption, CommitOrderedAssumption, FeedKeyAssumption DEF StreamTypeOK
<1>2. DOMAIN feed = 1 .. Len(feed) /\ Len(feed) \in Nat
  BY <1>1
<1>3. cursor \in Nat /\ 1 .. cursor \subseteq DOMAIN feed
  BY <1>2 DEF StreamTypeOK
<1> QED BY <1>1, <1>2, <1>3

\* The fields of a message of the feed, and the message the sink makes of it.
LEMMA FeedElement ==
  ASSUME StreamTypeOK, NEW i \in DOMAIN feed
  PROVE  /\ i \in Nat /\ i > 0 /\ i <= Len(feed) /\ Len(feed) \in Nat
         /\ feed[i].lsn \in Nat /\ feed[i].end \in Nat /\ feed[i].tag \in Tags
         /\ [idx |-> i, lsn |-> feed[i].lsn] \in Message
<1>1. feed \in Seq(WalMessage)
  BY FeedType
<1>2. feed[i] \in WalMessage /\ i \in 1 .. Len(feed) /\ Len(feed) \in Nat
  BY <1>1
<1> QED BY <1>2 DEF WalMessage, Message

\* Feed order and end LSNs agree, so a session leaves out a prefix of the feed.
LEMMA Ordered ==
  ASSUME StreamTypeOK, NEW i \in DOMAIN feed, NEW j \in DOMAIN feed
  PROVE  /\ feed[i].end < feed[j].end => i < j
         /\ Skipped(feed[i]) /\ ~ Skipped(feed[j]) => i < j
<1>1. /\ i \in Nat /\ j \in Nat /\ feed[i].end \in Nat /\ feed[j].end \in Nat
      /\ startLsn \in Nat
  BY FeedElement DEF StreamTypeOK
<1>2. /\ j < i => feed[j].end <= feed[i].end
      /\ feed[i].end > 0 /\ feed[j].end > 0
  BY FeedType DEF CommitOrdered
<1> QED BY <1>1, <1>2 DEF Skipped

-----------------------------------------------------------------------------
(* Messages on the stream.                                                 *)

\* A message stays received, and safe to acknowledge, while the session goes on.
LEMMA MessageKept ==
  ASSUME StreamTypeOK, feed' = feed, startLsn' = startLsn, cursor' \in Nat,
         cursor <= cursor', NEW m, MessageOK(m)
  PROVE  MessageOK(m)'
<1>1. cursor \in Nat
  BY FeedType
<1> QED BY <1>1 DEF MessageOK, Received, LsnSafe, Skipped

\* The change kept back by the sink can be acknowledged with its own position.
LEMMA PrevFacts ==
  ASSUME StreamTypeOK, PrevOK, prevMessage # NoMessage
  PROVE  /\ prevMessage \in Message
         /\ prevMessage.idx \in DOMAIN feed /\ prevMessage.idx \in Nat
         /\ prevMessage.idx <= cursor
         /\ MessageOK(prevMessage)
<1>1. prevMessage \in Message
  BY DEF StreamTypeOK
<1>2. /\ prevMessage.idx \in DOMAIN feed /\ prevMessage.idx \in Nat
      /\ prevMessage.idx <= cursor
  BY FeedType DEF PrevOK, Received
<1>3. /\ feed[prevMessage.idx].lsn < feed[prevMessage.idx].end
      /\ prevMessage.lsn = feed[prevMessage.idx].lsn
  BY <1>2, FeedType DEF PrevOK, CommitOrdered
<1>4. ASSUME NEW j \in DOMAIN feed, feed[j].end <= prevMessage.lsn
      PROVE  j <= prevMessage.idx
  <2>0. /\ feed[j].end \in Nat
        /\ feed[prevMessage.idx].lsn \in Nat /\ feed[prevMessage.idx].end \in Nat
    BY <1>2, FeedElement
  <2>1. feed[j].end < feed[prevMessage.idx].end
    BY <1>3, <1>4, <2>0
  <2> QED BY <1>2, <1>4, <2>1, Ordered, FeedElement
<1>5. LsnSafe(prevMessage)
  BY <1>4 DEF LsnSafe
<1> QED BY <1>1, <1>2, <1>5 DEF PrevOK, MessageOK

\* What is on the stream was received in this session.
LEMMA InStreamReceived ==
  ASSUME StreamTypeOK, StreamOK, NEW p \in InStream
  PROVE  /\ p \in DOMAIN feed /\ p \in Nat /\ p <= cursor
         /\ ~ Skipped(feed[p]) /\ feed[p].tag \in {"dml", "relation"}
<1>1. PICK m : p = m.idx /\ Received(m)
  BY DEF InStream, PrevIdx, Idx, StreamOK, MessageOK, PrevOK
<1> QED BY <1>1, FeedType DEF Received

\* The message with which a Commit replaces the change kept back covers the whole
\* transaction, and nothing after it.
LEMMA CommitMessage ==
  ASSUME StreamTypeOK, PrevOK, prevMessage # NoMessage,
         NEW i \in DOMAIN feed, Receive(i), feed[i].tag = "commit",
         NEW m, m = [idx |-> prevMessage.idx, lsn |-> feed[i].end]
  PROVE  m \in Message /\ m.idx = prevMessage.idx /\ MessageOK(m)
<1>1. /\ prevMessage \in Message /\ prevMessage.idx \in DOMAIN feed /\ prevMessage.idx \in Nat
      /\ Received(prevMessage)
  BY PrevFacts DEF MessageOK
<1>2. /\ i \in Nat /\ cursor \in Nat /\ feed[i].end \in Nat
      /\ \A j \in DOMAIN feed : j \in Nat /\ feed[j].end \in Nat
  BY FeedElement, FeedType
<1>3. \A j \in DOMAIN feed : j > cursor /\ j < i => Skipped(feed[j])
  BY <1>2 DEF Receive
<1>4. m \in Message /\ m.idx = prevMessage.idx /\ m.lsn = feed[i].end
  BY <1>1, <1>2 DEF Message
<1>5. Received(m)
  BY <1>1, <1>4 DEF Received
<1>6. ASSUME NEW j \in DOMAIN feed, feed[j].tag = "dml", feed[j].end <= feed[i].end
      PROVE  j <= prevMessage.idx
  <2>1. ~ (i < j)
    BY <1>2, <1>6, FeedType DEF CommitOrdered
  <2>2. j # i
    BY <1>6
  <2>3. CASE Skipped(feed[j])
    <3>1. ~ Skipped(feed[prevMessage.idx])
      BY <1>1 DEF Received
    <3> QED BY <1>1, <1>2, <2>3, <3>1, Ordered
  <2>4. CASE ~ Skipped(feed[j])
    <3>1. j <= cursor
      BY <1>2, <1>3, <2>1, <2>2, <2>4
    <3>2. j \notin (prevMessage.idx + 1) .. cursor
      BY <1>6, <2>4 DEF PrevOK
    <3> QED BY <1>1, <1>2, <3>1, <3>2
  <2> QED BY <2>3, <2>4
<1>7. LsnSafe(m)
  BY <1>4, <1>6 DEF LsnSafe
<1> QED BY <1>4, <1>5, <1>7 DEF MessageOK

\* A Begin finds nothing kept back: the transaction before it was committed.
LEMMA BeginFindsNothing ==
  ASSUME StreamTypeOK, PrevOK, NEW i \in DOMAIN feed, SinkBegin(i)
  PROVE  prevMessage = NoMessage
<1>1. Receive(i) /\ feed[i].tag = "begin"
  BY DEF SinkBegin
<1>2. /\ i \in Nat /\ cursor \in Nat /\ \A j \in DOMAIN feed : j \in Nat
      /\ cursor < i
  BY <1>1, FeedElement, FeedType DEF Receive
<1>3. \A j \in DOMAIN feed : j > cursor /\ j < i => Skipped(feed[j])
  BY <1>1, <1>2 DEF Receive
<1> SUFFICES ASSUME prevMessage # NoMessage PROVE FALSE
  OBVIOUS
<1> DEFINE p == prevMessage.idx
<1>4. p \in DOMAIN feed /\ p \in Nat /\ p <= cursor
      /\ feed[p].tag \in {"dml", "relation"} /\ ~ Skipped(feed[p])
  BY PrevFacts DEF MessageOK, Received
<1> HIDE DEF p
<1>5. PICK c \in (p + 1) .. (i - 1) : feed[c].tag = "commit" /\ feed[c].end = feed[p].end
  <2>1. p < i
    BY <1>2, <1>4
  <2>2. CommitOrdered(feed)
    BY FeedType
  <2> QED BY <1>1, <1>4, <2>1, <2>2 DEF CommitOrdered
<1>6. c \in DOMAIN feed /\ c \in Nat
  BY <1>2, <1>4, FeedType, FeedElement
<1>7. ~ Skipped(feed[c])
  BY <1>4, <1>5 DEF Skipped
<1>8. c < i /\ p < c
  BY <1>2, <1>4, <1>5, <1>6
<1>9. c \in (p + 1) .. cursor
  BY <1>2, <1>3, <1>4, <1>6, <1>7, <1>8
<1> QED BY <1>5, <1>7, <1>9 DEF PrevOK, p

-----------------------------------------------------------------------------
(* The steps of the stream.                                                *)

\* What every message received by the sink has in common.
LEMMA ReceiveFacts ==
  ASSUME StreamTypeOK, NEW i \in DOMAIN feed, Receive(i)
  PROVE  /\ cursor' = i /\ i \in Nat /\ cursor \in Nat /\ cursor < i
         /\ feed' = feed /\ startLsn' = startLsn /\ lastXLogPos' = lastXLogPos
         /\ confirmed' = confirmed /\ statusPos' = statusPos
         /\ ~ Skipped(feed[i])
         /\ \A j \in DOMAIN feed : j \in Nat
         /\ \A j \in DOMAIN feed : j > cursor /\ j < i => Skipped(feed[j])
<1>1. i \in Nat /\ cursor \in Nat /\ \A j \in DOMAIN feed : j \in Nat
  BY FeedElement, FeedType
<1> QED BY <1>1 DEF Receive

\* A message that leaves what the sink keeps and the channel as they were.
LEMMA QuietReceive ==
  ASSUME StreamTypeOK, StreamOK, NEW i \in DOMAIN feed, Receive(i),
         feed[i].tag \in {"begin", "unsupported", "streamcontrol"},
         UNCHANGED <<prevMessage, messageCH>>
  PROVE  StreamOK' /\ InStream' = InStream
<1>1. /\ cursor' = i /\ i \in Nat /\ cursor \in Nat /\ cursor < i
      /\ feed' = feed /\ startLsn' = startLsn
      /\ \A j \in DOMAIN feed : j \in Nat
      /\ \A j \in DOMAIN feed : j > cursor /\ j < i => Skipped(feed[j])
  BY ReceiveFacts
<1>2. \A m : MessageOK(m) => MessageOK(m)'
  BY <1>1, MessageKept
<1>3. PrevOK'
  <2> SUFFICES ASSUME prevMessage # NoMessage
               PROVE  /\ Received(prevMessage)'
                      /\ prevMessage.lsn = feed[prevMessage.idx].lsn
                      /\ \A j \in (prevMessage.idx + 1) .. i :
                           ~ Skipped(feed[j]) => feed[j].tag \notin {"dml", "relation", "commit"}
    BY <1>1 DEF PrevOK, Skipped, NoMessage
  <2>1. /\ Received(prevMessage) /\ prevMessage.lsn = feed[prevMessage.idx].lsn
        /\ prevMessage.idx \in Nat
    BY PrevFacts DEF StreamOK, PrevOK
  <2>2. Received(prevMessage)'
    BY <1>1, <2>1 DEF Received, Skipped
  <2>3. ASSUME NEW j \in (prevMessage.idx + 1) .. i, ~ Skipped(feed[j])
        PROVE  feed[j].tag \notin {"dml", "relation", "commit"}
    <3>1. j \in DOMAIN feed /\ j \in Nat /\ j <= i
      BY <1>1, <2>1, FeedType
    <3>2. CASE j <= cursor
      BY <1>1, <2>1, <2>3, <3>1, <3>2 DEF PrevOK, StreamOK
    <3> QED BY <1>1, <2>3, <3>1, <3>2
  <2> QED BY <2>1, <2>2, <2>3
<1>4. \A n \in DOMAIN messageCH' : MessageOK(messageCH[n])'
  <2>1. \A n \in DOMAIN messageCH : MessageOK(messageCH[n])'
    BY <1>2 DEF StreamOK, MessageOK, Received, LsnSafe, Skipped
  <2> QED BY <2>1 DEF MessageOK, Received, LsnSafe, Skipped
<1>5. Sorted(messageCH)' /\ Idx(messageCH)' = Idx(messageCH) /\ PrevIdx' = PrevIdx
  BY DEF StreamOK, Sorted, Idx, PrevIdx
<1> QED BY <1>3, <1>4, <1>5 DEF StreamOK, InStream, Before

\* The sink sends message m in the place of the change kept back.
LEMMA PushOut ==
  ASSUME StreamTypeOK, StreamOK, NEW i \in DOMAIN feed, Receive(i),
         IF prevMessage = NoMessage
           THEN UNCHANGED messageCH
           ELSE \E m \in Message : /\ m.idx = prevMessage.idx /\ MessageOK(m)
                                   /\ messageCH' = Append(messageCH, m)
  PROVE  /\ \A n \in DOMAIN messageCH' : MessageOK(messageCH[n])'
         /\ Sorted(messageCH)' /\ Idx(messageCH)' = InStream
<1>1. /\ cursor' = i /\ i \in Nat /\ cursor \in Nat /\ cursor < i
      /\ feed' = feed /\ startLsn' = startLsn
  BY ReceiveFacts
<1>2. \A m : MessageOK(m) => MessageOK(m)'
  BY <1>1, MessageKept
<1>3. ASSUME \A n \in DOMAIN messageCH' : MessageOK(messageCH'[n])
      PROVE  \A n \in DOMAIN messageCH' : MessageOK(messageCH[n])'
  BY <1>1, <1>2, <1>3 DEF MessageOK, Received, LsnSafe, Skipped
<1>4. CASE prevMessage = NoMessage
  BY <1>3, <1>4 DEF StreamOK, Sorted, Idx, InStream, PrevIdx
<1>5. CASE prevMessage # NoMessage
  <2>1. PICK m \in Message : /\ m.idx = prevMessage.idx /\ MessageOK(m)
                             /\ messageCH' = Append(messageCH, m)
    BY <1>5
  <2>2. messageCH \in Seq(Message)
    BY DEF StreamTypeOK
  <2>3. \A n \in DOMAIN Append(messageCH, m) :
          \/ Append(messageCH, m)[n] = m
          \/ n \in DOMAIN messageCH /\ Append(messageCH, m)[n] = messageCH[n]
    BY <2>2, AppendElement
  <2>4. \A n \in DOMAIN messageCH' : MessageOK(messageCH'[n])
    BY <2>1, <2>3 DEF StreamOK
  <2>5. Sorted(Append(messageCH, m))
    <3>1. \A p \in Idx(messageCH) : p < m.idx
      BY <1>5, <2>1 DEF StreamOK, Before, PrevIdx
    <3> QED BY <2>2, <3>1, SortedAppend DEF StreamOK
  <2>6. Idx(Append(messageCH, m)) = InStream
    BY <1>5, <2>1, <2>2, IdxAppend DEF InStream, PrevIdx
  <2> QED BY <1>3, <2>1, <2>4, <2>5, <2>6 DEF Sorted, Idx
<1> QED BY <1>4, <1>5

\* Every step of the sink goroutine keeps the types.
LEMMA SinkType ==
  ASSUME StreamTypeOK, SinkReceive \/ SinkTimeout \/ SinkKeepalive \/ SinkSend
  PROVE  StreamTypeOK'
<1>1. CASE SinkReceive
  <2> PICK i \in DOMAIN feed :
         SinkBegin(i) \/ SinkCommit(i) \/ SinkChange(i) \/ SinkIgnore(i)
    BY <1>1 DEF SinkReceive
  <2>1. /\ i \in 0 .. Len(feed) /\ feed[i].end \in Nat
        /\ [idx |-> i, lsn |-> feed[i].lsn] \in Message
    BY FeedElement
  <2>2. CASE SinkBegin(i) \/ SinkIgnore(i)
    BY <2>1, <2>2 DEF SinkBegin, SinkIgnore, Receive, StreamTypeOK
  <2>3. CASE SinkCommit(i)
    <3>1. prevMessage # NoMessage => [idx |-> prevMessage.idx, lsn |-> feed[i].end] \in Message
      BY <2>1 DEF StreamTypeOK, Message
    <3>2. messageCH' \in Seq(Message) /\ Len(messageCH') <= MessageCap
      BY <2>3, <3>1, AppendType, MessageCapAssumption DEF SinkCommit, StreamTypeOK
    <3> QED BY <2>1, <2>3, <3>2 DEF SinkCommit, Receive, StreamTypeOK
  <2>4. CASE SinkChange(i)
    <3>1. prevMessage # NoMessage => prevMessage \in Message
      BY DEF StreamTypeOK
    <3>2. messageCH' \in Seq(Message) /\ Len(messageCH') <= MessageCap
      BY <2>4, <3>1, AppendType, MessageCapAssumption DEF SinkChange, StreamTypeOK
    <3>3. prevMessage' \in Message
      BY <2>1, <2>4 DEF SinkChange
    <3> QED BY <2>1, <2>4, <3>2, <3>3 DEF SinkChange, Receive, StreamTypeOK
  <2> QED BY <2>2, <2>3, <2>4
<1>2. CASE SinkTimeout \/ SinkKeepalive
  BY <1>2 DEF SinkTimeout, SinkKeepalive, StreamTypeOK
<1>3. CASE SinkSend
  BY <1>3 DEF SinkSend, Confirm, StreamTypeOK
<1> QED BY <1>1, <1>2, <1>3

\* The stream of a process that dies, or of one that starts, is well typed.
LEMMA ProcessType ==
  ASSUME StreamTypeOK, StreamDown \/ Open
  PROVE  StreamTypeOK'
<1>1. CASE StreamDown
  BY <1>1, MessageCapAssumption, EmptySeq DEF StreamDown, StreamTypeOK
<1>2. CASE Open
  BY <1>2, FeedType DEF Open, StreamTypeOK
<1> QED BY <1>1, <1>2

\* A message received keeps the stream in order; a row change stays on it, and
\* nothing from before the cursor joins or leaves it.
LEMMA ReceiveInv ==
  ASSUME StreamTypeOK, StreamOK, StreamTypeOK', SinkReceive
  PROVE  /\ StreamOK'
         /\ feed' = feed /\ startLsn' = startLsn /\ lastXLogPos' = lastXLogPos
         /\ confirmed' = confirmed /\ statusPos' = statusPos
         /\ cursor \in Nat /\ cursor' \in DOMAIN feed /\ cursor' \in Nat /\ cursor < cursor'
         /\ InStream \subseteq InStream'
         /\ \A p \in InStream' :
              p \in InStream \/ (p \in DOMAIN feed /\ p > cursor /\ ~ Skipped(feed[p]))
         /\ \A j \in DOMAIN feed : feed[j].tag = "dml" /\ j > cursor /\ j <= cursor' =>
              j \in InStream' \/ Skipped(feed[j])
<1>a. PICK i \in DOMAIN feed :
         SinkBegin(i) \/ SinkCommit(i) \/ SinkChange(i) \/ SinkIgnore(i)
  BY DEF SinkReceive
<1>b. Receive(i)
  BY <1>a DEF SinkBegin, SinkCommit, SinkChange, SinkIgnore
<1>c. /\ cursor' = i /\ i \in Nat /\ cursor \in Nat /\ cursor < i
      /\ feed' = feed /\ startLsn' = startLsn /\ lastXLogPos' = lastXLogPos
      /\ confirmed' = confirmed /\ statusPos' = statusPos
      /\ ~ Skipped(feed[i])
      /\ \A j \in DOMAIN feed : j \in Nat
      /\ \A j \in DOMAIN feed : j > cursor /\ j < i => Skipped(feed[j])
  BY <1>b, ReceiveFacts
<1>d. PrevOK
  BY DEF StreamOK
<1>1. CASE SinkBegin(i) \/ SinkIgnore(i)
  <2>1. UNCHANGED <<prevMessage, messageCH>>
    BY <1>1, <1>d, BeginFindsNothing DEF SinkBegin, SinkIgnore
  <2>2. feed[i].tag \in {"begin", "unsupported", "streamcontrol"}
    BY <1>1 DEF SinkBegin, SinkIgnore
  <2>3. StreamOK' /\ InStream' = InStream
    BY <1>b, <2>1, <2>2, QuietReceive
  <2>4. \A j \in DOMAIN feed : feed[j].tag = "dml" /\ j > cursor /\ j <= cursor' => Skipped(feed[j])
    BY <1>c, <2>2
  <2> QED BY <1>c, <2>3, <2>4
<1>2. CASE SinkCommit(i)
  <2>1. feed[i].tag = "commit" /\ prevMessage' = NoMessage
    BY <1>2 DEF SinkCommit
  <2>2. IF prevMessage = NoMessage
          THEN UNCHANGED messageCH
          ELSE \E m \in Message : /\ m.idx = prevMessage.idx /\ MessageOK(m)
                                  /\ messageCH' = Append(messageCH, m)
    <3>1. CASE prevMessage = NoMessage
      BY <1>2, <3>1 DEF SinkCommit
    <3>2. CASE prevMessage # NoMessage
      <4> DEFINE m == [idx |-> prevMessage.idx, lsn |-> feed[i].end]
      <4>1. m \in Message /\ m.idx = prevMessage.idx /\ MessageOK(m)
        BY <1>b, <1>d, <2>1, <3>2, CommitMessage
      <4>2. messageCH' = Append(messageCH, m)
        BY <1>2, <3>2 DEF SinkCommit
      <4> HIDE DEF m
      <4> QED BY <3>2, <4>1, <4>2
    <3> QED BY <3>1, <3>2
  <2>3. /\ \A n \in DOMAIN messageCH' : MessageOK(messageCH[n])'
        /\ Sorted(messageCH)' /\ Idx(messageCH)' = InStream
    BY <1>b, <2>2, PushOut
  <2>4. PrevIdx' = {} /\ PrevOK'
    BY <2>1 DEF PrevIdx, PrevOK, NoMessage
  <2>5. StreamOK' /\ InStream' = InStream
    BY <2>3, <2>4 DEF StreamOK, InStream, Before
  <2>6. \A j \in DOMAIN feed : feed[j].tag = "dml" /\ j > cursor /\ j <= cursor' => Skipped(feed[j])
    BY <1>c, <2>1
  <2> QED BY <1>c, <2>5, <2>6
<1>3. CASE SinkChange(i)
  <2>1. feed[i].tag \in {"dml", "relation"} /\ prevMessage' = [idx |-> i, lsn |-> feed[i].lsn]
    BY <1>3 DEF SinkChange
  <2>2. IF prevMessage = NoMessage
          THEN UNCHANGED messageCH
          ELSE \E m \in Message : /\ m.idx = prevMessage.idx /\ MessageOK(m)
                                  /\ messageCH' = Append(messageCH, m)
    <3>1. CASE prevMessage = NoMessage
      BY <1>3, <3>1 DEF SinkChange
    <3>2. CASE prevMessage # NoMessage
      <4>1. messageCH' = Append(messageCH, prevMessage)
        BY <1>3, <3>2 DEF SinkChange
      <4>2. prevMessage \in Message /\ MessageOK(prevMessage)
        BY <1>d, <3>2, PrevFacts
      <4> QED BY <3>2, <4>1, <4>2
    <3> QED BY <3>1, <3>2
  <2>3. /\ \A n \in DOMAIN messageCH' : MessageOK(messageCH[n])'
        /\ Sorted(messageCH)' /\ Idx(messageCH)' = InStream
    BY <1>b, <2>2, PushOut
  <2>4. PrevIdx' = {i} /\ prevMessage'.idx = i /\ prevMessage'.lsn = feed[i].lsn
        /\ prevMessage' # NoMessage
    BY <1>c, <2>1 DEF PrevIdx, NoMessage
  <2>5. PrevOK'
    <3>1. Received(prevMessage)'
      BY <1>c, <2>1, <2>4, FeedElement DEF Received, Skipped
    <3>2. (prevMessage'.idx + 1) .. cursor' = {}
      BY <1>c, <2>4
    <3> QED BY <1>c, <2>4, <3>1, <3>2 DEF PrevOK
  <2>6. Before(InStream, {i})
    BY <1>c, InStreamReceived DEF Before
  <2>7. StreamOK' /\ InStream' = InStream \cup {i}
    BY <2>3, <2>4, <2>5, <2>6 DEF StreamOK, InStream, Before
  <2>8. \A j \in DOMAIN feed : j > cursor /\ j <= cursor' => j = i \/ Skipped(feed[j])
    BY <1>c
  <2> QED BY <1>c, <2>7, <2>8
<1> QED BY <1>a, <1>1, <1>2, <1>3

\* The sink of the messages takes one off the channel: the earliest.
LEMMA TakeInv ==
  ASSUME StreamTypeOK, StreamOK, messageCH # << >>, messageCH' = Tail(messageCH),
         UNCHANGED <<feed, cursor, startLsn, prevMessage>>
  PROVE  /\ StreamOK'
         /\ Head(messageCH) \in Message /\ MessageOK(Head(messageCH))
         /\ InStream = InStream' \cup {Head(messageCH).idx}
         /\ Before({Head(messageCH).idx}, InStream')
<1> DEFINE m == Head(messageCH)
<1>1. messageCH \in Seq(Message)
  BY DEF StreamTypeOK
<1>2. /\ m \in Message /\ 1 \in DOMAIN messageCH /\ m = messageCH[1]
      /\ Tail(messageCH) \in Seq(Message)
      /\ \A n \in DOMAIN Tail(messageCH) :
           n + 1 \in DOMAIN messageCH /\ Tail(messageCH)[n] = messageCH[n + 1]
  BY <1>1, TailElement
<1>3. Idx(messageCH) = Idx(Tail(messageCH)) \cup {m.idx}
  BY <1>1, IdxTail
<1>4. Sorted(Tail(messageCH)) /\ \A p \in Idx(Tail(messageCH)) : m.idx < p
  BY <1>1, SortedTail DEF StreamOK
<1> HIDE DEF m
<1>5. MessageOK(m)
  BY <1>2 DEF StreamOK
<1>6. \A n \in DOMAIN messageCH' : MessageOK(messageCH[n])'
  BY <1>2 DEF StreamOK, MessageOK, Received, LsnSafe, Skipped
<1>7. Idx(messageCH)' = Idx(Tail(messageCH)) /\ PrevIdx' = PrevIdx /\ Sorted(messageCH)'
  BY <1>4 DEF Idx, PrevIdx, Sorted
<1>8. PrevOK'
  BY DEF StreamOK, PrevOK, Received, Skipped, NoMessage
<1>9. StreamOK'
  BY <1>3, <1>6, <1>7, <1>8 DEF StreamOK, Before
<1> QED BY <1>2, <1>3, <1>4, <1>5, <1>7, <1>9 DEF m, StreamOK, InStream, Before

\* A step that leaves the messages on the stream alone leaves StreamOK alone.
LEMMA StreamKept ==
  ASSUME StreamOK, UNCHANGED <<feed, cursor, startLsn, prevMessage, messageCH>>
  PROVE  StreamOK' /\ InStream' = InStream
BY DEF StreamOK, MessageOK, Received, LsnSafe, Skipped, PrevOK, NoMessage, Sorted, Before,
       Idx, PrevIdx, InStream

\* A stream without messages is in order.
LEMMA EmptyStream ==
  ASSUME prevMessage = NoMessage, messageCH = << >>
  PROVE  StreamOK /\ InStream = {}
<1>1. PrevIdx = {} /\ Idx(messageCH) = {} /\ DOMAIN messageCH = {}
  BY EmptySeq DEF PrevIdx
<1> QED BY <1>1 DEF StreamOK, InStream, Sorted, Before, PrevOK
=============================================================================
