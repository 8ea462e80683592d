---------------------------- MODULE CommitOrder -----------------------------
(***************************************************************************)
(* Stream with a server that sends whole transactions in commit order (no  *)
(* transaction is streamed while in progress), and what is then true of    *)
(* the stream in every state, whatever sink is behind it.                  *)
(***************************************************************************)
EXTENDS Stream

\* Transactions are contiguous and ordered by their end LSN, a change lies
\* before the end of its transaction, a Commit closes its transaction and a
\* Begin opens a new one.
CommitOrdered(f) ==
  /\ \A i \in DOMAIN f : f[i].end > 0 /\ f[i].lsn < f[i].end
  /\ \A i, j \in DOMAIN f : i < j => f[i].end <= f[j].end
  /\ \A i, j \in DOMAIN f : i < j /\ f[i].tag = "commit" => f[i].end < f[j].end
  /\ \A i, j \in DOMAIN f :
       i < j /\ f[i].tag \in {"dml", "relation"} /\ f[j].tag = "begin" =>
         \E c \in (i + 1) .. (j - 1) : f[c].tag = "commit" /\ f[c].end = f[i].end

ASSUME CommitOrderedAssumption == \A f \in Feeds : CommitOrdered(f)

-----------------------------------------------------------------------------

Idx(s) == {s[n].idx : n \in DOMAIN s}

Sorted(s) == \A m, n \in DOMAIN s : m < n => s[m].idx < s[n].idx

Before(A, B) == \A a \in A, b \in B : a < b

PrevIdx == IF prevMessage = NoMessage THEN {} ELSE {prevMessage.idx}

\* Received and not yet taken from the stream.
InStream == Idx(messageCH) \cup PrevIdx

\* m was received in this session.
Received(m) ==
  /\ m.idx \in 1 .. cursor
  /\ ~ Skipped(feed[m.idx])
  /\ feed[m.idx].tag \in {"dml", "relation"}

\* Acknowledging m covers no change that comes after m in the feed.
LsnSafe(m) ==
  \A i \in DOMAIN feed : feed[i].tag = "dml" /\ feed[i].end <= m.lsn => i <= m.idx

MessageOK(m) == Received(m) /\ LsnSafe(m)

\* The change kept back is the last one of its transaction received so far.
PrevOK ==
  prevMessage # NoMessage =>
    /\ Received(prevMessage)
    /\ prevMessage.lsn = feed[prevMessage.idx].lsn
    /\ \A i \in (prevMessage.idx + 1) .. cursor :
         ~ Skipped(feed[i]) => feed[i].tag \notin {"dml", "relation", "commit"}

StreamOK ==
  /\ \A n \in DOMAIN messageCH : MessageOK(messageCH[n])
  /\ Sorted(messageCH)
  /\ Before(Idx(messageCH), PrevIdx)
  /\ PrevOK
=============================================================================
