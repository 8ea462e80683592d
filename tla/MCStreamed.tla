----------------------------- MODULE MCStreamed -----------------------------
(***************************************************************************)
(* Pipeline with a transaction that the server streams while it is in      *)
(* progress, as replication.Start asks for (proto_version 2, streaming).   *)
(* Its changes come between stream control messages that message.New turns *)
(* into nothing, and no Commit ends it.                                    *)
(***************************************************************************)
EXTENDS Pipeline

CONSTANTS k1, k2, none

MCKeys == {k1, k2}

Msg(tag, key, lsn, end) == [tag |-> tag, key |-> key, lsn |-> lsn, end |-> end]

\* One stream block with two changes, and the Stream Commit.
StreamedTxn(end) ==
  << Msg("streamcontrol", none, 0, end),
     Msg("relation", none, 0, end),
     Msg("dml", k1, 1, end),
     Msg("dml", k2, 2, end),
     Msg("streamcontrol", none, 2, end),
     Msg("streamcontrol", none, 3, end) >>

\* A transaction that is sent when it commits.
PlainTxn ==
  << Msg("begin", none, 5, 7), Msg("dml", k1, 5, 7), Msg("commit", none, 6, 7) >>

CommittedFeeds == {StreamedTxn(4) \o PlainTxn}
=============================================================================
