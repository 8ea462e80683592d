-------------------------------- MODULE Wals --------------------------------
(***************************************************************************)
(* Feeds for small instances.  A WAL is a sequence of transaction numbers: *)
(* the last record of a transaction is its commit, the others are row      *)
(* changes.  Record p has LSN p, and a commit record at p ends at p + 1.   *)
(***************************************************************************)
EXTENDS Integers, SequencesExt, FiniteSetsExt

CONSTANTS k1, k2, hb, none   \* two rows, the heartbeat row, no row

KeyAt(p) == IF p % 4 = 3 THEN hb ELSE IF p % 2 = 0 THEN k1 ELSE k2

PositionsOf(w, x) == {p \in DOMAIN w : w[p] = x}
CommitOf(w, x) == Max(PositionsOf(w, x))

Msg(tag, key, lsn, end) == [tag |-> tag, key |-> key, lsn |-> lsn, end |-> end]

\* The messages of transaction x: the Relation of its table (a Type message
\* first) and then its changes, between Begin and Commit.
TxnFeed(w, x) ==
  LET end == CommitOf(w, x) + 1
      ps  == SetToSortSeq(PositionsOf(w, x) \ {CommitOf(w, x)}, <)
      schema == IF x = 1 THEN << Msg("unsupported", none, 0, end),
                                 Msg("relation", none, 0, end) >>
                         ELSE << >>
  IN << Msg("begin", none, 0, end) >>
       \o (IF ps = << >> THEN << >> ELSE schema)
       \o [n \in DOMAIN ps |-> Msg("dml", KeyAt(ps[n]), ps[n], end)]
       \o << Msg("commit", none, end - 1, end) >>

FeedOf(w) ==
  LET xs == SetToSortSeq(Range(w), LAMBDA x, y : CommitOf(w, x) < CommitOf(w, y))
  IN FlattenSeq([n \in DOMAIN xs |-> TxnFeed(w, xs[n])])
=============================================================================
