------------------------------ MODULE MCKafka -------------------------------
(***************************************************************************)
(* Instances of the Kafka sink: two rows on two partitions.                *)
(***************************************************************************)
EXTENDS KafkaInv, Wals

CONSTANTS p1, p2

MCKeys == {k1, k2, hb}
MCSkipKeys == {hb}
MCPartitions == {p1, p2}
MCPartitionOf == [k \in MCKeys |-> IF k = k2 THEN p2 ELSE p1]

\* The last transaction changes only the heartbeat table; and two interleaved
\* transactions, the second of which changes one row twice, so that a batch may hold
\* both records of it, or a record of each row.
MCFeeds == {FeedOf(w) : w \in {<<1, 1, 2, 2>>, <<3, 2, 3, 2, 2>>}}
=============================================================================
