----------------------------- MODULE MCPipeline -----------------------------
(***************************************************************************)
(* Instances of Pipeline.                                                  *)
(***************************************************************************)
EXTENDS PipelineRefinement, Wals

MCKeys == {k1, k2, hb}
MCSkipKeys == {hb}

\* Two transactions, every interleaving of their records.
MCFeeds == {FeedOf(w) : w \in {v \in UNION {[1 .. n -> 1 .. 2] : n \in 2 .. 5} :
                                 /\ Range(v) = 1 .. 2
                                 /\ v[1] = 1
                                 /\ \A x \in 1 .. 2 : Cardinality(PositionsOf(v, x)) <= 3 }}
=============================================================================
