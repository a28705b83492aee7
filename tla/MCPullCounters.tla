--------------------------- MODULE MCPullCounters ---------------------------
(* Two tags, one a prefix of the other, and two days of two hours. *)
EXTENDS PullCounters

MCNames == {"r1"}
MCDigests == {<<ALGO_SHA256, 5>>}
MCTags == {<<1>>, <<1, 2>>}
=============================================================================
