---------------------------- MODULE MCGroupByBench ----------------------------
(* Keys 0 and 3 fold to the same of two buckets; three keys are more than  *)
(* the table holds.                                                        *)
EXTENDS GroupByBench
MCHash(k) == XorFold(k, BUCKETS)
MCPowerUp == {EmptyBucket,
  [valid |-> TRUE, key |-> 1, count |-> 2, sum |-> 3, min |-> 1, max |-> 2]}
MkRow(k, v, p) == [key |-> k, value |-> v, pass |-> p]
MCRows == {MkRow(0, 1, TRUE), MkRow(3, 2, TRUE), MkRow(1, 2, TRUE), MkRow(0, 2, FALSE)}
MCLists == UNION {[1 .. n -> MCRows] : n \in 1 .. 3}
==============================================================================
