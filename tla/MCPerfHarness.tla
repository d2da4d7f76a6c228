----------------------------- MODULE MCPerfHarness ----------------------------
(* Four rows of two columns and two buckets.  The GROUP BY runs of tb_top  *)
(* have no more keys than buckets, like its tables; of the workloads, one  *)
(* has as many keys as buckets and one has more, like groupby_13keys and   *)
(* groupby_1024keys of tb_perf, and only the latter outlasts the polls.    *)
EXTENDS PerfHarness, HashFold

MCHash(k) == XorFold(k, BUCKETS)
MCPowerUp == {[valid |-> TRUE, key |-> 1, count |-> 2, sum |-> 3, min |-> 1, max |-> 2]}

MkRow(a, b) == (0 :> a) @@ (1 :> b)
MCLoads == { <<MkRow(1, 2), MkRow(2, 2), MkRow(3, 1), MkRow(0, 1)>>,
             <<MkRow(0, 1), MkRow(3, 2)>> }

Off == [enable |-> FALSE, op |-> "EQ", combine |-> "AND", column |-> 0, imm |-> 0]
Cfg(op, groupby, num_rows, slot) ==
  [op |-> op, groupby |-> groupby, num_rows |-> num_rows, column |-> 1,
   gby_key |-> 0, pred |-> <<slot, Off>>, proj |-> [c \in Cols |-> TRUE]]

MCQueries == {
  Cfg("SUM", FALSE, 0, Off),
  Cfg("MIN", FALSE, 2, [Off EXCEPT !.enable = TRUE, !.op = "GTE", !.imm = 1]),
  Cfg("SUM", TRUE, 2, Off) }

MCWorkloads == {
  Cfg("SUM", FALSE, 0, Off),
  Cfg("SUM", TRUE, 2, Off),
  Cfg("SUM", TRUE, 0, Off) }
==============================================================================
