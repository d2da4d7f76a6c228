--------------------------- MODULE MCSchedulerBench ---------------------------
(* Eight rows of two columns with values 0 .. 3, a FIFO smaller than the   *)
(* table, accumulators one bit short of the width that always suffices, so *)
(* that SUM can saturate, and fewer buckets than keys.  The bench's own    *)
(* tables stay below the saturation, as those of main do.                  *)
EXTENDS SchedulerBench, HashFold

MCHash(k) == XorFold(k, BUCKETS)
Garbage ==
  [valid |-> TRUE, key |-> 1, count |-> 2, sum |-> 3, min |-> 1, max |-> 2]
MCPowerUp == {Garbage}

MkRow(a, b) == (0 :> a) @@ (1 :> b)
Column0 == <<1, 2, 1, 0, 3, 2, 1, 3>>
Column1 == <<3, 3, 2, 3, 0, 1, 3, 2>>
MCTables == { [r \in 0 .. 7 |-> MkRow(Column0[r + 1], Column1[r + 1])] }
MCLoads == { 0 :> MkRow(3, 0) }

Off == [enable |-> FALSE, op |-> "EQ", combine |-> "AND", column |-> 0, imm |-> 0]
Slot(op, combine, column, imm) ==
  [enable |-> TRUE, op |-> op, combine |-> combine, column |-> column, imm |-> imm]
All == [c \in Cols |-> TRUE]

Cfg(op, groupby, num_rows, pred) ==
  [op |-> op, groupby |-> groupby, num_rows |-> num_rows, column |-> 1,
   gby_key |-> 0, pred |-> pred, proj |-> All]

MCConfigs == {
  Cfg("SUM", FALSE, 0, <<Off, Off>>),
  Cfg("MIN", FALSE, 3, <<Slot("GT", "AND", 0, 0), Off>>),
  Cfg("AVG", FALSE, 0, <<Slot("LT", "AND", 0, 2), Slot("EQ", "OR", 1, 0)>>),
  [Cfg("MAX", FALSE, 2, <<Off, Slot("EQ", "OR", 1, 3)>>) EXCEPT
     !.proj = [c \in Cols |-> c = 0]],
  Cfg("COUNT", TRUE, 0, <<Off, Off>>),
  Cfg("SUM", TRUE, 3, <<Slot("GT", "AND", 0, 3), Off>>) }

MCBenchTables == {
  [i \in 1 .. 8 |-> MkRow((i % 2) + 1, IF i < 6 THEN 2 ELSE 1)],
  <<MkRow(0, 1), MkRow(3, 2)>>,
  <<MkRow(0, 1), MkRow(BUCKETS, 2), MkRow(0, 3)>> }
MCQueries == {
  Cfg("SUM", FALSE, 0, <<Off, Off>>),
  Cfg("MIN", FALSE, 2, <<Slot("GTE", "AND", 0, 1), Off>>),
  Cfg("MAX", FALSE, 1, <<Off, Off>>),
  Cfg("COUNT", FALSE, 2, <<Slot("GTE", "AND", 0, 1), Off>>),
  Cfg("AVG", FALSE, 2, <<Off, Off>>),
  Cfg("SUM", TRUE, 0, <<Off, Off>>),
  Cfg("SUM", TRUE, 2, <<Off, Off>>) }
==============================================================================
