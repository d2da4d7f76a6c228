---------------------------- MODULE MCHostSession ----------------------------
(* Four rows of two columns in words of four values, two buckets, wide     *)
(* enough accumulators (db_pkg derives their width from the row count).    *)
EXTENDS HostSession, HashFold

MCHash(k) == XorFold(k, BUCKETS)
MCPowerUp == {[valid |-> TRUE, key |-> 1, count |-> 2, sum |-> 3, min |-> 1, max |-> 2]}

MkRow(a, b) == (0 :> a) @@ (1 :> b)
MCLoads == { <<MkRow(1, 3), MkRow(2, 3), MkRow(1, 2), MkRow(3, 1)>>,
             <<MkRow(0, 1), MkRow(0, 2)>> }

Off == [enable |-> FALSE, op |-> "EQ", combine |-> "AND", column |-> 0, imm |-> 0]
Slot(op, column, imm) ==
  [enable |-> TRUE, op |-> op, combine |-> "AND", column |-> column, imm |-> imm]
All == [c \in Cols |-> TRUE]
Cfg(op, groupby, num_rows, pred) ==
  [op |-> op, groupby |-> groupby, num_rows |-> num_rows, column |-> 1,
   gby_key |-> 0, pred |-> pred, proj |-> All]

MCQueries == {
  Cfg("SUM", FALSE, NUM_ROWS, <<Off, Off>>),
  Cfg("MIN", FALSE, 3, <<Slot("GT", 0, 0), Slot("LT", 1, 3)>>),
  Cfg("SUM", TRUE, 0, <<Off, Off>>),
  Cfg("COUNT", TRUE, 2, <<Slot("EQ", 1, 3), Off>>),
  Cfg("SUM", TRUE, 0, <<Slot("GT", 1, 3), Off>>) }
==============================================================================
