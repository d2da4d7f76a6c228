------------------------------ MODULE TableScan ------------------------------
(***************************************************************************)
(* What the column reader promises: once begun, a scan delivers the rows   *)
(* 0, 1, 2, ... of the table, each exactly once and in order, up to the    *)
(* bound (0, or a bound past the end, means the whole table), and marks    *)
(* exactly the final row with tlast.                                       *)
(***************************************************************************)
EXTENDS Naturals

CONSTANTS NUM_ROWS, Row, Blank

VARIABLES
  table,      \* the loaded rows
  bound,      \* query_cfg.num_rows
  cursor,     \* the next row to deliver, or Idle
  delivered   \* the latest delivered beat

scanVars == <<table, bound, cursor, delivered>>

Idle == NUM_ROWS

ScanLength == IF bound = 0 \/ bound > NUM_ROWS THEN NUM_ROWS ELSE bound

RowBeat(r) ==
  [pass |-> TRUE, columns |-> table[r], last |-> r + 1 = ScanLength]

Init ==
  /\ table \in [0 .. NUM_ROWS - 1 -> Row]
  /\ bound \in Nat
  /\ cursor = Idle
  /\ delivered = Blank

Begin ==
  /\ cursor = Idle
  /\ cursor' = 0
  /\ UNCHANGED <<table, bound, delivered>>

Deliver ==
  /\ cursor # Idle
  /\ delivered' = RowBeat(cursor)
  /\ cursor' = IF cursor + 1 = ScanLength THEN Idle ELSE cursor + 1
  /\ UNCHANGED <<table, bound>>

Load ==
  /\ cursor = Idle
  /\ \E a \in 0 .. NUM_ROWS - 1, r \in Row : table' = [table EXCEPT ![a] = r]
  /\ UNCHANGED <<bound, cursor, delivered>>

Configure ==
  /\ cursor = Idle
  /\ bound' \in Nat
  /\ UNCHANGED <<table, cursor, delivered>>

Abort ==
  /\ cursor' = Idle
  /\ UNCHANGED <<table, bound, delivered>>

Next == Begin \/ Deliver \/ Load \/ Configure \/ Abort

Spec == Init /\ [][Next]_scanVars
==============================================================================
