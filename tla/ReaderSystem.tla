---------------------------- MODULE ReaderSystem ----------------------------
(***************************************************************************)
(* ColumnReader closed with what its user guarantees and nothing more: a   *)
(* scan is started, the table loaded and the bound changed only between    *)
(* scans (scheduler.sv: "load only while idle"); resets come at any time   *)
(* and the downstream raises and drops tready as it likes.                 *)
(***************************************************************************)
EXTENDS ColumnReader

VARIABLE scan_bound     \* query_cfg.num_rows

vars == <<readerVars, scan_bound>>

Bounds == 0 .. AddrSpan - 1
NoLoad == [a \in {} |-> Blank]

Quiet == ~busy_q /\ fifo = <<>>

Init == ReaderInit /\ scan_bound \in Bounds

Reset == ReaderReset(NoLoad) /\ UNCHANGED scan_bound

Start ==
  /\ Quiet
  /\ \E ready \in BOOLEAN : ReaderEdge(TRUE, scan_bound, NoLoad, ready)
  /\ UNCHANGED scan_bound

Load ==
  /\ Quiet
  /\ \E a \in Rows, r \in Row :
        ReaderEdge(FALSE, scan_bound, [x \in {a} |-> r], FALSE)
  /\ UNCHANGED scan_bound

Configure ==
  /\ Quiet
  /\ ReaderEdge(FALSE, scan_bound, NoLoad, FALSE)
  /\ scan_bound' \in Bounds

Tick(ready) ==
  /\ ReaderEdge(FALSE, scan_bound, NoLoad, ready)
  /\ UNCHANGED scan_bound

Next ==
  \/ Reset
  \/ Start
  \/ Load
  \/ Configure
  \/ \E ready \in BOOLEAN : Tick(ready)

\* The clock runs while a scan is under way, and the downstream is ready
\* again and again.
Fairness == WF_vars(Tick(TRUE))

Spec == Init /\ [][Next]_vars /\ Fairness

------------------------------------------------------------------------------
(* Rows handed to the FIFO in this scan, hence the next row to deliver. *)
Pushed == IF busy_q THEN raddr_q ELSE last_row(scan_bound) + 1
Cursor == IF busy_q \/ fifo # <<>> THEN Pushed - Len(fifo) ELSE NUM_ROWS

Scan == INSTANCE TableScan
          WITH table <- mem, bound <- scan_bound, cursor <- Cursor

------------------------------------------------------------------------------
\* Registers stay in range; the FIFO never exceeds its depth.
TypeOK ==
  /\ mem \in [Rows -> Row]
  /\ bank_rdata \in Row
  /\ raddr_q \in Rows
  /\ ret_row_q \in Rows
  /\ pending_q \in BOOLEAN
  /\ busy_q \in BOOLEAN
  /\ done_q \in BOOLEAN
  /\ fifo \in Seq(RowStream) /\ Len(fifo) <= FIFO_DEPTH
  /\ delivered \in RowStream \cup {Blank}
  /\ scan_bound \in Bounds

\* Whenever a row is offered to the FIFO, bank_rdata really holds that row
\* of the table, row 0 of a scan that has just started included: no stale
\* read is pushed, however long the FIFO stalls the reader.
FreshWhenOffered ==
  fifo_tvalid => ret_row_q = raddr_q /\ bank_rdata = mem[ret_row_q]

\* The reader never runs past the bound (m_row_in_range, m_raddr_in_range),
\* and it returns to address 0 whenever it stops.
StaysInBound ==
  IF busy_q THEN raddr_q <= last_row(scan_bound) ELSE raddr_q = 0

\* Refinement: exactly the rows of the bound, once each, in order, tlast on
\* the final one only.
ImplementsScan == Scan!Spec

\* A scan that is not reset ends, and everything it pushed is delivered.
ScanEnds == busy_q ~> ~busy_q /\ fifo = <<>>
==============================================================================
