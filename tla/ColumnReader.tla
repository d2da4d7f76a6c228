---------------------------- MODULE ColumnReader ----------------------------
(***************************************************************************)
(* rtl/memory/column_reader.sv with its column banks (column_memory.sv):   *)
(* streams the rows of the table into an output FIFO.  A bank read takes   *)
(* one cycle, so the data on bank_rdata is fresh only every other cycle;   *)
(* pending_q says when.  The banks are never reset.                        *)
(*                                                                         *)
(* The output FIFO is the abstract channel of StreamQueue, which AxisFifo  *)
(* implements.  The inputs of a clock edge are parameters; ReaderSystem    *)
(* closes the module with an environment and QueryPipeline chains it.      *)
(***************************************************************************)
EXTENDS Naturals, Sequences

CONSTANTS
  NUM_ROWS,     \* rows of the table
  AddrSpan,     \* 2^ADDR_W, the range of the row address registers
  FIFO_DEPTH,   \* capacity of the output FIFO
  Row,          \* the contents one row may have (all columns)
  Blank         \* no beat

ASSUME ReaderAssumption ==
  /\ NUM_ROWS \in Nat \ {0}
  /\ AddrSpan \in Nat /\ NUM_ROWS <= AddrSpan
  /\ FIFO_DEPTH \in Nat /\ FIFO_DEPTH >= 2

VARIABLES
  mem,          \* the banks: one row per address
  bank_rdata,   \* registered read data of port B
  raddr_q,      \* read address
  ret_row_q,    \* the row whose data is on bank_rdata
  pending_q,    \* bank_rdata is fresh and not yet pushed
  busy_q,
  done_q,
  fifo,         \* contents of the output FIFO
  delivered     \* history: the latest beat handed downstream

fsmVars == <<raddr_q, ret_row_q, pending_q, busy_q, done_q>>
readerVars == <<mem, bank_rdata, fsmVars, fifo, delivered>>

Rows == 0 .. NUM_ROWS - 1
LADDR == NUM_ROWS - 1
RowStream == [pass : BOOLEAN, columns : Row, last : BOOLEAN]

Fifo == INSTANCE StreamQueue
          WITH q <- fifo, Beat <- RowStream, Capacity <- FIFO_DEPTH

\* An address register of ADDR_W bits wraps.
AddrSucc(a) == IF a = AddrSpan - 1 THEN 0 ELSE a + 1

\* Last row to stream: 0 = full table, clamped to the table.
last_row(scan_bound) ==
  IF scan_bound = 0 THEN LADDR
  ELSE IF scan_bound - 1 < LADDR THEN scan_bound - 1 ELSE LADDR

ReaderInit ==
  /\ mem \in [Rows -> Row]
  /\ bank_rdata \in Row
  /\ raddr_q = 0
  /\ ret_row_q = 0
  /\ pending_q = FALSE
  /\ busy_q = FALSE
  /\ done_q = FALSE
  /\ fifo = <<>>
  /\ delivered = Blank

\* Both bank ports at one edge, in reset or not: port B reads the old
\* contents at raddr_q, port A writes the rows of `load` (none or one).
BankEdge(load) ==
  /\ bank_rdata' = mem[raddr_q]
  /\ mem' = [a \in Rows |-> IF a \in DOMAIN load THEN load[a] ELSE mem[a]]

fifo_tvalid == pending_q /\ busy_q
fifo_s_ready == Len(fifo) < FIFO_DEPTH
m_axis_tvalid == fifo # <<>>

\* Mutant: tlast marks the end of the table, whatever the bound.
ReaderBeatFullTable(scan_bound) ==
  [pass |-> TRUE, columns |-> bank_rdata, last |-> ret_row_q = LADDR]

\* The beat offered to the FIFO.
ReaderBeat(scan_bound) ==
  [pass |-> TRUE, columns |-> bank_rdata,
   last |-> ret_row_q = last_row(scan_bound)]

FifoEdge(scan_bound, mReady) ==
  LET push == fifo_tvalid /\ fifo_s_ready
      pop == m_axis_tvalid /\ mReady
      beat == ReaderBeat(scan_bound)
  IN  \/ push /\ pop /\ Fifo!AcceptAndHandOver(beat)
      \/ push /\ ~pop /\ Fifo!Accept(beat)
      \/ ~push /\ pop /\ Fifo!HandOver
      \/ ~push /\ ~pop /\ UNCHANGED <<fifo, delivered>>

\* start: row 0 is taken to be on bank_rdata already (idle read of address 0).
Begin ==
  /\ busy_q' = TRUE
  /\ done_q' = FALSE
  /\ raddr_q' = 0
  /\ ret_row_q' = 0
  /\ pending_q' = TRUE

\* The FIFO accepted the last row.
Finish ==
  /\ busy_q' = FALSE
  /\ done_q' = TRUE
  /\ raddr_q' = 0
  /\ ret_row_q' = 0
  /\ pending_q' = FALSE

\* Mutant: the stale cycle after a fetch is not masked.
FetchNextUnmasked ==
  /\ ret_row_q' = raddr_q
  /\ raddr_q' = AddrSucc(raddr_q)
  /\ UNCHANGED <<pending_q, busy_q, done_q>>

\* The FIFO accepted an earlier row: fetch the next one, stale for a cycle.
FetchNext ==
  /\ ret_row_q' = raddr_q
  /\ raddr_q' = AddrSucc(raddr_q)
  /\ pending_q' = FALSE
  /\ UNCHANGED <<busy_q, done_q>>

\* Mutant: fresh data is never announced.
AwaitFreshForgotten ==
  /\ ret_row_q' = raddr_q
  /\ UNCHANGED <<pending_q, raddr_q, busy_q, done_q>>

\* Nothing was accepted: the data is fresh in the next cycle.
AwaitFresh ==
  /\ ret_row_q' = raddr_q
  /\ pending_q' = TRUE
  /\ UNCHANGED <<raddr_q, busy_q, done_q>>

FsmEdge(start, scan_bound) ==
  \/ start /\ Begin
  \/ /\ ~start /\ busy_q
     /\ IF pending_q /\ fifo_s_ready
        THEN IF ret_row_q = last_row(scan_bound) THEN Finish ELSE FetchNext
        ELSE AwaitFresh
  \/ ~start /\ ~busy_q /\ UNCHANGED fsmVars

\* One clock edge of the reader.
ReaderEdge(start, scan_bound, load, mReady) ==
  /\ BankEdge(load)
  /\ FifoEdge(scan_bound, mReady)
  /\ FsmEdge(start, scan_bound)

ReaderReset(load) ==
  /\ BankEdge(load)
  /\ Fifo!Discard
  /\ raddr_q' = 0
  /\ ret_row_q' = 0
  /\ pending_q' = FALSE
  /\ busy_q' = FALSE
  /\ done_q' = FALSE
==============================================================================
