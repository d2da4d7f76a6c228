----------------------------- MODULE QuerySystem -----------------------------
(***************************************************************************)
(* QueryPipeline driven by a host that loads the table and rewrites the    *)
(* configuration only between queries, starts queries at any time (also    *)
(* while one runs) and aborts at any time; the consumer of the group       *)
(* stream stalls as it likes.  The host does one thing per clock edge: its *)
(* commands come one at a time over AXI-Lite.                              *)
(***************************************************************************)
EXTENDS QueryPipeline

CONSTANTS
  Tables,     \* initial contents of the table
  Loads,      \* rows the host may load: functions from one address to a row
  Configs     \* query configurations

\* Rows are column vectors, and a load writes rows.
ASSUME TableAssumption ==
  /\ NUM_ROWS \in Nat \ {0} /\ ColMax \in Nat
  /\ Tables \subseteq [0 .. NUM_ROWS - 1 -> Row]
  /\ \A load \in Loads : \A a \in DOMAIN load : load[a] \in Row

\* Widths (db_pkg.sv): an accumulator holds every value of a column and counts
\* every row of the table, and a key hashes to one of the buckets.
ASSUME WidthsAssumption ==
  /\ AccMax \in Nat /\ ColMax <= AccMax /\ NUM_ROWS <= AccMax
  /\ BUCKETS \in Nat \ {0, 1}
  /\ \A k \in 0 .. ColMax : hash_key(k) \in GroupBy!Bucket
  /\ RamPowerUp \subseteq
       [valid : BOOLEAN, key : Nat, count : 0 .. AccMax, sum : 0 .. AccMax,
        min : 0 .. AccMax, max : 0 .. AccMax]

\* The fields of the configuration (db_pkg.sv), with columns of the table.
ASSUME ConfigAssumption ==
  \A q \in Configs :
    /\ q.groupby \in BOOLEAN /\ q.op \in STRING
    /\ q.num_rows \in 0 .. NUM_ROWS
    /\ q.column \in Cols /\ q.gby_key \in Cols
    /\ q.proj \in [Cols -> BOOLEAN]
    /\ q.pred \in Seq([enable : BOOLEAN, op : STRING, combine : {"AND", "OR"},
                        column : Cols, imm : 0 .. ColMax])

HostInit ==
  /\ mem \in Tables
  /\ bank_rdata = NoBeat.columns
  /\ cfg \in Configs
  /\ Init

Abort == CoreReset /\ UNCHANGED cfg

Start ==
  /\ \E gReady \in BOOLEAN : Edge(TRUE, NoLoad, gReady)
  /\ UNCHANGED cfg

Load ==
  /\ state_q # "SCAN"
  /\ \E load \in Loads : Edge(FALSE, load, FALSE)
  /\ UNCHANGED cfg

Configure ==
  /\ state_q # "SCAN"
  /\ Edge(FALSE, NoLoad, FALSE)
  /\ cfg' \in Configs

Tick(gReady) ==
  /\ Edge(FALSE, NoLoad, gReady)
  /\ UNCHANGED cfg

Next ==
  \/ Abort
  \/ Start
  \/ Load
  \/ Configure
  \/ \E gReady \in BOOLEAN : Tick(gReady)

\* The clock runs and the group consumer is ready again and again.
Fairness == WF_vars(Tick(TRUE))

Spec == HostInit /\ [][Next]_vars /\ Fairness

\* A host that also rewrites the configuration registers while a query runs:
\* the register file accepts the write and every stage reads it live.
Reconfigure ==
  /\ state_q = "SCAN"
  /\ Edge(FALSE, NoLoad, FALSE)
  /\ cfg' \in Configs

------------------------------------------------------------------------------
Service == INSTANCE QueryService
  WITH table <- mem, phase <- state_q, error <- error_q, emitted <- out,
       answer <- [result |-> result_q, count |-> count_q,
                  overflow |-> overflow_q]

\* Nothing of a query is left in the datapath when it is done or the core is
\* idle: "no stale rows in the reader FIFO when a new query starts", none in
\* the skid buffers either, and no stage is still working (m_done_reader_idle).
Drained ==
  state_q # "SCAN" =>
    /\ fifo = <<>> /\ ~pred_valid /\ ~proj_valid
    /\ ~reader_busy /\ ~gb_busy /\ \A e \in Classic!Engines : ~cl_busy[e]
    /\ ~GroupBy!m_axis_tvalid

\* What the header of scheduler.sv concludes from its completion rule
\* ("guarantees no stale rows in the reader FIFO when a new query starts").
NoStaleRows == state_q # "SCAN" => fifo = <<>>

\* Refinement: every query answers as QueryService says, whatever ran,
\* failed or was aborted before it, however the group consumer stalls and
\* however often start is pressed while it runs.
ImplementsService == Service!Init /\ [][Service!Next]_(Service!serviceVars)

\* A started query ends: nothing in the chain waits for ever.
QueryEnds == state_q = "SCAN" ~> state_q # "SCAN"
==============================================================================
