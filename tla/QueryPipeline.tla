---------------------------- MODULE QueryPipeline ----------------------------
(***************************************************************************)
(* rtl/scheduler/scheduler.sv with aggregation_top.sv: the composition     *)
(*   ColumnReader -> predicate -> projection -> aggregation                *)
(* and the control FSM.  One step is one clock edge of the whole core: all *)
(* components step together on the wires of the cycle that ends.           *)
(* The configuration registers are read live by every stage.               *)
(***************************************************************************)
EXTENDS Naturals, Sequences, Predicate

CONSTANTS
  NUM_ROWS,        \* rows of the table, a power of two (db_pkg: 1024)
  NUM_COLS,
  FIFO_DEPTH,
  ColMax, AccMax,  \* all-ones in a column, in an accumulator
  BUCKETS,
  hash_key(_),
  RamPowerUp       \* what a bucket may hold before it is first written

VARIABLES
  mem, bank_rdata, raddr_q, ret_row_q, pending_q,       \* column reader
  reader_busy, reader_done, fifo, delivered,
  pred_reg, pred_valid,                                 \* predicate skid
  proj_reg, proj_valid,                                 \* projection skid
  acc_q, of_q, avg_count_q, res_q, avg_result_q,        \* classic engines
  cl_busy, cl_done,
  bucket_mem, rd_bucket, gb_raddr, wen_q, waddr_q, wdata_q,   \* GROUP BY
  gb_state, gb_busy, gb_done, rd_stage_q, row_key_q, row_val_q, row_last_q,
  probe_idx_q, probe_count_q, dump_idx_q, last_valid_q, clear_idx_q,
  present_hold_q, present_is_last_q, present_out_q,
  state_q, result_q, count_q, overflow_q, error_q,      \* control FSM
  cfg,                                                  \* register file
  out                                                   \* history: g_axis

readerVars == <<mem, bank_rdata, raddr_q, ret_row_q, pending_q, reader_busy,
                reader_done, fifo, delivered>>
skidVars == <<pred_reg, pred_valid, proj_reg, proj_valid>>
classicVars == <<acc_q, of_q, avg_count_q, res_q, avg_result_q, cl_busy, cl_done>>
gbVars == <<bucket_mem, rd_bucket, gb_raddr, wen_q, waddr_q, wdata_q, gb_state,
            gb_busy, gb_done, rd_stage_q, row_key_q, row_val_q, row_last_q,
            probe_idx_q, probe_count_q, dump_idx_q, last_valid_q, clear_idx_q,
            present_hold_q, present_is_last_q, present_out_q>>
fsmVars == <<state_q, result_q, count_q, overflow_q, error_q>>
vars == <<readerVars, skidVars, classicVars, gbVars, fsmVars, cfg, out>>

Cols == 0 .. NUM_COLS - 1
Row == [Cols -> 0 .. ColMax]
NoBeat == [pass |-> FALSE, columns |-> [c \in Cols |-> 0], last |-> FALSE]
NoLoad == [a \in {} |-> NoBeat.columns]

Reader == INSTANCE ColumnReader
  WITH AddrSpan <- NUM_ROWS, Blank <- NoBeat,
       busy_q <- reader_busy, done_q <- reader_done
PredReg == INSTANCE AxisRegister
  WITH Blank <- NoBeat, sreg_q <- pred_reg, sreg_valid_q <- pred_valid
ProjReg == INSTANCE AxisRegister
  WITH Blank <- NoBeat, sreg_q <- proj_reg, sreg_valid_q <- proj_valid
Classic == INSTANCE ClassicEngines
  WITH overflow_q <- of_q, result_q <- res_q, busy_q <- cl_busy,
       done_q <- cl_done
GroupBy == INSTANCE GroupByEngine
  WITH GbAccMax <- AccMax, raddr_q <- gb_raddr, state_q <- gb_state,
       busy_q <- gb_busy, done_q <- gb_done

------------------------------------------------------------------------------
(* The wires of one cycle, from the reader downstream. *)

rd_tvalid == Reader!m_axis_tvalid
rd_beat == IF rd_tvalid THEN Head(fifo) ELSE NoBeat

pred_s_ready == PredReg!s_axis_tready
pred_in == [rd_beat EXCEPT !.pass = PassBit(cfg.pred, rd_beat.columns)]
pred_tvalid == PredReg!m_axis_tvalid(rd_tvalid)
pred_out == PredReg!m_axis_beat(pred_in)

pred_tready == ProjReg!s_axis_tready
proj_in == [pred_out EXCEPT !.columns = Masked(pred_out.columns, cfg.proj)]
proj_tvalid == ProjReg!m_axis_tvalid(pred_tvalid)
proj_out == ProjReg!m_axis_beat(proj_in)

\* Mutant: the ready of the GROUP BY engine is not routed.
ProjTreadyClassic == Classic!classic_tready

\* aggregation_top: routing and the muxes of done and ready.
proj_tready == IF cfg.groupby THEN GroupBy!s_axis_tready
                              ELSE Classic!classic_tready
agg_done == IF cfg.groupby THEN gb_done ELSE cl_done["COUNT"]
agg_busy == IF cfg.groupby THEN gb_busy ELSE cl_busy["COUNT"]

\* aggregation_top: the result mux.
agg_result ==
  IF cfg.groupby \/ cfg.op \notin Classic!Engines THEN 0 ELSE res_q[cfg.op]
agg_count == IF cfg.groupby THEN 0 ELSE res_q["COUNT"]
agg_overflow == ~cfg.groupby /\ of_q["SUM"]

------------------------------------------------------------------------------
Init ==
  /\ Reader!ReaderInit
  /\ PredReg!RegisterInit
  /\ ProjReg!RegisterInit
  /\ Classic!EnginesInit
  /\ GroupBy!GbInit
  /\ state_q = "IDLE" /\ result_q = 0 /\ count_q = 0
  /\ overflow_q = FALSE /\ error_q = "NONE"
  /\ out = <<>>

\* Mutant: a start is passed on while a query runs.
QstartAlways(start) == start

\* A start is passed on only between queries.
qstart(start) == start /\ state_q \in {"IDLE", "DONE"}

AggregationEdge(start, gReady) ==
  /\ Classic!EnginesEdge(start /\ ~cfg.groupby, proj_tvalid /\ ~cfg.groupby,
                         proj_out.pass, proj_out.columns[cfg.column],
                         proj_out.last)
  /\ GroupBy!GbEdge(start /\ cfg.groupby, proj_tvalid /\ cfg.groupby,
                    proj_out.pass, proj_out.columns[cfg.gby_key],
                    proj_out.columns[cfg.column], proj_out.last, gReady)

\* The control FSM.
FsmIdle(start) ==
  /\ state_q = "IDLE"
  /\ error_q' = "NONE"
  /\ state_q' = IF start THEN "SCAN" ELSE "IDLE"
  /\ UNCHANGED <<result_q, count_q, overflow_q>>

\* Mutant: the reader alone decides when the query is complete.
CompleteWithReader == reader_done

\* Completion: the aggregation has finished and the reader is idle again.
Completed == agg_done /\ reader_done

\* Mutant: a busy start is only noticed while the query goes on.
FsmScanLateStart(start) ==
  /\ state_q = "SCAN"
  /\ error_q' = IF Completed THEN (IF agg_overflow THEN "AGG_OVERFLOW" ELSE error_q)
                ELSE IF start THEN "START_BUSY" ELSE error_q
  /\ IF Completed
     THEN /\ result_q' = agg_result /\ count_q' = agg_count
          /\ overflow_q' = agg_overflow /\ state_q' = "DONE"
     ELSE UNCHANGED <<result_q, count_q, overflow_q, state_q>>

\* The latest assignment to error_q wins: an overflow hides a busy start.
FsmScan(start) ==
  /\ state_q = "SCAN"
  /\ error_q' = CASE Completed /\ agg_overflow -> "AGG_OVERFLOW"
                  [] ~(Completed /\ agg_overflow) /\ start -> "START_BUSY"
                  [] OTHER -> error_q
  /\ IF Completed
     THEN /\ result_q' = agg_result /\ count_q' = agg_count
          /\ overflow_q' = agg_overflow /\ state_q' = "DONE"
     ELSE UNCHANGED <<result_q, count_q, overflow_q, state_q>>

FsmDone(start) ==
  /\ state_q = "DONE"
  /\ IF start THEN error_q' = "NONE" /\ state_q' = "SCAN"
              ELSE UNCHANGED <<error_q, state_q>>
  /\ UNCHANGED <<result_q, count_q, overflow_q>>

\* One clock edge of the core, without reset.
Edge(start, load, gReady) ==
  /\ Reader!ReaderEdge(qstart(start), cfg.num_rows, load, pred_s_ready)
  /\ PredReg!RegisterEdge(rd_tvalid, pred_in, pred_tready)
  /\ ProjReg!RegisterEdge(pred_tvalid, proj_in, proj_tready)
  /\ AggregationEdge(qstart(start), gReady)
  /\ FsmIdle(start) \/ FsmScan(start) \/ FsmDone(start)
  /\ out' = IF qstart(start) THEN <<>>
            ELSE IF GroupBy!m_axis_tvalid /\ gReady
            THEN Append(out, [group |-> present_out_q, last |-> present_is_last_q])
            ELSE out

\* Reset of the core, which is also what an abort does (dbqa_top.sv).
CoreReset ==
  /\ Reader!ReaderReset(NoLoad)
  /\ PredReg!RegisterReset
  /\ ProjReg!RegisterReset
  /\ Classic!EnginesReset
  /\ GroupBy!GbReset
  /\ state_q' = "IDLE" /\ result_q' = 0 /\ count_q' = 0
  /\ overflow_q' = FALSE /\ error_q' = "NONE"
  /\ out' = <<>>
==============================================================================
