------------------------------- MODULE DbqaTop -------------------------------
(***************************************************************************)
(* rtl/top/dbqa_top.sv: the AXI-Lite register file wired to the query      *)
(* core.  The register file's configuration is the cfg the core reads      *)
(* live; its strobes start, abort and load one cycle after the write.      *)
(***************************************************************************)
EXTENDS QueryPipeline

CONSTANTS
  NUM_PRED,
  WordSpan

VARIABLES
  awready_q, wready_q, bvalid_q, arready_q, rvalid_q, araddr_q,
  load_addr_q, load_data_q, start_q, abort_req_q, load_wen_q

Axil == INSTANCE AxiLiteSlave

topVars == <<vars, awready_q, wready_q, bvalid_q, arready_q, rvalid_q, araddr_q,
             load_addr_q, load_data_q, start_q, abort_req_q, load_wen_q>>

TopInit ==
  /\ Axil!SlaveInit
  /\ bank_rdata = NoBeat.columns
  /\ Init

\* What the register file shows of the core.
Status ==
  [busy |-> state_q = "SCAN", done |-> state_q = "DONE", error |-> error_q,
   result |-> result_q, count |-> count_q, overflow |-> overflow_q]

StrobedLoad == IF load_wen_q THEN [a \in {load_addr_q} |-> load_data_q] ELSE NoLoad

\* Mutant: the abort request is not wired to the core's reset.
TopEdgeNoAbort(bus, gReady) ==
  /\ Axil!SlaveEdge(bus)
  /\ Edge(start_q, StrobedLoad, gReady)

\* One clock edge of the accelerator; an abort resets the core alone.
TopEdge(bus, gReady) ==
  /\ Axil!SlaveEdge(bus)
  /\ IF abort_req_q THEN CoreReset ELSE Edge(start_q, StrobedLoad, gReady)

\* The group stream as its consumer sees it.
m_axis_tvalid == GroupBy!m_axis_tvalid
m_axis_beat == [group |-> present_out_q, last |-> present_is_last_q]
==============================================================================
