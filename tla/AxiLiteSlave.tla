----------------------------- MODULE AxiLiteSlave -----------------------------
(***************************************************************************)
(* rtl/top/axi_lite_slave.sv: the AXI-Lite handshakes, the register file   *)
(* with its one-cycle strobes, and the live read mux.  One step of         *)
(* SlaveEdge is one clock edge; the wires of the bus come in as a record   *)
(*   [awvalid, awaddr, wvalid, wdata, bready, arvalid, araddr, rready].    *)
(* A register address is a record [reg, idx]; a packed word is the record  *)
(* of its fields, and keeps its width where the code relies on it.         *)
(***************************************************************************)
EXTENDS Naturals

CONSTANTS
  NUM_ROWS,    \* addresses of the table, the span of the num_rows field
  NUM_COLS,
  NUM_PRED,
  WordSpan     \* values of one bus word: results are read in two words

VARIABLES
  awready_q, wready_q, bvalid_q,      \* write channels
  arready_q, rvalid_q, araddr_q,      \* read channels
  cfg,                                \* query, aggregation, predicates, mask
  load_addr_q, load_data_q,
  start_q, abort_req_q, load_wen_q    \* one-cycle strobes

slaveVars == <<awready_q, wready_q, bvalid_q, arready_q, rvalid_q, araddr_q,
               cfg, load_addr_q, load_data_q, start_q, abort_req_q, load_wen_q>>

Reg(name) == [reg |-> name, idx |-> 0]
Slots == 1 .. NUM_PRED
ColIdx == 0 .. NUM_COLS - 1

\* The registers as reset leaves them.
ResetCfg ==
  [op |-> "SELECT", groupby |-> FALSE, num_rows |-> 0, column |-> 0,
   gby_key |-> 0, proj |-> [c \in ColIdx |-> FALSE],
   pred |-> [i \in Slots |-> [enable |-> FALSE, op |-> "EQ", combine |-> "AND",
                              column |-> 0, imm |-> 0]]]

SlaveInit ==
  /\ awready_q = TRUE /\ wready_q = TRUE /\ bvalid_q = FALSE
  /\ arready_q = TRUE /\ rvalid_q = FALSE /\ araddr_q = Reg("CTRL")
  /\ cfg = ResetCfg
  /\ load_addr_q = 0 /\ load_data_q = [c \in ColIdx |-> 0]
  /\ start_q = FALSE /\ abort_req_q = FALSE /\ load_wen_q = FALSE

------------------------------------------------------------------------------
\* Mutant: the write is taken while its predecessor's response is pending.
WrCapUnguarded(bus) == bus.awvalid /\ bus.wvalid

\* Both the address and the data are accepted in this cycle.
wr_cap(bus) == bus.awvalid /\ awready_q /\ bus.wvalid /\ wready_q

\* Mutant: the response is never withdrawn.
WriteChannelStuck(bus) ==
  LET responded == bvalid_q /\ bus.bready
  IN  /\ bvalid_q' = (bvalid_q \/ wr_cap(bus))
      /\ awready_q' = ((awready_q /\ ~wr_cap(bus)) \/ responded)
      /\ wready_q' = ((wready_q /\ ~wr_cap(bus)) \/ responded)

\* Write: accept address and data together, then drive B until BREADY.
WriteChannel(bus) ==
  LET responded == bvalid_q /\ bus.bready
  IN  /\ bvalid_q' = ((bvalid_q \/ wr_cap(bus)) /\ ~responded)
      /\ awready_q' = ((awready_q /\ ~wr_cap(bus)) \/ responded)
      /\ wready_q' = ((wready_q /\ ~wr_cap(bus)) \/ responded)

\* Mutant: the response is never withdrawn.
ReadChannelStuck(bus) ==
  LET accepted == bus.arvalid /\ arready_q
      responded == rvalid_q /\ bus.rready
  IN  /\ rvalid_q' = (rvalid_q \/ accepted)
      /\ arready_q' = ((arready_q /\ ~accepted) \/ responded)
      /\ araddr_q' = IF accepted THEN bus.araddr ELSE araddr_q

\* Read: accept the address, then drive R until RREADY.
ReadChannel(bus) ==
  LET accepted == bus.arvalid /\ arready_q
      responded == rvalid_q /\ bus.rready
  IN  /\ rvalid_q' = ((rvalid_q \/ accepted) /\ ~responded)
      /\ arready_q' = ((arready_q /\ ~accepted) \/ responded)
      /\ araddr_q' = IF accepted THEN bus.araddr ELSE araddr_q

\* Mutant: the strobes stay until the write response is accepted.
StrobesSticky(bus) ==
  LET hit(name) == wr_cap(bus) /\ bus.awaddr = Reg(name)
  IN  /\ start_q' = ((hit("CTRL") /\ bus.wdata.start) \/ (start_q /\ ~bus.bready))
      /\ abort_req_q' = (hit("CTRL") /\ bus.wdata.abort)
      /\ load_wen_q' = hit("LOAD_ROW")

\* The strobes are high for the cycle after the write and no longer.
Strobes(bus) ==
  LET hit(name) == wr_cap(bus) /\ bus.awaddr = Reg(name)
  IN  /\ start_q' = (hit("CTRL") /\ bus.wdata.start)
      /\ abort_req_q' = (hit("CTRL") /\ bus.wdata.abort)
      /\ load_wen_q' = hit("LOAD_ROW")

\* Mutant: the slot number is not decoded from the address.
FirstSlot(addr) == 1

\* The predicate slot a write addresses.
pred_slot(addr) == addr.idx

\* The configuration after a write; other addresses leave it alone.
WrittenCfg(addr, data) ==
  CASE addr = Reg("QUERY") -> [cfg EXCEPT !.num_rows = data % NUM_ROWS]
    [] addr = Reg("AGG_CFG") ->
         [cfg EXCEPT !.op = data.op, !.groupby = data.groupby,
                     !.column = data.column, !.gby_key = data.gby_key]
    [] addr = Reg("PROJ_MASK") -> [cfg EXCEPT !.proj = data]
    [] addr.reg = "PRED_LO" -> [cfg EXCEPT !.pred[pred_slot(addr)].imm = data]
    [] addr.reg = "PRED_HI" ->
         [cfg EXCEPT !.pred[pred_slot(addr)].enable = data.enable,
                     !.pred[pred_slot(addr)].op = data.op,
                     !.pred[pred_slot(addr)].combine = data.combine,
                     !.pred[pred_slot(addr)].column = data.column]
    [] OTHER -> cfg

\* The registers take the word of the write that is accepted in this cycle.
RegisterFile(bus) ==
  /\ cfg' = IF wr_cap(bus) THEN WrittenCfg(bus.awaddr, bus.wdata) ELSE cfg
  /\ load_addr_q' = IF wr_cap(bus) /\ bus.awaddr = Reg("LOAD_ADDR")
                    THEN bus.wdata % NUM_ROWS ELSE load_addr_q
  /\ load_data_q' = IF wr_cap(bus) /\ bus.awaddr.reg = "LOAD_DATA"
                    THEN [load_data_q EXCEPT ![bus.awaddr.idx] = bus.wdata]
                    ELSE load_data_q

SlaveEdge(bus) ==
  /\ WriteChannel(bus)
  /\ ReadChannel(bus)
  /\ Strobes(bus)
  /\ RegisterFile(bus)

------------------------------------------------------------------------------
\* The word of a configuration register, also on the output ports.
register(addr) ==
  CASE addr = Reg("QUERY") -> cfg.num_rows
    [] addr = Reg("AGG_CFG") -> [op |-> cfg.op, groupby |-> cfg.groupby,
                                 column |-> cfg.column, gby_key |-> cfg.gby_key]
    [] addr = Reg("PROJ_MASK") -> cfg.proj
    [] addr.reg = "PRED_LO" -> cfg.pred[addr.idx].imm
    [] addr.reg = "PRED_HI" ->
         LET p == cfg.pred[addr.idx]
         IN  [enable |-> p.enable, op |-> p.op, combine |-> p.combine,
              column |-> p.column]
    [] addr = Reg("LOAD_ADDR") -> load_addr_q
    [] addr.reg = "LOAD_DATA" -> load_data_q[addr.idx]

Config == {Reg("QUERY"), Reg("AGG_CFG"), Reg("PROJ_MASK"), Reg("LOAD_ADDR")}
          \cup [reg : {"PRED_LO", "PRED_HI"}, idx : Slots]
          \cup [reg : {"LOAD_DATA"}, idx : ColIdx]

\* The word at an address: a mux of the registers and of the core's status
\* as they are now.  CTRL, the load strobe and unmapped words read as zero,
\* which as a word of CTRL is neither start nor abort.
rdata(addr, status) ==
  CASE addr = Reg("STATUS") ->
         [busy |-> status.busy, done |-> status.done, error |-> status.error]
    [] addr = Reg("RESULT") -> status.result % WordSpan
    [] addr = Reg("RESULT_HI") -> status.result \div WordSpan
    [] addr = Reg("COUNT") -> status.count % WordSpan
    [] addr = Reg("COUNT_HI") -> status.count \div WordSpan
    [] addr = Reg("OVERFLOW") -> IF status.overflow THEN 1 ELSE 0
    [] addr = Reg("CTRL") -> [start |-> FALSE, abort |-> FALSE]
    [] addr \in Config -> register(addr)
    [] OTHER -> 0
==============================================================================
