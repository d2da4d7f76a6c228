------------------------------ MODULE TopProofs ------------------------------
(***************************************************************************)
(* Proof that an abort clears the accelerator, for every session of        *)
(* tb_top.cpp and tb_perf.cpp, every table and every poll and loop limit.  *)
(* The argument follows the abort write through the bus: the slave takes   *)
(* it in its first clock, the strobe resets the core in the next, and as   *)
(* no start can follow before the helper has returned, the core then stays *)
(* as the reset left it.                                                   *)
(***************************************************************************)
EXTENDS PerfHarness, TLAPS

-----------------------------------------------------------------------------
(* The inductive invariant *)

\* Nothing of a query is in the core.
Clean ==
  /\ state_q = "IDLE" /\ error_q = "NONE"
  /\ fifo = <<>> /\ ~pred_valid /\ ~proj_valid /\ ~reader_busy
  /\ ~gb_busy /\ ~present_hold_q

\* The channels of the slave answer in the clock after they accept.
WritesFree == awready_q /\ wready_q /\ ~bvalid_q
WriteHeld == ~awready_q /\ ~wready_q /\ bvalid_q
ReadsFree == arready_q /\ ~rvalid_q
ReadHeld == ~arready_q /\ rvalid_q

Types ==
  /\ awready_q \in BOOLEAN /\ wready_q \in BOOLEAN /\ bvalid_q \in BOOLEAN
  /\ arready_q \in BOOLEAN /\ rvalid_q \in BOOLEAN
  /\ start_q \in BOOLEAN /\ abort_req_q \in BOOLEAN
  /\ DOMAIN txn = {"kind", "phase", "addr", "data", "gated", "cyc"}
  /\ {"pc", "then", "todo"} \subseteq DOMAIN host

\* A helper call in step with the slave: no response is ever waited for, and
\* none is left when a helper has returned.
BusInv ==
  /\ txn.phase \in {"idle", "addr", "hold", "done"}
  /\ txn.phase \in {"addr", "hold"} => txn.kind \in {"W", "R"}
  /\ IF txn.phase = "hold" /\ txn.kind = "W" THEN WriteHeld ELSE WritesFree
  /\ IF txn.phase = "hold" /\ txn.kind = "R" THEN ReadHeld ELSE ReadsFree

\* What the program does while a helper runs, and what may follow a write.
ProgramInv ==
  /\ Calling => host.pc \in {"write", "polled", "reading"}
  /\ host.then \in {"idle", "poll", "groups", "spin", "start", "aborted"}

\* The abort write: still to do, on its way, or done with.
AbortIssued ==
  /\ host.todo = <<>> /\ txn.kind = "W" /\ txn.phase \in {"addr", "hold", "done"}
  /\ txn.phase = "addr" => /\ txn.addr = Reg("CTRL")
                           /\ txn.data = [start |-> FALSE, abort |-> TRUE]
  /\ txn.phase = "hold" => abort_req_q \/ (Clean /\ ~start_q)
  /\ txn.phase = "done" => Clean
AbortInv ==
  /\ host.pc = "write" /\ host.then = "aborted" =>
       \/ ~Calling /\ host.todo = <<CtrlWord(FALSE, TRUE)>>
       \/ AbortIssued
  /\ host.pc = "aborted" => Clean

TopInv == Types /\ BusInv /\ ProgramInv /\ AbortInv

-----------------------------------------------------------------------------
(* The core *)

\* A reset, whatever runs, leaves nothing of a query.
LEMMA ResetCleans == CoreReset => Clean'
  <1> SUFFICES ASSUME CoreReset PROVE Clean'
    OBVIOUS
  <1>1. fifo' = <<>> /\ ~reader_busy'
    BY DEF CoreReset, Reader!ReaderReset, Reader!Fifo!Discard
  <1>2. ~pred_valid' /\ ~proj_valid'
    BY DEF CoreReset, PredReg!RegisterReset, ProjReg!RegisterReset
  <1>3. ~gb_busy' /\ ~present_hold_q'
    BY DEF CoreReset, GroupBy!GbReset
  <1>4. state_q' = "IDLE" /\ error_q' = "NONE"
    BY DEF CoreReset
  <1> QED BY <1>1, <1>2, <1>3, <1>4 DEF Clean

\* Without a start an empty core stays empty.
LEMMA CleanStays ==
  ASSUME Clean, NEW load, NEW gReady, Edge(FALSE, load, gReady)
  PROVE  Clean'
  <1>0. ~rd_tvalid /\ ~pred_tvalid /\ qstart(FALSE) = FALSE
    BY DEF Clean, rd_tvalid, pred_tvalid, qstart, Reader!m_axis_tvalid,
           PredReg!m_axis_tvalid
  <1>1. fifo' = <<>> /\ ~reader_busy'
    <2>1. Reader!ReaderEdge(FALSE, cfg.num_rows, load, pred_s_ready)
      BY <1>0 DEF Edge
    <2>2. fifo' = <<>>
      BY <2>1 DEF Clean, Reader!ReaderEdge, Reader!FifoEdge, Reader!fifo_tvalid,
                  Reader!m_axis_tvalid
    <2>3. ~reader_busy'
      BY <2>1 DEF Clean, Reader!ReaderEdge, Reader!FsmEdge, Reader!fsmVars
    <2> QED BY <2>2, <2>3
  <1>2. ~pred_valid' /\ ~proj_valid'
    <2>1. /\ PredReg!RegisterEdge(rd_tvalid, pred_in, pred_tready)
          /\ ProjReg!RegisterEdge(pred_tvalid, proj_in, proj_tready)
      BY DEF Edge
    <2> QED BY <1>0, <2>1 DEF Clean, PredReg!RegisterEdge, ProjReg!RegisterEdge,
              PredReg!Drain, ProjReg!Drain, PredReg!registerVars,
              ProjReg!registerVars
  <1>3. ~gb_busy' /\ ~present_hold_q'
    <2>1. PICK sValid, pass, key, val, last :
            GroupBy!GbEdge(FALSE, sValid, pass, key, val, last, gReady)
      BY <1>0 DEF Edge, AggregationEdge
    <2> QED BY <2>1 DEF Clean, GroupBy!GbEdge, GroupBy!presentVars
  <1>4. state_q' = "IDLE" /\ error_q' = "NONE"
    BY DEF Edge, Clean, FsmIdle, FsmScan, FsmDone
  <1> QED BY <1>1, <1>2, <1>3, <1>4 DEF Clean

-----------------------------------------------------------------------------
(* The bus *)

\* A clock in which no helper has a valid wire up: the free channels stay
\* free, no strobe rises, and what was empty stays empty.
LEMMA QuietClock ==
  ASSUME Types, NEW bready \in BOOLEAN, NEW rready \in BOOLEAN, NEW gReady,
         txn.phase # "addr", TopEdge(Wires(bready, rready), gReady)
  PROVE  /\ WritesFree => WritesFree'
         /\ ReadsFree => ReadsFree'
         /\ WriteHeld => IF bready THEN WritesFree' ELSE WriteHeld'
         /\ ReadHeld => IF rready THEN ReadsFree' ELSE ReadHeld'
         /\ ~start_q' /\ ~abort_req_q'
         /\ abort_req_q \/ (Clean /\ ~start_q) => Clean'
  <1> DEFINE bus == Wires(bready, rready)
  <1>1. /\ ~bus.awvalid /\ ~bus.arvalid
        /\ bus.bready = bready /\ bus.rready = rready
    BY DEF Wires
  <1>2. Axil!SlaveEdge(bus)
    BY DEF TopEdge
  <1>3. ~Axil!wr_cap(bus)
    BY <1>1 DEF Axil!wr_cap
  <1> HIDE DEF bus
  <1>4. /\ WritesFree => WritesFree'
        /\ WriteHeld => IF bready THEN WritesFree' ELSE WriteHeld'
    BY <1>1, <1>2, <1>3
       DEF Axil!SlaveEdge, Axil!WriteChannel, WritesFree, WriteHeld, Types
  <1>5. /\ ReadsFree => ReadsFree'
        /\ ReadHeld => IF rready THEN ReadsFree' ELSE ReadHeld'
    BY <1>1, <1>2 DEF Axil!SlaveEdge, Axil!ReadChannel, ReadsFree, ReadHeld, Types
  <1>6. ~start_q' /\ ~abort_req_q'
    BY <1>2, <1>3 DEF Axil!SlaveEdge, Axil!Strobes
  <1>7. ASSUME abort_req_q PROVE Clean'
    BY <1>7, ResetCleans DEF TopEdge
  <1>8. ASSUME Clean, ~start_q, ~abort_req_q PROVE Clean'
    <2>1. Edge(FALSE, StrobedLoad, gReady)
      <3>1. start_q = FALSE
        BY <1>8 DEF Types
      <3> QED BY <1>8, <3>1 DEF TopEdge
    <2> QED BY <1>8, <2>1, CleanStays
  <1> QED BY <1>4, <1>5, <1>6, <1>7, <1>8

\* The first clock of a helper: the slave takes the call and responds.
LEMMA FirstClock ==
  ASSUME Types, BusInv, NEW bready \in BOOLEAN, NEW rready \in BOOLEAN, NEW gReady,
         txn.phase = "addr", TopEdge(Wires(bready, rready), gReady)
  PROVE  /\ IF txn.kind = "W" THEN WriteHeld' ELSE WritesFree'
         /\ IF txn.kind = "R" THEN ReadHeld' ELSE ReadsFree'
         /\ txn.kind = "W" /\ txn.addr = Reg("CTRL") /\ txn.data.abort => abort_req_q'
  <1> DEFINE bus == Wires(bready, rready)
  <1>1. /\ bus.awvalid = (txn.kind = "W") /\ bus.wvalid = (txn.kind = "W")
        /\ bus.arvalid = (txn.kind = "R")
        /\ bus.awaddr = txn.addr /\ bus.wdata = txn.data
        /\ bus.bready = bready /\ bus.rready = rready
    BY DEF Wires
  <1>2. Axil!SlaveEdge(bus) /\ WritesFree /\ ReadsFree
    BY DEF TopEdge, BusInv
  <1>3. Axil!wr_cap(bus) <=> txn.kind = "W"
    BY <1>1, <1>2 DEF Axil!wr_cap, WritesFree
  <1> HIDE DEF bus
  <1>4. IF txn.kind = "W" THEN WriteHeld' ELSE WritesFree'
    BY <1>1, <1>2, <1>3
       DEF Axil!SlaveEdge, Axil!WriteChannel, WritesFree, WriteHeld, Types
  <1>5. IF txn.kind = "R" THEN ReadHeld' ELSE ReadsFree'
    BY <1>1, <1>2 DEF Axil!SlaveEdge, Axil!ReadChannel, ReadsFree, ReadHeld, Types
  <1>6. ASSUME txn.kind = "W", txn.addr = Reg("CTRL"), txn.data.abort
        PROVE  abort_req_q'
    BY <1>1, <1>2, <1>3, <1>6 DEF Axil!SlaveEdge, Axil!Strobes, Reg
  <1> QED BY <1>4, <1>5, <1>6

\* The registers of the slave stay Booleans.
LEMMA SlaveTypes ==
  ASSUME NEW bus, NEW gReady, TopEdge(bus, gReady)
  PROVE  /\ awready_q' \in BOOLEAN /\ wready_q' \in BOOLEAN /\ bvalid_q' \in BOOLEAN
         /\ arready_q' \in BOOLEAN /\ rvalid_q' \in BOOLEAN
         /\ start_q' \in BOOLEAN /\ abort_req_q' \in BOOLEAN
  BY DEF TopEdge, Axil!SlaveEdge, Axil!WriteChannel, Axil!ReadChannel, Axil!Strobes

-----------------------------------------------------------------------------
(* One clock *)

\* A clock inside a helper.
LEMMA BusClockKeeps ==
  ASSUME TopInv, NEW ready \in BOOLEAN, BusClock(ready)
  PROVE  TopInv'
  <1> USE DEF TopInv
  <1>0. /\ TopEdge(Wires(ready, ready), host.tready)
        /\ Calling /\ txn.phase \in {"addr", "hold"} /\ txn.kind \in {"W", "R"}
        /\ host' = host
    BY DEF BusClock, Calling, BusInv
  <1>1. Types'
    <2>1. PICK rd : txn' = AfterTick(bvalid_q', rvalid_q', rd)
      BY DEF BusClock
    <2>2. DOMAIN txn' = DOMAIN txn
      BY <2>1 DEF AfterTick
    <2> QED BY <1>0, <2>2, SlaveTypes DEF Types
  <1>2. /\ txn'.kind = txn.kind /\ txn'.addr = txn.addr
        /\ txn'.phase = IF (txn.kind = "W" /\ bvalid_q') \/ (txn.kind = "R" /\ rvalid_q')
                        THEN "hold"
                        ELSE IF txn.phase # "hold" /\ txn.cyc < PollLimit
                        THEN "wait" ELSE "done"
    <2>1. PICK rd : txn' = AfterTick(bvalid_q', rvalid_q', rd)
      BY DEF BusClock
    <2>2. /\ (IF txn.kind = "W" THEN bvalid_q' ELSE rvalid_q') <=>
               (txn.kind = "W" /\ bvalid_q') \/ (txn.kind = "R" /\ rvalid_q')
      BY <1>0
    <2> QED BY <2>1, <2>2 DEF AfterTick, Types
  <1>3. CASE txn.phase = "addr"
    <2>1. /\ IF txn.kind = "W" THEN WriteHeld' ELSE WritesFree'
          /\ IF txn.kind = "R" THEN ReadHeld' ELSE ReadsFree'
          /\ txn.kind = "W" /\ txn.addr = Reg("CTRL") /\ txn.data.abort => abort_req_q'
      BY <1>0, <1>3, FirstClock
    <2>2. txn'.phase = "hold"
      BY <1>0, <1>2, <2>1 DEF WriteHeld, ReadHeld
    <2>3. BusInv'
      BY <1>0, <1>2, <2>1, <2>2 DEF BusInv
    <2>4. ProgramInv'
      BY <1>0 DEF ProgramInv
    <2>5. ASSUME host.pc = "write", host.then = "aborted"
          PROVE  AbortIssued'
      <3>1. AbortIssued
        BY <1>0, <2>5 DEF AbortInv
      <3>2. abort_req_q'
        BY <1>3, <2>1, <3>1 DEF AbortIssued
      <3> QED BY <1>0, <1>2, <2>2, <3>1, <3>2 DEF AbortIssued
    <2>6. host.pc # "aborted"
      BY <1>0 DEF ProgramInv
    <2> QED BY <1>0, <1>1, <2>3, <2>4, <2>5, <2>6 DEF AbortInv
  <1>4. CASE txn.phase = "hold"
    <2>1. /\ WritesFree => WritesFree'
          /\ ReadsFree => ReadsFree'
          /\ WriteHeld => IF ready THEN WritesFree' ELSE WriteHeld'
          /\ ReadHeld => IF ready THEN ReadsFree' ELSE ReadHeld'
          /\ ~start_q' /\ ~abort_req_q'
          /\ abort_req_q \/ (Clean /\ ~start_q) => Clean'
      BY <1>0, <1>4, QuietClock
    <2>2. txn'.phase = IF ready THEN "done" ELSE "hold"
      BY <1>0, <1>2, <1>4, <2>1
         DEF BusInv, WritesFree, WriteHeld, ReadsFree, ReadHeld
    <2>3. BusInv'
      BY <1>0, <1>2, <1>4, <2>1, <2>2 DEF BusInv
    <2>4. ProgramInv'
      BY <1>0 DEF ProgramInv
    <2>5. ASSUME host.pc = "write", host.then = "aborted"
          PROVE  AbortIssued'
      <3>1. AbortIssued
        BY <1>0, <2>5 DEF AbortInv
      <3>2. Clean'
        BY <1>4, <2>1, <3>1 DEF AbortIssued
      <3> QED BY <1>0, <1>2, <2>1, <2>2, <3>1, <3>2 DEF AbortIssued
    <2>6. host.pc # "aborted"
      BY <1>0 DEF ProgramInv
    <2> QED BY <1>0, <1>1, <2>3, <2>4, <2>5, <2>6 DEF AbortInv
  <1> QED BY <1>0, <1>3, <1>4

\* A clock of the program's own, which is not in the middle of an abort.
LEMMA OwnTickKeeps ==
  ASSUME Types, BusInv, NEW gReady, OwnTick(gReady), txn' = txn
  PROVE  BusInv' /\ ~Calling' /\
         (DOMAIN host' = DOMAIN host => Types')
  <1>1. /\ TopEdge(Wires(TRUE, TRUE), gReady) /\ ~Calling
        /\ txn.phase \in {"idle", "done"}
    BY DEF OwnTick, Calling, BusInv
  <1>2. /\ WritesFree => WritesFree'
        /\ ReadsFree => ReadsFree'
    BY <1>1, QuietClock
  <1>3. BusInv'
    BY <1>1, <1>2 DEF BusInv
  <1>4. ~Calling'
    BY <1>1 DEF Calling
  <1>5. DOMAIN host' = DOMAIN host => Types'
    BY <1>1, SlaveTypes DEF Types
  <1> QED BY <1>3, <1>4, <1>5

-----------------------------------------------------------------------------
(* The program between two clocks *)

\* A thought touches neither the bus nor the core.
LEMMA ThoughtKeeps ==
  ASSUME TopInv, Think(host'), DOMAIN host' = DOMAIN host
  PROVE  /\ Types' /\ BusInv' /\ (Calling' <=> Calling) /\ (Clean' <=> Clean)
         /\ txn' = txn
  BY DEF TopInv, Types, BusInv, WritesFree, WriteHeld, ReadsFree, ReadHeld,
         Calling, Clean, Think, topVars, vars, readerVars, skidVars, classicVars,
         gbVars, fsmVars

\* A list of writes begins.
LEMMA Begins ==
  ASSUME TopInv, Think(host'), ~Calling, DOMAIN host' = DOMAIN host,
         host'.pc = "write", host'.then \in {"idle", "poll", "groups", "spin", "start"}
  PROVE  TopInv'
  BY ThoughtKeeps DEF TopInv, ProgramInv, AbortInv

\* The program goes on to something else than writes.
LEMMA MovesOn ==
  ASSUME TopInv, Think(host'), ~Calling, DOMAIN host' = DOMAIN host,
         host'.then = host.then, host'.pc \notin {"write", "aborted"}
  PROVE  TopInv'
  BY ThoughtKeeps DEF TopInv, ProgramInv, AbortInv

\* Scenarios and measurements start with a list of writes.
LEMMA ScenarioKeeps ==
  ASSUME TopInv, Scenario \/ (\E w \in Workloads : Measure(w)) \/ StartWorkload
  PROVE  TopInv'
  <1> USE DEF TopInv, Types
  <1>1. ASSUME NEW rows, NextScenario, LoadTable(rows) PROVE TopInv'
    <2>1. /\ Think(host') /\ DOMAIN host' = DOMAIN host
          /\ host'.pc = "write" /\ host'.then = "idle"
      BY <1>1 DEF LoadTable, Loading, Think
    <2> QED BY <1>1, <2>1, Begins DEF NextScenario, AtRest
  <1>2. ASSUME NEW q, NEW gated, NEW collect \in {"poll", "groups", "spin"},
               NextScenario, Run(q, gated, collect)
        PROVE  TopInv'
    <2>1. /\ Think(host') /\ DOMAIN host' = DOMAIN host
          /\ host'.pc = "write" /\ host'.then = collect
      BY <1>2 DEF Run, Think
    <2> QED BY <1>2, <2>1, Begins DEF NextScenario, AtRest
  <1>3. ASSUME NEW w, Measure(w) PROVE TopInv'
    <2>1. /\ Think(host') /\ DOMAIN host' = DOMAIN host
          /\ host'.pc = "write" /\ host'.then = "start"
      BY <1>3 DEF Measure, Think
    <2> QED BY <1>3, <2>1, Begins DEF Measure, NextScenario, AtRest
  <1>4. ASSUME StartWorkload PROVE TopInv'
    <2>1. /\ Think(host') /\ DOMAIN host' = DOMAIN host
          /\ host'.pc = "write" /\ host'.then = "poll"
      BY <1>4 DEF StartWorkload, Think
    <2>2. ~Calling
      BY <1>4 DEF StartWorkload, ProgramInv
    <2> QED BY <2>1, <2>2, Begins
  <1>5. ASSUME Scenario PROVE TopInv'
    BY <1>1, <1>2, <1>5
       DEF Scenario, Load, RunClassic, RunClassicTorture, RunGroupBy,
           RunGroupByTorture, StartToAbort
  <1> QED BY <1>3, <1>4, <1>5

\* A helper is called; if it writes the abort bit the abort is on its way.
LEMMA CallKeeps ==
  ASSUME TopInv, NEW kind \in {"W", "R"}, NEW addr, NEW data, NEW gated,
         Call(kind, addr, data, gated), UNCHANGED topVars,
         DOMAIN host' = DOMAIN host, host'.then = host.then,
         host'.pc \in {"write", "polled", "reading"},
         host'.pc = "write" /\ host.then = "aborted" =>
           /\ kind = "W" /\ host'.todo = <<>>
           /\ addr = Reg("CTRL") /\ data = [start |-> FALSE, abort |-> TRUE]
  PROVE  TopInv'
  <1> USE DEF TopInv
  <1>1. /\ ~Calling /\ txn.phase \in {"idle", "done"}
        /\ txn' = [kind |-> kind, phase |-> "addr", addr |-> addr, data |-> data,
                   gated |-> gated, cyc |-> 0]
    BY DEF Call, Calling, BusInv
  <1>2. Types'
    BY <1>1 DEF Types, topVars
  <1>3. BusInv'
    BY <1>1 DEF BusInv, WritesFree, ReadsFree, topVars
  <1>4. ProgramInv'
    BY DEF ProgramInv
  <1>5. AbortInv'
    BY <1>1 DEF AbortInv, AbortIssued
  <1> QED BY <1>2, <1>3, <1>4, <1>5

\* The steps of the drivers without a clock.
LEMMA DriveKeeps ==
  ASSUME TopInv, Drive
  PROVE  TopInv'
  <1> USE DEF TopInv
  <1>1. ASSUME IssueWrite PROVE TopInv'
    <2>1. /\ host.pc = "write" /\ ~Calling
          /\ Call("W", Head(host.todo).addr, Head(host.todo).data, host.gated)
          /\ host' = [host EXCEPT !.todo = Tail(@)]
          /\ UNCHANGED topVars
      BY <1>1 DEF IssueWrite
    <2>2. DOMAIN host' = DOMAIN host /\ host'.then = host.then /\ host'.pc = "write"
      BY <2>1
    <2>3. ASSUME host.then = "aborted"
          PROVE  /\ host'.todo = <<>>
                 /\ Head(host.todo).addr = Reg("CTRL")
                 /\ Head(host.todo).data = [start |-> FALSE, abort |-> TRUE]
      <3>1. host.todo = <<CtrlWord(FALSE, TRUE)>>
        <4>1. host.todo # <<>>
          BY <1>1 DEF IssueWrite
        <4> QED BY <2>1, <2>3, <4>1 DEF AbortInv, AbortIssued
      <3>2. Head(host.todo) = CtrlWord(FALSE, TRUE) /\ Tail(host.todo) = <<>>
        BY <3>1
      <3>3. host'.todo = Tail(host.todo)
        BY <2>1 DEF Types
      <3>4. /\ CtrlWord(FALSE, TRUE).addr = Reg("CTRL")
            /\ CtrlWord(FALSE, TRUE).data = [start |-> FALSE, abort |-> TRUE]
        BY DEF CtrlWord, Word, Reg, Axil!Reg
      <3> QED BY <3>2, <3>3, <3>4
    <2> QED BY <2>1, <2>2, <2>3, CallKeeps
  <1>2. ASSUME WritesDone PROVE TopInv'
    <2>1. Think(host') /\ ~Calling /\ host.pc = "write" /\ host.todo = <<>>
      BY <1>2 DEF WritesDone, Think
    <2>2. DOMAIN host' = DOMAIN host /\ host'.then = host.then /\ host'.pc = host.then
      BY <1>2 DEF WritesDone, Think, Types
    <2>3. CASE host.then = "aborted"
      <3>1. AbortIssued
        BY <2>1, <2>3 DEF AbortInv
      <3>2. Clean
        BY <2>1, <3>1 DEF AbortIssued, Calling
      <3> QED BY <2>1, <2>2, <2>3, <3>2, ThoughtKeeps DEF ProgramInv, AbortInv
    <2>4. CASE host.then # "aborted"
      <3> QED BY <2>1, <2>2, <2>4, MovesOn DEF ProgramInv
    <2> QED BY <2>3, <2>4
  <1>3. ASSUME PollStatus PROVE TopInv'
    <2>1. DOMAIN host' = DOMAIN host /\ host'.then = host.then /\ host'.pc = "polled"
      BY <1>3 DEF PollStatus, Types
    <2> QED BY <1>3, <2>1, CallKeeps DEF PollStatus
  <1>4. ASSUME CollectClassic PROVE TopInv'
    <2>1. /\ Think(host') /\ DOMAIN host' = DOMAIN host
          /\ host'.then = host.then /\ host'.pc = "read"
      BY <1>4 DEF CollectClassic, Think, Types
    <2>2. ~Calling
      BY <1>4 DEF CollectClassic, ProgramInv
    <2> QED BY <2>1, <2>2, MovesOn
  <1>5. ASSUME ReadWord PROVE TopInv'
    <2>1. DOMAIN host' = DOMAIN host /\ host'.then = host.then /\ host'.pc = "reading"
      BY <1>5 DEF ReadWord, Types
    <2> QED BY <1>5, <2>1, CallKeeps DEF ReadWord
  <1>6. ASSUME WordRead PROVE TopInv'
    <2>1. /\ Think(host') /\ DOMAIN host' = DOMAIN host
          /\ host'.then = host.then /\ host'.pc \in {"returned", "read"}
      BY <1>6 DEF WordRead, Think, Types
    <2>2. ~Calling
      BY <1>6 DEF WordRead, Returned, Calling
    <2> QED BY <2>1, <2>2, MovesOn
  <1>7. ASSUME AbortQuery PROVE TopInv'
    <2>1. Think(host') /\ ~Calling
      BY <1>7 DEF AbortQuery, Think, ProgramInv
    <2>2. /\ DOMAIN host' = DOMAIN host
          /\ host'.pc = "write" /\ host'.then = "aborted"
          /\ host'.todo = <<CtrlWord(FALSE, TRUE)>>
      BY <1>7 DEF AbortQuery, Think, Types
    <2> QED BY <2>1, <2>2, ThoughtKeeps DEF ProgramInv, AbortInv
  <1> QED BY <1>1, <1>2, <1>3, <1>4, <1>5, <1>6, <1>7 DEF Drive

\* The answer of a poll goes to one of the states after it.
LEMMA AnswerKeeps ==
  ASSUME TopInv, NEW limit,
         NEW next \in {"returned", "collect", "measured"},
         NEW giveUp \in {"groups", "failed", "measured"},
         Polled(limit, next, giveUp)
  PROVE  TopInv'
  <1>1. /\ Think(host') /\ DOMAIN host' = DOMAIN host
        /\ host'.then = host.then /\ host'.pc \in {next, "poll", giveUp}
    <2> DEFINE pc == CASE SawDone -> next
                       [] ~SawDone /\ host.polls + 1 < limit -> "poll"
                       [] OTHER -> giveUp
    <2>1. Think(host') /\ host' = [host EXCEPT !.polls = @ + 1, !.pc = pc]
      BY DEF Polled, Think
    <2>2. pc \in {next, "poll", giveUp}
      OBVIOUS
    <2> HIDE DEF pc
    <2> QED BY <2>1, <2>2 DEF TopInv, Types
  <1>2. ~Calling
    BY DEF Polled, Returned, Calling
  <1> QED BY <1>1, <1>2, MovesOn

-----------------------------------------------------------------------------
(* The theorem *)

LEMMA TopStart == PerfInit => TopInv
  <1> SUFFICES ASSUME PerfInit PROVE TopInv
    OBVIOUS
  <1> USE DEF PerfInit, BenchInit, DriverInit, TopInit, Axil!SlaveInit, NoTxn
  <1>1. Types
    BY DEF Types
  <1>2. BusInv
    BY DEF BusInv, WritesFree, ReadsFree
  <1>3. ProgramInv /\ AbortInv
    BY DEF ProgramInv, AbortInv, Calling
  <1> QED BY <1>1, <1>2, <1>3 DEF TopInv

LEMMA TopStep == TopInv /\ [PerfNext]_perfVars => TopInv'
  <1> SUFFICES ASSUME TopInv, [PerfNext]_perfVars PROVE TopInv'
    OBVIOUS
  <1>1. ASSUME Scenario \/ (\E w \in Workloads : Measure(w)) \/ StartWorkload
        PROVE  TopInv'
    BY <1>1, ScenarioKeeps
  <1>2. ASSUME NEW ready \in BOOLEAN, Tick(ready) PROVE TopInv'
    BY <1>2, BusClockKeeps DEF Tick, CoinTick
  <1>3. ASSUME Respond PROVE TopInv'
    <2>1. ASSUME Drive PROVE TopInv'
      BY <2>1, DriveKeeps
    <2>2. ASSUME StatusReply \/ PollEnds PROVE TopInv'
      BY <2>2, AnswerKeeps DEF StatusReply, PollEnds
    <2>3. ASSUME CollectGroups PROVE TopInv'
      <3>1. PICK gReady : OwnTick(gReady)
        BY <2>3 DEF CollectGroups
      <3>2. /\ txn' = txn /\ DOMAIN host' = DOMAIN host /\ host'.then = host.then
            /\ host'.pc \in {"poll", "failed", "groups"}
        BY <2>3 DEF CollectGroups, TopInv, Types
      <3>3. Types' /\ BusInv' /\ ~Calling'
        BY <3>1, <3>2, OwnTickKeeps DEF TopInv
      <3> QED BY <3>2, <3>3 DEF TopInv, ProgramInv, AbortInv
    <2> QED BY <1>3, <2>1, <2>2, <2>3 DEF Respond
  <1>4. ASSUME Spin PROVE TopInv'
    <2>1. OwnTick(TRUE) /\ txn' = txn /\ host' = host /\ host.pc = "spin"
      BY <1>4 DEF Spin
    <2>2. Types' /\ BusInv' /\ ~Calling'
      BY <2>1, OwnTickKeeps DEF TopInv
    <2> QED BY <2>1, <2>2 DEF TopInv, ProgramInv, AbortInv
  <1>5. ASSUME UNCHANGED perfVars PROVE TopInv'
    <2>1. host' = host /\ Think(host')
      BY <1>5 DEF perfVars, benchVars, driverVars, Think
    <2>2. UNCHANGED <<start_q, abort_req_q>>
      BY <1>5 DEF perfVars, benchVars, driverVars, topVars
    <2>3. Types' /\ BusInv' /\ (Calling' <=> Calling) /\ (Clean' <=> Clean) /\ txn' = txn
      BY <2>1, ThoughtKeeps
    <2> QED BY <2>1, <2>2, <2>3 DEF TopInv, ProgramInv, AbortInv, AbortIssued
  <1> QED BY <1>1, <1>2, <1>3, <1>4, <1>5 DEF PerfNext

\* "busy cleared after abort" (tb_top.cpp): whenever the abort scenario has
\* ended, whatever was running, however long it had run and whichever scenarios
\* came before, the core is idle without an error and nothing of the aborted
\* query is in the FIFO, the skid buffers or the group output.
THEOREM AbortLeavesNothing == PerfSpec => []AbortClears
  <1>1. TopInv => AbortClears
    BY DEF TopInv, AbortInv, AbortClears, Clean, m_axis_tvalid, GroupBy!m_axis_tvalid
  <1> QED BY <1>1, TopStart, TopStep, PTL DEF PerfSpec

\* A bus helper never waits: the slave answers in the clock after it is called
\* and has withdrawn its answer when the helper returns, so no helper of any
\* driver runs into its limit and returns 0xDEADBEEF.
THEOREM HelpersAnswered == PerfSpec => [](txn.phase # "wait")
  <1>1. TopInv => txn.phase # "wait"
    BY DEF TopInv, BusInv
  <1> QED BY <1>1, TopStart, TopStep, PTL DEF PerfSpec
=============================================================================
