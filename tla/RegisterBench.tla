---------------------------- MODULE RegisterBench ----------------------------
(***************************************************************************)
(* sim/tb_axilite.cpp: the register file alone on the bus.  The script of  *)
(* main is generalised to any order of its operations: plain and gated     *)
(* writes and reads of every register, strobe writes, and changes of the   *)
(* status inputs.  main changes these between calls only; here they also   *)
(* move in the clocks of a call, as the core's do under dbqa_top, so that  *)
(* a read meets a live mux.  expected is the word each register must hold, *)
(* atResponse the status with which a read was answered.  A behaviour that *)
(* begins with pc = "free" has no bench but the master of RegisterSystem.  *)
(***************************************************************************)
EXTENDS RegisterSystem, AxiLiteMaster

CONSTANTS
  WriteData(_),    \* words the bench writes to a register
  MaxCalls         \* length of the script

\* The bench writes words that fit their registers.
ASSUME WriteDataAssumption ==
  \A a \in Config : \A d \in WriteData(a) : IsWord(a, d) /\ Kept(a, d) = d

VARIABLES
  pc,              \* "bench" or "free"
  expected,        \* word last written to each writable register
  pulses,          \* cycles each strobe was high during the current call
  atResponse,      \* history: status in the first cycle of the last RVALID
  calls            \* operations of the script done so far

bench == <<pc, txn, expected, pulses, atResponse, calls>>
benchVars == <<vars, bench>>

Commands == {Reg("CTRL"), Reg("LOAD_ROW")}
ReadOnly == {Reg("STATUS"), Reg("RESULT"), Reg("RESULT_HI"), Reg("COUNT"),
             Reg("COUNT_HI"), Reg("OVERFLOW"), Reg("UNMAPPED")}
NoPulse == [start |-> 0, abort |-> 0, load |-> 0]

BenchInit ==
  /\ Init
  /\ pc \in {"bench", "free"}
  /\ txn = NoTxn
  /\ expected = [a \in Config |-> register(a)]
  /\ pulses = NoPulse
  /\ atResponse = status
  /\ calls = 0

NextOperation ==
  pc = "bench" /\ calls < MaxCalls /\ calls' = calls + 1

CallWrite(addr, gated) ==
  /\ NextOperation
  /\ \E data \in WriteData(addr) :
       /\ Call("W", addr, data, gated)
       /\ expected' = IF addr \in Config
                      THEN [expected EXCEPT ![addr] = data] ELSE expected
  /\ pulses' = NoPulse
  /\ UNCHANGED <<vars, pc, atResponse>>

CallRead(addr, gated) ==
  /\ NextOperation
  /\ Call("R", addr, NoData, gated)
  /\ pulses' = NoPulse
  /\ UNCHANGED <<vars, pc, expected, atResponse>>

\* The clock, with the ready wires the current helper drives.
BenchClock(bready, rready) ==
  /\ Transfer(Wires(bready, rready))
  /\ pulses' = [start |-> pulses.start + (IF start_q' THEN 1 ELSE 0),
                abort |-> pulses.abort + (IF abort_req_q' THEN 1 ELSE 0),
                load |-> pulses.load + (IF load_wen_q' THEN 1 ELSE 0)]

BusTick ==
  /\ Calling
  /\ UNCHANGED <<offer, rd, pc, expected, calls>>
  /\ status' \in Statuses
  /\ \E ready \in ReadyChoices : BenchClock(ready, ready)
  /\ atResponse' = IF rvalid_q' /\ ~rvalid_q THEN status' ELSE atResponse
  /\ txn' = AfterTick(bvalid_q', rvalid_q', rdata(araddr_q, status)')

\* Between calls the bench sets the status inputs and clocks once.
DriveStatus ==
  /\ ~Calling
  /\ NextOperation
  /\ status' \in Statuses
  /\ BenchClock(TRUE, TRUE)
  /\ txn' = NoTxn
  /\ UNCHANGED <<offer, rd, pc, expected, atResponse>>

FreeStep == pc = "free" /\ Next /\ UNCHANGED bench

BenchNext ==
  \/ \E a \in Config \cup Commands, g \in BOOLEAN : CallWrite(a, g)
  \/ \E a \in Config \cup ReadOnly \cup Commands, g \in BOOLEAN : CallRead(a, g)
  \/ BusTick
  \/ DriveStatus
  \/ FreeStep

\* The clock runs, and the coin of a gated helper does not come up tails for
\* ever.
BenchFairness == WF_benchVars(BusTick) /\ SF_benchVars(BusTick /\ ~Calling')

BenchSpec == BenchInit /\ [][BenchNext]_benchVars /\ BenchFairness

------------------------------------------------------------------------------
\* "expect_eq64" of every round trip: when a helper has returned, every
\* register holds the word last written to it, no write has leaked into
\* another register or another predicate slot, and nothing is in flight.
RoundTrip ==
  pc = "bench" /\ ~Calling =>
    /\ \A a \in Config : register(a) = expected[a]
    /\ ~bvalid_q /\ ~rvalid_q /\ awready_q /\ wready_q /\ arready_q

\* The two words of a wide value.
IsLow(word, value) ==
  word \in 0 .. WordSpan - 1 /\ \E high \in 0 .. value : value = high * WordSpan + word
IsHigh(word, value) ==
  \E low \in 0 .. WordSpan - 1 : value = word * WordSpan + low

\* What a read helper returns: the register of the address it asked for, and
\* of no other.  A configuration register reads as last written; STATUS, the
\* halves of result and count, and overflow read as they were in the first
\* cycle of the response, however the status moves afterwards and RREADY is
\* gated; CTRL, LOAD_ROW and unmapped words read as zero.
ReadsBack ==
  Returned /\ txn.kind = "R" =>
    CASE txn.addr \in Config -> txn.data = expected[txn.addr]
      [] txn.addr = Reg("STATUS") ->
           txn.data = [busy |-> atResponse.busy, done |-> atResponse.done,
                       error |-> atResponse.error]
      [] txn.addr = Reg("RESULT") -> IsLow(txn.data, atResponse.result)
      [] txn.addr = Reg("RESULT_HI") -> IsHigh(txn.data, atResponse.result)
      [] txn.addr = Reg("COUNT") -> IsLow(txn.data, atResponse.count)
      [] txn.addr = Reg("COUNT_HI") -> IsHigh(txn.data, atResponse.count)
      [] txn.addr = Reg("OVERFLOW") ->
           txn.data = (IF atResponse.overflow THEN 1 ELSE 0)
      [] txn.addr = Reg("CTRL") -> txn.data = [start |-> FALSE, abort |-> FALSE]
      [] txn.addr \in {Reg("LOAD_ROW"), Reg("UNMAPPED")} -> txn.data = 0

\* "load_wen pulses after commit ... clears next cycle", and the same for
\* start and abort: one cycle per write, also when the response is held up.
StrobeOnce ==
  Returned /\ txn.kind = "W" =>
    pulses = [start |-> IF txn.addr = Reg("CTRL") /\ txn.data.start THEN 1 ELSE 0,
              abort |-> IF txn.addr = Reg("CTRL") /\ txn.data.abort THEN 1 ELSE 0,
              load |-> IF txn.addr = Reg("LOAD_ROW") THEN 1 ELSE 0]

\* A helper returns as long as its coin does not come up tails for ever.
CallsReturn == Calling ~> ~Calling
==============================================================================
