----------------------------- MODULE ReaderBench -----------------------------
(***************************************************************************)
(* sim/tb_reader.cpp: column_reader against the table that was loaded.     *)
(* run_query, run_bounded_query and run_stress follow one another in any   *)
(* order on one instance; they differ in the bound and in how tready is    *)
(* driven, which is all that the record run keeps of them:                 *)
(*   kind      whose tready policy        tails     stalls of the coin     *)
(*   head      stall_start left           mid       stall_mid left         *)
(*   midded    mid_started                                                 *)
(* A behaviour that begins with pc = "free" has no bench: the reader lives *)
(* in the environment of ReaderSystem, with resets and loads at will.      *)
(***************************************************************************)
EXTENDS ReaderSystem

CONSTANTS
  MaxStalls,      \* tails of the coin in a run
  StallStarts,    \* values of stall_start
  StallMids       \* values of stall_mid

StallProfiles == StallStarts \X StallMids

\* A run that stalls longer could outlast the cycles of its loop.
ASSUME ReaderBenchAssumption ==
  /\ MaxStalls \in 0 .. 5 * NUM_ROWS + 64
  /\ StallProfiles \subseteq Nat \X Nat
  /\ \A p \in StallProfiles : p[1] + p[2] + MaxStalls < 13 * NUM_ROWS + 512

VARIABLES
  pc,
  table,      \* the table of the run
  run,
  cyc,        \* the counter of the current loop
  expected    \* the next row to receive

bench == <<pc, table, run, cyc, expected>>
benchVars == <<vars, bench>>

NewRun(kind, profile) ==
  [kind |-> kind, head |-> profile[1], mid |-> 0,
   stall_mid |-> profile[2], midded |-> FALSE, tails |-> 0]

BenchInit ==
  /\ Init
  /\ pc \in {"checked", "free"} /\ cyc = 0 /\ expected = 0
  /\ table = [a \in Rows |-> Blank] /\ run = NewRun("query", <<0, 0>>)

\* One of the three procedures is called; the bound is an input wire.
Call(r, bound) ==
  /\ pc = "checked"
  /\ scan_bound' = bound
  /\ pc' = "load" /\ run' = r /\ cyc' = 0 /\ expected' = 0
  /\ UNCHANGED <<readerVars, table>>

RunQuery(allow_stall) ==
  Call(NewRun(IF allow_stall THEN "stall" ELSE "query", <<0, 0>>), 0)
RunBoundedQuery(bound) == Call(NewRun("bounded", <<0, 0>>), bound)
RunStress(profile) == Call(NewRun("stress", profile), 0)

Clock(start, load, ready) ==
  /\ ReaderEdge(start, scan_bound, load, ready)
  /\ UNCHANGED scan_bound

\* The table is loaded a row per cycle; one cycle passes before the start.
LoadRow ==
  /\ pc = "load" /\ cyc < NUM_ROWS
  /\ \E r \in Row :
       /\ Clock(FALSE, [a \in {cyc} |-> r], FALSE)
       /\ table' = [table EXCEPT ![cyc] = r]
  /\ cyc' = cyc + 1
  /\ UNCHANGED <<pc, run, expected>>

LoadDone ==
  /\ pc = "load" /\ cyc = NUM_ROWS
  /\ Clock(FALSE, NoLoad, FALSE)
  /\ pc' = "start"
  /\ UNCHANGED <<table, run, cyc, expected>>

Pulse ==
  /\ pc = "start"
  /\ Clock(TRUE, NoLoad, FALSE)
  /\ pc' = "stream" /\ cyc' = 0
  /\ UNCHANGED <<table, run, expected>>

\* Rows the run expects.
Expect == IF scan_bound = 0 \/ scan_bound > NUM_ROWS THEN NUM_ROWS ELSE scan_bound
LoopLimit == IF run.kind = "stress" THEN 16 * NUM_ROWS + 512 ELSE 8 * NUM_ROWS + 64

Coin(ready) ==
  /\ ready \/ run.tails < MaxStalls
  /\ run' = IF ready THEN run ELSE [run EXCEPT !.tails = @ + 1]

\* The stall profile of run_stress: a burst at the head, one in the middle,
\* the coin otherwise.
StressReady(ready) ==
  CASE m_axis_tvalid /\ run.head > 0 ->
         ~ready /\ run' = [run EXCEPT !.head = @ - 1]
    [] m_axis_tvalid /\ run.head = 0 /\ ~run.midded /\ expected >= NUM_ROWS \div 2 ->
         ~ready /\ run' = [run EXCEPT !.midded = TRUE, !.mid = run.stall_mid]
    [] m_axis_tvalid /\ run.head = 0 /\ run.midded /\ run.mid > 0 ->
         ~ready /\ run' = [run EXCEPT !.mid = @ - 1]
    [] OTHER -> Coin(ready)

Ready(ready) ==
  CASE run.kind = "stress" -> StressReady(ready)
    [] run.kind = "stall" -> Coin(ready)
    [] OTHER -> ready /\ UNCHANGED run

\* One cycle of the receiving loop.
Receive ==
  /\ pc = "stream" /\ expected < Expect /\ cyc < LoopLimit
  /\ \E ready \in BOOLEAN :
       /\ Ready(ready)
       /\ Clock(FALSE, NoLoad, ready)
       /\ expected' = IF m_axis_tvalid /\ ready THEN expected + 1 ELSE expected
  /\ cyc' = cyc + 1
  /\ UNCHANGED <<pc, table>>

Received ==
  /\ pc = "stream" /\ (expected = Expect \/ cyc = LoopLimit)
  /\ pc' = "received" /\ cyc' = 0
  /\ UNCHANGED <<vars, table, run, expected>>

\* The loop that drains the output FIFO.
DrainFifo ==
  /\ pc = "received"
  /\ Clock(FALSE, NoLoad, TRUE)
  /\ cyc' = cyc + 1
  /\ pc' = IF fifo' = <<>> \/ cyc' = (IF run.kind = "stress" THEN 64 ELSE 32)
           THEN "checked" ELSE pc
  /\ UNCHANGED <<table, run, expected>>

FreeTick(ready) ==
  /\ pc = "free"
  /\ Tick(ready)
  /\ UNCHANGED bench

FreeStep ==
  /\ pc = "free"
  /\ Reset \/ Start \/ Load \/ Configure
  /\ UNCHANGED bench

BenchStep ==
  \/ \E allow_stall \in BOOLEAN : RunQuery(allow_stall)
  \/ \E bound \in Bounds : RunBoundedQuery(bound)
  \/ \E profile \in StallProfiles : RunStress(profile)
  \/ LoadRow
  \/ LoadDone
  \/ Pulse
  \/ Receive
  \/ Received
  \/ DrainFifo

BenchNext == BenchStep \/ FreeStep \/ \E ready \in BOOLEAN : FreeTick(ready)

\* The bench's thread runs; without it the clock does, and the downstream is
\* ready again and again.
BenchFairness == WF_benchVars(BenchStep) /\ WF_benchVars(FreeTick(TRUE))

BenchSpec == BenchInit /\ [][BenchNext]_benchVars /\ BenchFairness

------------------------------------------------------------------------------
\* The checks of the three procedures, for every bound and stall profile: a
\* beat the bench sees while it receives, accepted or held by a stall, is the
\* next row of the loaded table, passes, and has tlast exactly on the final
\* row of the bound; within the cycles of the loop all rows come, and with the
\* last of them the reader has reported done, dropped busy and left nothing in
\* its FIFO.
RunChecks ==
  /\ pc = "stream" /\ expected < Expect /\ m_axis_tvalid =>
       /\ Head(fifo).columns = table[expected]
       /\ Head(fifo).pass
       /\ Head(fifo).last = (expected = Expect - 1)
  /\ pc = "received" /\ cyc = 0 => expected = Expect /\ done_q /\ ~busy_q
  /\ pc = "checked" => fifo = <<>>
==============================================================================
