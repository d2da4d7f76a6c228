----------------------------- MODULE PerfHarness -----------------------------
(***************************************************************************)
(* sim/tb_perf.cpp: the cycles from the start write of a workload to the   *)
(* first STATUS read that reports done.  Workloads are measured on the     *)
(* accelerator of TopBench between any of its scenarios, any number of     *)
(* times; cycles is Unmeasured outside of a measurement.  A workload may   *)
(* take longer than the polling lasts, as groupby_1024keys of main does.   *)
(***************************************************************************)
EXTENDS TopBench

CONSTANTS
  Workloads,    \* query configurations
  MaxPolls,     \* polls++ < MaxPolls in measure
  Unmeasured

VARIABLE cycles \* g_cycles - c0

perfVars == <<benchVars, cycles>>

Measuring == cycles # Unmeasured

\* The last measurement, if one was made, ended with done.
Settled == host.pc = "measured" => SawDone

PerfInit == BenchInit /\ cycles = Unmeasured

\* The configuration writes of measure, on the full table.  The workload that
\* runs out of polls is the last of main: only its repetitions follow it.
Measure(w) ==
  /\ NextScenario /\ Len(host.rows) = NUM_ROWS
  /\ Settled \/ w = host.query
  /\ Think([host EXCEPT !.pc = "write", !.then = "start", !.query = w,
       !.todo = PredWords(w.pred) \o <<Word("QUERY", 0, w.num_rows), AggWord(w),
                                       Word("PROJ_MASK", 0, w.proj)>>,
       !.polls = 0, !.got = <<>>, !.words = [x \in {} |-> 0],
       !.gated = FALSE, !.tready = TRUE])
  /\ cycles' = Unmeasured

\* c0 is taken and the start bit written.
StartWorkload ==
  /\ host.pc = "start"
  /\ Think([host EXCEPT !.pc = "write", !.then = "poll",
                        !.todo = <<CtrlWord(TRUE, FALSE)>>])
  /\ cycles' = 0
  /\ UNCHANGED <<cyc, stalls, unseen>>

\* tick counts the clocks of the bus helpers.
Tick(ready) ==
  /\ CoinTick(ready)
  /\ cycles' = IF Measuring THEN cycles + 1 ELSE cycles

\* Mutant: the loop ends with the first read, whatever it reports.
PollEndsFirst == Polled(1, "measured", "measured")

\* The loop of measure ends with done or with the poll count, unreported.
PollEnds == Polled(MaxPolls + 1, "measured", "measured")

Respond ==
  /\ \/ Drive
     \/ ~Measuring /\ StatusReply
     \/ Measuring /\ PollEnds /\ UNCHANGED <<cyc, stalls, unseen>>
     \/ CollectGroups
  /\ UNCHANGED cycles

PerfNext ==
  \/ Scenario /\ Settled /\ cycles' = Unmeasured
  \/ \E w \in Workloads : Measure(w)
  \/ StartWorkload
  \/ \E ready \in BOOLEAN : Tick(ready)
  \/ Respond
  \/ Spin /\ UNCHANGED cycles

\* The programs run, and no coin comes up tails for ever.
PerfFairness ==
  WF_perfVars(Respond) /\ WF_perfVars(StartWorkload) /\ WF_perfVars(Tick(TRUE))

PerfSpec == PerfInit /\ [][PerfNext]_perfVars /\ PerfFairness

------------------------------------------------------------------------------
ScannedRows == IF host.query.num_rows = 0 THEN NUM_ROWS ELSE host.query.num_rows

\* "returning the measured cycle count (start -> done)": when the last read of
\* measure reported done, the core is done.  A classic scan of n rows has then
\* taken 2n + 4 cycles whatever ran before it (docs/performance.md: 132, 516,
\* 1028 and 2052 for 64, 256, 512 and 1024 rows) and a GROUP BY more, unless
\* its start was refused and the done is that of its previous repetition,
\* which the error tells.  Without done the figure is the length of the
\* polling, which only a GROUP BY outlasts: the 131076 cycles of
\* docs/performance.md for 1024 keys are 2 + 2 * 65537.
MeasuredCycles ==
  host.pc = "measured" =>
    /\ SawDone => state_q = "DONE"
    /\ SawDone /\ ~host.query.groupby => cycles = 2 * ScannedRows + 4
    /\ SawDone /\ host.query.groupby =>
         cycles > 2 * ScannedRows + 4 \/ error_q = "START_BUSY"
    /\ ~SawDone => host.query.groupby /\ cycles = 2 + 2 * (MaxPolls + 1)
==============================================================================
