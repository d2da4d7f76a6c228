---------------------------- MODULE SchedulerBench ----------------------------
(***************************************************************************)
(* sim/tb_scheduler.cpp: the core driven at its ports.  main is            *)
(* generalised to any sequence of loads and queries, and its one illegal   *)
(* start, in the cycle after the legal one, to any cycle of any query.  As *)
(* in main, a query asks for no more rows than the last load wrote, and    *)
(* the groups are always accepted.  A behaviour that begins with           *)
(* pc = "free" has no bench but the host of QuerySystem.                   *)
(***************************************************************************)
EXTENDS QuerySystem, SequencesExt, TLC

CONSTANTS
  BenchTables,    \* tables the bench loads: sequences of rows
  Queries,        \* query configurations it runs
  LoopSlack       \* the constant of the cycle bound: 16384 for 1024 rows

VARIABLES
  pc, rows, addr, cyc,
  illegal         \* start was pulsed again during this query

bench == <<pc, rows, addr, cyc, illegal>>
benchVars == <<vars, bench>>

BenchInit ==
  /\ \/ /\ pc = "rest"
        /\ mem = [r \in 0 .. NUM_ROWS - 1 |-> NoBeat.columns]
        /\ bank_rdata = NoBeat.columns
        /\ cfg \in Queries
        /\ Init
     \/ pc = "free" /\ HostInit
  /\ rows = <<>> /\ addr = 0 /\ cyc = 0 /\ illegal = FALSE

AtRest == pc \in {"rest", "checked"}

load_table(table) ==
  /\ AtRest
  /\ pc' = "load" /\ rows' = table /\ addr' = 0
  /\ UNCHANGED <<vars, cyc, illegal>>

\* A row is written in one cycle, and a cycle passes without load_wen.
LoadRow ==
  /\ pc = "load" /\ addr < Len(rows)
  /\ Edge(FALSE, addr :> rows[addr + 1], TRUE)
  /\ pc' = "loaded"
  /\ UNCHANGED <<cfg, rows, addr, cyc, illegal>>

LoadGap ==
  /\ pc = "loaded"
  /\ Edge(FALSE, NoLoad, TRUE)
  /\ addr' = addr + 1
  /\ pc' = IF addr + 1 = Len(rows) THEN "rest" ELSE "load"
  /\ UNCHANGED <<cfg, rows, cyc, illegal>>

\* set_pred, query_cfg and pack_agg: the ports take the query's values.
SetPorts(q) ==
  /\ AtRest
  /\ Len(rows) = NUM_ROWS \/ (q.num_rows > 0 /\ q.num_rows <= Len(rows))
  /\ cfg' = q
  /\ pc' = "start" /\ cyc' = 0 /\ illegal' = FALSE
  /\ UNCHANGED <<readerVars, skidVars, classicVars, gbVars, fsmVars, out, rows, addr>>

PulseStart ==
  /\ pc = "start"
  /\ Edge(TRUE, NoLoad, TRUE)
  /\ pc' = "run"
  /\ UNCHANGED <<cfg, rows, addr, cyc, illegal>>

Looping == state_q # "DONE" /\ cyc < 16 * Len(rows) + LoopSlack

\* One cycle of the waiting loop.
Wait(start) ==
  /\ pc = "run" /\ Looping
  /\ Edge(start, NoLoad, TRUE)
  /\ cyc' = cyc + 1
  /\ illegal' = (illegal \/ start)
  /\ UNCHANGED <<cfg, pc, rows, addr>>

LoopEnds ==
  /\ pc = "run" /\ ~Looping
  /\ pc' = "checked"
  /\ UNCHANGED <<vars, rows, addr, cyc, illegal>>

Proceed ==
  \/ LoadRow
  \/ LoadGap
  \/ PulseStart
  \/ Wait(FALSE)
  \/ LoopEnds

Free(A) == pc = "free" /\ A /\ UNCHANGED bench

BenchNext ==
  \/ \E table \in BenchTables : load_table(table)
  \/ \E q \in Queries : SetPorts(q)
  \/ Proceed
  \/ ~illegal /\ Wait(TRUE)
  \/ Free(Next)

\* The bench's thread runs; without it the clock does, and the consumer of
\* the groups is ready again and again.
BenchFairness == WF_benchVars(Proceed) /\ WF_benchVars(Free(Tick(TRUE)))

BenchSpec == BenchInit /\ [][BenchNext]_benchVars /\ BenchFairness

CarelessSpec ==
  BenchInit /\ [][BenchNext \/ Free(Reconfigure)]_benchVars /\ BenchFairness

------------------------------------------------------------------------------
Ref == INSTANCE Reference WITH SUM_MAX <- AccMax

reference == Ref!reference(rows, cfg.num_rows, cfg.column, cfg.pred[1])
groupby_ref == Ref!groupby_ref(rows, cfg.num_rows, cfg.gby_key, cfg.column)

\* The std::map of the groups collected.
got ==
  FoldLeft(LAMBDA m, b : (b.group.key :> [count |-> b.group.count, sum |-> b.group.sum]) @@ m,
           <<>>, out)

\* The checks of run_classic and run_groupby, for any history of loads and
\* queries and with an illegal start in any cycle: the query completes before
\* its loop gives up; result, count and overflow are the reference's; every
\* group of the reference is collected before done, once, with its count and
\* sum, and the classic ports then read zero.
RunMatches ==
  pc = "checked" =>
    /\ state_q = "DONE"
    /\ cfg.groupby => got = groupby_ref /\ count_q = 0 /\ result_q = 0
    /\ ~cfg.groupby =>
         /\ count_q = reference.count
         /\ result_q = CASE cfg.op = "COUNT" -> reference.count
                         [] cfg.op \in {"SUM", "AVG"} -> reference.sum
                         [] cfg.op = "MIN" -> reference.mn
                         [] cfg.op = "MAX" -> reference.mx
         /\ overflow_q = (reference.sum = AccMax)

\* "error = ERR_START_BUSY": a completed query reports it exactly when start
\* was pulsed while it ran, and forgets the one before.
ErrorIsThisQuerys ==
  pc = "checked" => error_q = IF illegal THEN "START_BUSY" ELSE "NONE"
==============================================================================
