--------------------------- MODULE ClassicEngines ---------------------------
(***************************************************************************)
(* rtl/operators/{count,sum,min,max,avg}_engine.sv: the five classic       *)
(* aggregation sinks as aggregation_top.sv instantiates them, all fed by   *)
(* the same stream.  Each engine has its own busy and done flag, but only  *)
(* COUNT's tready and done are connected; the others are ignored, so the   *)
(* design depends on the engines moving in lock step.                      *)
(*                                                                         *)
(* Registers of the five engines with the same name form one function of   *)
(* the engine.  Inputs of a clock edge are parameters: ClassicSystem       *)
(* closes the module, QueryPipeline chains it.                             *)
(***************************************************************************)
EXTENDS Naturals

CONSTANTS
  ColMax,     \* 2^COLUMN_W - 1, all-ones in a column
  AccMax      \* 2^ACCUM_W - 1, all-ones in an accumulator

ASSUME WidthAssumption ==
  /\ ColMax \in Nat
  /\ AccMax \in Nat /\ ColMax <= AccMax

VARIABLES
  acc_q,          \* running accumulator (AVG: sum_q)
  overflow_q,     \* saturation flag of SUM and of AVG
  avg_count_q,    \* AVG's own row counter
  result_q,       \* latched result (AVG: sum_result_q)
  avg_result_q,   \* AVG's count_result_q
  busy_q,
  done_q

engineVars ==
  <<acc_q, overflow_q, avg_count_q, result_q, avg_result_q, busy_q, done_q>>

Engines == {"COUNT", "SUM", "MIN", "MAX", "AVG"}
Summing == {"SUM", "AVG"}

\* MIN starts from all-ones, the others from zero.
Identity(e) == IF e = "MIN" THEN ColMax ELSE 0

\* The (ACCUM_W+1)-bit sum; its carry-out saturates the accumulator.
sum_ext(e, v) == acc_q[e] + v

\* Next accumulators for a beat whose pass bit is set and whose configured
\* column holds v.
sum_next(e, v) == IF sum_ext(e, v) > AccMax THEN AccMax ELSE sum_ext(e, v)
count_next(n) == (n + 1) % (AccMax + 1)
min_next(v) == IF v < acc_q["MIN"] THEN v ELSE acc_q["MIN"]
max_next(v) == IF v > acc_q["MAX"] THEN v ELSE acc_q["MAX"]

acc_next(e, v) ==
  CASE e = "COUNT" -> count_next(acc_q[e])
    [] e \in Summing -> sum_next(e, v)
    [] e = "MIN" -> min_next(v)
    [] e = "MAX" -> max_next(v)

\* Mutant: the overflow flag is not sticky.
OfNextForgets(e, v) == sum_ext(e, v) > AccMax

of_next(e, v) == overflow_q[e] \/ sum_ext(e, v) > AccMax

EnginesInit ==
  /\ acc_q = [e \in Engines |-> Identity(e)]
  /\ overflow_q = [e \in Summing |-> FALSE]
  /\ avg_count_q = 0
  /\ result_q = [e \in Engines |-> 0]
  /\ avg_result_q = 0
  /\ busy_q = [e \in Engines |-> FALSE]
  /\ done_q = [e \in Engines |-> FALSE]

\* Mutants: a register survives the start of the next query.
ClearKeepsAvgCount ==
  /\ acc_q' = [e \in Engines |-> Identity(e)]
  /\ overflow_q' = [e \in Summing |-> FALSE]
  /\ result_q' = [e \in Engines |-> 0]
  /\ avg_result_q' = 0
  /\ UNCHANGED avg_count_q
ClearKeepsAccumulators ==
  /\ overflow_q' = [e \in Summing |-> FALSE]
  /\ avg_count_q' = 0
  /\ result_q' = [e \in Engines |-> 0]
  /\ avg_result_q' = 0
  /\ UNCHANGED acc_q

\* Accumulators and results return to their initial values, in reset and at
\* the start of a query.
ClearAccumulators ==
  /\ acc_q' = [e \in Engines |-> Identity(e)]
  /\ overflow_q' = [e \in Summing |-> FALSE]
  /\ avg_count_q' = 0
  /\ result_q' = [e \in Engines |-> 0]
  /\ avg_result_q' = 0

EnginesReset ==
  /\ ClearAccumulators
  /\ busy_q' = [e \in Engines |-> FALSE]
  /\ done_q' = [e \in Engines |-> FALSE]

\* Mutant: AVG misses the start.
EnginesStartWithoutAvg ==
  /\ ClearAccumulators
  /\ busy_q' = [e \in Engines |-> e # "AVG"]
  /\ done_q' = [e \in Engines |-> FALSE]

EnginesStart ==
  /\ ClearAccumulators
  /\ busy_q' = [e \in Engines |-> TRUE]
  /\ done_q' = [e \in Engines |-> FALSE]

\* A beat is offered: every busy engine consumes it, and the final beat
\* latches the results, its own contribution included.
Consume(pass, v, last) ==
  LET takes(e) == busy_q[e] /\ pass
      acc == [e \in Engines |-> IF takes(e) THEN acc_next(e, v) ELSE acc_q[e]]
      avgCount == IF takes("AVG") THEN count_next(avg_count_q) ELSE avg_count_q
      ends(e) == busy_q[e] /\ last
  IN  /\ acc_q' = acc
      /\ overflow_q' = [e \in Summing |-> IF takes(e) THEN of_next(e, v)
                                                      ELSE overflow_q[e]]
      /\ avg_count_q' = avgCount
      /\ result_q' = [e \in Engines |-> IF ends(e) THEN acc[e] ELSE result_q[e]]
      /\ avg_result_q' = IF ends("AVG") THEN avgCount ELSE avg_result_q
      /\ busy_q' = [e \in Engines |-> busy_q[e] /\ ~last]
      /\ done_q' = [e \in Engines |-> done_q[e] \/ ends(e)]

\* The only sink ready that is connected.
classic_tready == busy_q["COUNT"]

\* One clock edge without reset.
EnginesEdge(start, sValid, pass, v, last) ==
  \/ start /\ EnginesStart
  \/ ~start /\ sValid /\ Consume(pass, v, last)
  \/ ~start /\ ~sValid /\ UNCHANGED engineVars
==============================================================================
