--------------------------- MODULE AggregationBench ---------------------------
(***************************************************************************)
(* sim/tb_aggregation.cpp, classic mode: queries of one opcode over lists  *)
(* of beats, each compared with a software fold.  A beat is [pass, v], v   *)
(* the word in the configured column.  GROUP BY mode is in GroupByBench.   *)
(* A behaviour that begins with pc = "free" has no bench: ClassicSystem    *)
(* starts and resets the engines and feeds them as it likes.               *)
(***************************************************************************)
EXTENDS ClassicSystem, SequencesExt

CONSTANTS
  Words,     \* words of the configured column in a list of beats
  MaxBeats   \* length of the longest list

ASSUME BeatsAssumption == Words \subseteq Values /\ MaxBeats \in Nat

\* The lists of beats a query may see.
BeatLists ==
  UNION {[1 .. n -> [pass : BOOLEAN, v : Words]] : n \in 1 .. MaxBeats}

VARIABLES pc, op, list, i

bench == <<pc, op, list, i>>
benchVars == <<vars, bench>>

reference(rows) ==
  LET step(r, b) ==
        IF ~b.pass THEN r
        ELSE [count |-> r.count + 1,
              overflow |-> r.overflow \/ r.sum + b.v > AccMax,
              sum |-> IF r.overflow \/ r.sum + b.v > AccMax THEN AccMax ELSE r.sum + b.v,
              minv |-> IF b.v < r.minv THEN b.v ELSE r.minv,
              maxv |-> IF b.v > r.maxv THEN b.v ELSE r.maxv]
  IN  FoldLeft(step, [count |-> 0, overflow |-> FALSE, sum |-> 0,
                      minv |-> ColMax, maxv |-> 0], rows)

BenchInit ==
  /\ Init
  /\ pc \in {"idle", "free"} /\ op = "COUNT" /\ list = <<>> /\ i = 0

\* run_query: the opcode is set and start pulsed.
RunQuery(newOp, rows) ==
  /\ pc \in {"idle", "checked"}
  /\ Start
  /\ pc' = "beats" /\ op' = newOp /\ list' = rows /\ i' = 1

\* One beat per cycle, without looking at tready; tlast on the final one.
DriveBeat ==
  /\ pc = "beats" /\ i <= Len(list)
  /\ Beat(list[i].pass, list[i].v, i = Len(list))
  /\ i' = i + 1
  /\ UNCHANGED <<pc, op, list>>

IdleCycle ==
  /\ pc = "beats" /\ i > Len(list)
  /\ EnginesEdge(FALSE, FALSE, FALSE, 0, FALSE)
  /\ pc' = "checked"
  /\ UNCHANGED <<beats, tally, op, list, i>>

FreeStep ==
  /\ pc = "free"
  /\ Next
  /\ UNCHANGED bench

BenchNext ==
  \/ \E o \in Engines, rows \in BeatLists : RunQuery(o, rows)
  \/ DriveBeat
  \/ IdleCycle
  \/ FreeStep

BenchSpec == BenchInit /\ [][BenchNext]_benchVars

------------------------------------------------------------------------------
\* The checks of run_query: a query driven blindly, without regard to tready,
\* ends after its last beat with the reference's count, primary result and
\* overflow flag, whatever the engines accumulated before.
QueryChecks ==
  pc = "checked" =>
    LET ref == reference(list)
    IN  /\ done_q["COUNT"] /\ ~busy_q["COUNT"] /\ ~classic_tready
        /\ result_q["COUNT"] = ref.count
        /\ result_q[op] = CASE op = "COUNT" -> ref.count
                            [] op \in Summing -> ref.sum
                            [] op = "MIN" -> ref.minv
                            [] op = "MAX" -> ref.maxv
        /\ overflow_q["SUM"] = ref.overflow
==============================================================================
