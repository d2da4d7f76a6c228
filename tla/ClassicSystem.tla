---------------------------- MODULE ClassicSystem ----------------------------
(***************************************************************************)
(* ClassicEngines fed by an arbitrary stream of at most RowLimit beats per *)
(* query (what the reader delivers), with idle cycles, starts and resets   *)
(* at any time.  `tally` records what the accepted passing rows really     *)
(* contain, in unbounded arithmetic.                                       *)
(***************************************************************************)
EXTENDS ClassicEngines

CONSTANT RowLimit     \* beats per query: at most the rows of the table
ASSUME RowAssumption == RowLimit \in Nat \ {0} /\ RowLimit <= AccMax

VARIABLES
  beats,              \* beats accepted since the start of the query
  tally               \* of the accepted passing rows: number, total, values

vars == <<engineVars, beats, tally>>

Values == 0 .. ColMax
NoRows == [n |-> 0, total |-> 0, values |-> {}]

Init == EnginesInit /\ beats = 0 /\ tally = NoRows

Reset == EnginesReset /\ beats' = 0 /\ tally' = NoRows

Start == EnginesEdge(TRUE, FALSE, FALSE, 0, FALSE) /\ beats' = 0 /\ tally' = NoRows

\* A beat on the stream.  It counts only if the sink is ready.
Beat(pass, v, last) ==
  /\ beats < RowLimit
  /\ beats + 1 = RowLimit => last
  /\ EnginesEdge(FALSE, TRUE, pass, v, last)
  /\ beats' = IF classic_tready THEN beats + 1 ELSE beats
  /\ tally' = IF classic_tready /\ pass
              THEN [n |-> tally.n + 1, total |-> tally.total + v,
                    values |-> tally.values \cup {v}]
              ELSE tally

Next ==
  \/ Reset
  \/ Start
  \/ \E pass, last \in BOOLEAN, v \in Values : Beat(pass, v, last)

Spec == Init /\ [][Next]_vars

------------------------------------------------------------------------------
\* Every register fits its width.
TypeOK ==
  /\ acc_q \in [Engines -> 0 .. AccMax]
  /\ acc_q["MIN"] \in Values /\ acc_q["MAX"] \in Values
  /\ overflow_q \in [Summing -> BOOLEAN]
  /\ avg_count_q \in 0 .. AccMax
  /\ result_q \in [Engines -> 0 .. AccMax]
  /\ avg_result_q \in 0 .. AccMax
  /\ busy_q \in [Engines -> BOOLEAN]
  /\ done_q \in [Engines -> BOOLEAN]
  /\ beats \in 0 .. RowLimit
  /\ tally \in [n : Nat, total : Nat, values : SUBSET Values]

\* aggregation_top connects only COUNT's ready and done ("their timing is
\* identical"): the other engines accept and finish exactly when COUNT does.
Lockstep ==
  \A e \in Engines : busy_q[e] = busy_q["COUNT"] /\ done_q[e] = done_q["COUNT"]

\* What each engine should hold for the rows in `tally`: SUM and AVG the
\* total clipped at all-ones, MIN all-ones and MAX zero when no row passed.
Expected(e) ==
  CASE e = "COUNT" -> tally.n
    [] e \in Summing -> IF tally.total > AccMax THEN AccMax ELSE tally.total
    [] e = "MIN" -> IF tally.n = 0 THEN ColMax
                    ELSE CHOOSE x \in tally.values :
                           \A y \in tally.values : x <= y
    [] e = "MAX" -> IF tally.n = 0 THEN 0
                    ELSE CHOOSE x \in tally.values :
                           \A y \in tally.values : x >= y

\* While a query runs and after it, every accumulator is exact and the
\* overflow flag is set if and only if the true total does not fit, however
\* the total got there (saturation is permanent, adding zero at all-ones is
\* not an overflow).
ExactOrSaturated ==
  /\ \A e \in Engines : acc_q[e] = Expected(e)
  /\ \A e \in Summing : overflow_q[e] <=> tally.total > AccMax
  /\ avg_count_q = tally.n

\* The latched results are those of all accepted rows, the final row's
\* contribution included, and AVG's sum belongs to the same rows as the
\* count that COUNT reports for the division in software.
DoneResults ==
  done_q["COUNT"] =>
    /\ \A e \in Engines : result_q[e] = Expected(e)
    /\ avg_result_q = result_q["COUNT"]

\* The accumulator width of db_pkg (COLUMN_WIDTH plus the row address bits)
\* suffices: as long as the rows taken so far would fit if they were all
\* all-ones, SUM and AVG have not saturated.
WidthSuffices ==
  beats * ColMax <= AccMax => \A e \in Summing : ~overflow_q[e]
==============================================================================
