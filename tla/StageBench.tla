------------------------------ MODULE StageBench ------------------------------
(***************************************************************************)
(* sim/tb_predicate.cpp and sim/tb_projection.cpp: beats are driven        *)
(* through predicate_engine or projection_engine and every valid output is *)
(* compared with the next beat that was not consumed.  The two benches     *)
(* differ in the logic before the skid register and in what they expect.   *)
(* In a "free" run the wires are those of RegisterStage's own environment, *)
(* with resets and pauses the benches never make.                          *)
(***************************************************************************)
EXTENDS RegisterStage, Predicate

CONSTANTS
  Ops,         \* comparators a slot may name, reserved codes included
  Slots,       \* predicate configurations: pairs of slots
  Masks,       \* projection masks: column -> BOOLEAN
  Tables,      \* lists of rows a run may drive
  MaxStalls    \* tails of the coin in a run

\* The comparators the benches name, and what a slot of theirs is.
Comparators == {"EQ", "NEQ", "LT", "GT", "LTE", "GTE"}
SlotWord == [enable : BOOLEAN, op : Comparators, combine : {"AND", "OR"},
             column : Nat, imm : Nat]

\* A run of more than 64 tails could outlast the cycles of the loop.
ASSUME StageBenchAssumption ==
  /\ Slots \subseteq SlotWord \X SlotWord
  /\ \A t \in Tables : Len(t) \in Nat \ {0}
  /\ MaxStalls \in 1 .. 64

VARIABLES
  run,         \* [engine, slots or mask, beats] of the current run_beats
  presented, expected, cyc, tails

loop == <<presented, expected, cyc, tails>>
benchVars == <<vars, run, loop>>

\* Reference combination (two slots).
ref_pass(slots, cols) ==
  LET apply(s) == CASE s.op = "EQ" -> cols[s.column] = s.imm
                    [] s.op = "NEQ" -> cols[s.column] # s.imm
                    [] s.op = "LT" -> cols[s.column] < s.imm
                    [] s.op = "GT" -> cols[s.column] > s.imm
                    [] s.op = "LTE" -> cols[s.column] <= s.imm
                    [] OTHER -> cols[s.column] >= s.imm
      first == slots[1]
      second == slots[2]
  IN  CASE ~first.enable /\ ~second.enable -> TRUE
        [] first.enable /\ ~second.enable -> apply(first)
        [] ~first.enable /\ second.enable -> apply(second)
        [] OTHER -> IF second.combine = "AND" THEN apply(first) /\ apply(second)
                    ELSE apply(first) \/ apply(second)

\* make_beats: tlast on the final beat; tb_projection draws the pass bits.
PredicateBeats(rows) ==
  [i \in 1 .. Len(rows) |-> [columns |-> rows[i], pass |-> FALSE, last |-> i = Len(rows)]]
ProjectionBeats(rows, pass) ==
  [i \in 1 .. Len(rows) |-> [columns |-> rows[i], pass |-> pass[i], last |-> i = Len(rows)]]

Runs ==
  {[engine |-> "predicate", cfg |-> s, beats |-> PredicateBeats(t)] :
     s \in Slots, t \in Tables}
  \cup UNION {{[engine |-> "projection", cfg |-> m, beats |-> ProjectionBeats(t, p)] :
                 m \in Masks, p \in [1 .. Len(t) -> BOOLEAN]} : t \in Tables}

FreeRun == [engine |-> "free"]

\* The beat behind the combinational logic of the engine.
EngineBeat(r, b) ==
  IF r.engine = "predicate" THEN [b EXCEPT !.pass = PassBit(r.cfg, b.columns)]
  ELSE [b EXCEPT !.columns = Masked(b.columns, r.cfg)]

\* What run_beats expects of a beat.
RefBeat(b) ==
  IF run.engine = "predicate" THEN [b EXCEPT !.pass = ref_pass(run.cfg, b.columns)]
  ELSE [b EXCEPT !.columns = [c \in DOMAIN @ |-> IF run.cfg[c] THEN @[c] ELSE 0]]

\* The inputs at the head of a cycle, the coin's tready among them.
Offered(r, i) == EngineBeat(r, r.beats[IF i < Len(r.beats) THEN i + 1 ELSE i])
DriveInputs ==
  /\ rst' = FALSE
  /\ s_tvalid' = (presented' < Len(run'.beats))
  /\ s_beat' = Offered(run', presented')
  /\ m_tready' \in BOOLEAN
  /\ tails' < MaxStalls \/ m_tready'

BenchInit ==
  /\ Init
  /\ presented = 0 /\ expected = 0 /\ cyc = 0 /\ tails = 0
  /\ \/ run = FreeRun
     \/ /\ run \in Runs
        /\ ~rst /\ s_tvalid /\ s_beat = Offered(run, 0)

N == Len(run.beats)
Benched == run.engine # "free"
InLoop == (presented < N \/ expected < N) /\ cyc < 8 * N + 64

\* One cycle of run_beats.
BeatCycle ==
  /\ Benched /\ InLoop
  /\ tails' = IF m_tready THEN tails ELSE tails + 1
  /\ expected' = IF m_tvalid /\ m_tready /\ expected < N THEN expected + 1 ELSE expected
  /\ presented' = IF s_tvalid /\ s_axis_tready THEN presented + 1 ELSE presented
  /\ cyc' = cyc + 1
  /\ UNCHANGED run
  /\ DriveInputs
  /\ ClockEdge

\* The next run_beats on the same engine.
NextRun ==
  /\ Benched /\ ~InLoop
  /\ run' \in Runs
  /\ presented' = 0 /\ expected' = 0 /\ cyc' = 0 /\ tails' = 0
  /\ DriveInputs
  /\ UNCHANGED <<registerVars, delivered>>

FreeCycle ==
  /\ ~Benched
  /\ Next
  /\ UNCHANGED <<run, loop>>

BenchNext == BeatCycle \/ NextRun \/ FreeCycle

BenchSpec == BenchInit /\ [][BenchNext]_benchVars

------------------------------------------------------------------------------
\* The checks of run_beats: in every cycle in which the output is valid it
\* shows the next unconsumed beat as the reference computes it, whether it
\* comes from the register or straight from the input, and the loop ends with
\* every beat consumed once.
StageChecks ==
  Benched =>
    /\ InLoop /\ m_tvalid /\ expected < N => m_beat = RefBeat(run.beats[expected + 1])
    /\ ~InLoop => expected = N

\* The pass bit of predicate_engine.sv is the WHERE clause read from left to
\* right, with any slot before or after the two of the run: disabled slots
\* never count, wherever they stand, the combinator of the first enabled slot
\* is ignored, and no enabled slot lets every row pass.
PassIsWhere ==
  run.engine = "predicate" =>
    \A extra \in [enable : BOOLEAN, op : Ops, combine : {"AND", "OR"},
                  column : DOMAIN s_beat.columns, imm : {0, 1}] :
      \A slots \in {<<extra>> \o run.cfg, Append(run.cfg, extra)} :
        PassBit(slots, s_beat.columns) = Where(slots, s_beat.columns)
==============================================================================
