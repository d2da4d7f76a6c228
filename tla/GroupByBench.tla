----------------------------- MODULE GroupByBench -----------------------------
(***************************************************************************)
(* sim/tb_groupby.cpp, and the GROUP BY mode of sim/tb_aggregation.cpp: a  *)
(* list of rows is pushed while the engine accepts them, then its groups   *)
(* are collected until done.  Both loops give up after a number of cycles. *)
(* A row is [key, value, pass]; the output is always accepted, and the     *)
(* beats collected are the history variable out of GroupBySystem.  A       *)
(* behaviour that begins with pc = "free" has no bench: GroupBySystem      *)
(* starts, resets, feeds and stalls the engine as it likes.                *)
(***************************************************************************)
EXTENDS GroupBySystem, HashFold, SequencesExt

CONSTANTS
  RowLists,      \* lists of rows a query may push
  PushSlack,     \* the constant of each cycle bound in the code, scaled with
  DrainSlack     \* BUCKETS: 512 and 4096 for 256 buckets

VARIABLES
  pc, list, cyc,
  drainLimit     \* the bound of the collecting loop

bench == <<pc, list, cyc, drainLimit>>
benchVars == <<vars, bench>>

hash(key) == XorFold(key, BUCKETS)

\* RefTable::insert: the first free or matching slot on the probe chain, none
\* when the chain is exhausted.
RefInsert(slots, row) ==
  LET at(p) == slots[(hash(row.key) + p) % BUCKETS]
      fits == {p \in Bucket : ~at(p).valid \/ at(p).key = row.key}
      idx == (hash(row.key) + Min(fits)) % BUCKETS
      v == row.value
  IN  IF fits = {} THEN slots
      ELSE [slots EXCEPT ![idx] =
              IF ~@.valid
              THEN [valid |-> TRUE, key |-> row.key, count |-> 1, sum |-> v,
                    min |-> v, max |-> v]
              ELSE [@ EXCEPT !.count = @ + 1,
                             !.sum = Min({@ + v, GbAccMax}),
                             !.min = Min({@, v}),
                             !.max = Max({@, v})]]

\* The table after the rows that pass.
RefTable(pushed) ==
  FoldLeft(RefInsert, [b \in Bucket |-> EmptyBucket],
           SelectSeq(pushed, LAMBDA row : row.pass))

BenchInit ==
  /\ Init
  /\ pc \in {"idle", "free"} /\ list = <<>> /\ cyc = 0 /\ drainLimit = 0

\* The configuration is set and start pulsed.
Begin(rowList, limit) ==
  /\ pc \in {"idle", "checked"}
  /\ Start
  /\ pc' = "push" /\ list' = rowList /\ cyc' = 0 /\ drainLimit' = limit

run_query(rowList) == Begin(rowList, 16 * Len(rowList) + DrainSlack)
run_groupby_query(rowList) == Begin(rowList, DrainSlack)

Pushing == sent < Len(list) /\ cyc < 16 * Len(list) + PushSlack

\* The next row is offered; the engine looks at it only when it is ready.
PushRow ==
  /\ pc = "push" /\ Pushing
  /\ LET row == list[sent + 1]
     IN  IF s_axis_tready
         THEN Beat(row.pass, row.key, row.value, sent + 1 = Len(list))
         ELSE Tick(TRUE)
  /\ cyc' = cyc + 1
  /\ UNCHANGED <<pc, list, drainLimit>>

PushEnds ==
  /\ pc = "push" /\ ~Pushing
  /\ pc' = "drain" /\ cyc' = 0
  /\ UNCHANGED <<vars, list, drainLimit>>

Draining == ~done_q /\ cyc < drainLimit

Collect ==
  /\ pc = "drain" /\ Draining
  /\ Tick(TRUE)
  /\ cyc' = cyc + 1
  /\ UNCHANGED <<pc, list, drainLimit>>

DrainEnds ==
  /\ pc = "drain" /\ ~Draining
  /\ pc' = "checked"
  /\ UNCHANGED <<vars, list, cyc, drainLimit>>

Proceed == PushRow \/ PushEnds \/ Collect \/ DrainEnds

Free(A) == pc = "free" /\ A /\ UNCHANGED bench

BenchNext ==
  \/ \E rowList \in RowLists : run_query(rowList) \/ run_groupby_query(rowList)
  \/ Proceed
  \/ Free(Next)

\* The bench's thread runs; without it the environment is that of
\* GroupBySystem, with its fairness.
BenchFairness ==
  /\ WF_benchVars(Proceed)
  /\ WF_benchVars(Free(Tick(TRUE)))
  /\ SF_benchVars(Free(SomeBeat))

BenchSpec == BenchInit /\ [][BenchNext]_benchVars /\ BenchFairness

------------------------------------------------------------------------------
\* The checks of both procedures.  Within the cycle bounds every row has been
\* accepted and the query is done, with neither busy nor ready left over; the
\* groups are exactly the slots of the reference table, in bucket order, with
\* its count, sum, minimum and maximum, and tlast is on the first just when it
\* is the only one.  Whatever an earlier query left in the buckets plays no
\* part.
QueryChecks ==
  pc = "checked" =>
    LET ref == RefTable(list)
        valid == SelectSeq([b \in 1 .. BUCKETS |-> ref[b - 1]], LAMBDA s : s.valid)
    IN  /\ sent = Len(list) /\ done_q /\ ~busy_q /\ ~s_axis_tready
        /\ [i \in 1 .. Len(out) |-> out[i].group]
             = [i \in 1 .. Len(valid) |-> [f \in DOMAIN NoGroup |-> valid[i][f]]]
        /\ out # <<>> => out[1].last = (Len(out) = 1)
==============================================================================
