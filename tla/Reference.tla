------------------------------ MODULE Reference ------------------------------
(***************************************************************************)
(* sim/dbqa_reference.hpp: the software model the top-level benches check  *)
(* the accelerator against.  rows is the sequence of rows a test loaded;   *)
(* a test sees a table of NUM_ROWS rows whose remaining rows are zero.     *)
(***************************************************************************)
EXTENDS Naturals, Sequences, SequencesExt

CONSTANTS NUM_ROWS, NUM_COLS, ColMax, SUM_MAX

pred_pass(op, a, b) ==
  CASE op = "EQ" -> a = b
    [] op = "NEQ" -> a # b
    [] op = "LT" -> a < b
    [] op = "GT" -> a > b
    [] op = "LTE" -> a <= b
    [] op = "GTE" -> a >= b
    [] OTHER -> FALSE

row_at(rows, i) ==
  IF i <= Len(rows) THEN rows[i] ELSE [c \in 0 .. NUM_COLS - 1 |-> 0]

\* The rows a query scans: 0 asks for the whole table, as any bound beyond it.
Scanned(rows, num_rows) ==
  LET n == IF num_rows = 0 \/ num_rows > NUM_ROWS THEN NUM_ROWS ELSE num_rows
  IN  [i \in 1 .. n |-> row_at(rows, i)]

\* One row folded into count, saturating sum, minimum and maximum.
AggStep(r, v) ==
  [count |-> r.count + 1,
   sum |-> IF r.sum + v > SUM_MAX THEN SUM_MAX ELSE r.sum + v,
   mn |-> IF v < r.mn THEN v ELSE r.mn,
   mx |-> IF v > r.mx THEN v ELSE r.mx]

\* Classic aggregation with an optional predicate [enable, op, imm, column].
reference(rows, num_rows, agg_col, pred) ==
  LET step(r, x) == IF pred.enable /\ ~pred_pass(pred.op, x[pred.column], pred.imm)
                    THEN r ELSE AggStep(r, x[agg_col])
  IN  FoldLeft(step, [count |-> 0, sum |-> 0, mn |-> ColMax, mx |-> 0],
               Scanned(rows, num_rows))

\* GROUP BY: count and sum of each key, as a function from the keys.  The
\* sums do not saturate and the bounds of a group are not kept.
groupby_ref(rows, num_rows, key_col, value_col) ==
  LET seen == Scanned(rows, num_rows)
      keys == {seen[i][key_col] : i \in 1 .. Len(seen)}
      add(g, x) == [g EXCEPT ![x[key_col]].count = @ + 1,
                             ![x[key_col]].sum = @ + x[value_col]]
  IN  FoldLeft(add, [k \in keys |-> [count |-> 0, sum |-> 0]], seen)
==============================================================================
