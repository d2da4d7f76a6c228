------------------------------ MODULE Predicate ------------------------------
(***************************************************************************)
(* The combinational part of predicate_engine.sv and projection_engine.sv, *)
(* with the comparator semantics of db_pkg.sv.  A predicate slot is a      *)
(* record [enable, op, combine, column, imm]; a configuration is a         *)
(* sequence of slots.                                                      *)
(***************************************************************************)
EXTENDS Naturals, Sequences

pred_apply(op, a, b) ==
  CASE op = "EQ" -> a = b
    [] op = "NEQ" -> a # b
    [] op = "LT" -> a < b
    [] op = "GT" -> a > b
    [] op = "LTE" -> a <= b
    [] op = "GTE" -> a >= b
    [] OTHER -> FALSE

pred_combine(lhs, op, rhs) == IF op = "AND" THEN lhs /\ rhs ELSE lhs \/ rhs

slot_result(slot, columns) ==
  pred_apply(slot.op, columns[slot.column], slot.imm)

\* Mutant: the first enabled slot combines with the initial TRUE.
PassBitUnseeded(slots, columns) ==
  LET fold[i \in 0 .. Len(slots)] ==
        IF i = 0 THEN TRUE
        ELSE IF ~slots[i].enable THEN fold[i - 1]
        ELSE pred_combine(fold[i - 1], slots[i].combine,
                          slot_result(slots[i], columns))
  IN  fold[Len(slots)]

\* The fold over the slots: the first enabled slot seeds the pass bit, later
\* enabled slots combine with it, disabled slots are skipped.
PassBit(slots, columns) ==
  LET fold[i \in 0 .. Len(slots)] ==
        IF i = 0 THEN [found |-> FALSE, pass |-> TRUE]
        ELSE LET before == fold[i - 1]
                 here == slot_result(slots[i], columns)
             IN  CASE ~slots[i].enable -> before
                   [] slots[i].enable /\ ~before.found ->
                        [found |-> TRUE, pass |-> here]
                   [] slots[i].enable /\ before.found ->
                        [found |-> TRUE,
                         pass |-> pred_combine(before.pass, slots[i].combine, here)]
  IN  fold[Len(slots)].pass

\* Unselected columns are zeroed.
Masked(columns, mask) ==
  [c \in DOMAIN columns |-> IF mask[c] THEN columns[c] ELSE 0]

------------------------------------------------------------------------------
(* Reference: the WHERE clause as a disjunction of conjunctions.  A row     *)
(* passes if some slot that opens a disjunct (the first enabled one, or one *)
(* combined with OR) holds, and so does every enabled AND slot after it.    *)

EnabledSlots(slots) == {i \in 1 .. Len(slots) : slots[i].enable}

Where(slots, columns) ==
  LET E == EnabledSlots(slots)
      opens(i) == slots[i].combine = "OR" \/ \A j \in E : i <= j
  IN  E # {} =>
        \E i \in E :
          /\ opens(i) /\ slot_result(slots[i], columns)
          /\ \A j \in E : j > i /\ slots[j].combine = "AND"
                            => slot_result(slots[j], columns)
==============================================================================
