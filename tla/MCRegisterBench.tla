--------------------------- MODULE MCRegisterBench ---------------------------
(* Model-checking instance: two predicate slots, one column, and two words *)
(* per register, enough to tell every pair of registers apart.             *)
EXTENDS RegisterBench

MCWriteData(addr) ==
  CASE addr = Reg("CTRL") -> [start : BOOLEAN, abort : BOOLEAN]
    [] addr = Reg("AGG_CFG") ->
         {[op |-> "SUM", groupby |-> FALSE, column |-> 0, gby_key |-> 0],
          [op |-> "COUNT", groupby |-> TRUE, column |-> 0, gby_key |-> 0]}
    [] addr = Reg("PROJ_MASK") -> [ColIdx -> {TRUE}]
    [] addr.reg = "PRED_HI" ->
         {[enable |-> TRUE, op |-> "GTE", combine |-> "OR", column |-> 0]}
    [] addr = Reg("LOAD_ROW") -> {0}
    [] OTHER -> {1}

MCStatuses ==
  {[busy |-> TRUE, done |-> FALSE, error |-> "START_BUSY", result |-> 0,
    count |-> 0, overflow |-> FALSE],
   [busy |-> FALSE, done |-> TRUE, error |-> "NONE", result |-> 6, count |-> 9,
    overflow |-> TRUE]}

MCWrites ==
  {[addr |-> [reg |-> "PRED_LO", idx |-> i], data |-> d] : i \in Slots, d \in 1 .. 2}
  \cup {[addr |-> Reg("QUERY"), data |-> NUM_ROWS + 1],
        [addr |-> Reg("AGG_CFG"),
         data |-> [op |-> "SUM", groupby |-> TRUE, column |-> 0, gby_key |-> 0]]}
==============================================================================
