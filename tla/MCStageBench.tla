----------------------------- MODULE MCStageBench -----------------------------
(* Three beats of two columns; all pairs of slots over a few comparators.   *)
EXTENDS StageBench

Slot == [enable : BOOLEAN, op : {"EQ", "GTE"}, combine : {"AND", "OR"},
         column : {0}, imm : {1}]
SecondSlot == [enable : BOOLEAN, op : {"NEQ", "LT"}, combine : {"AND", "OR"},
               column : {1}, imm : {1}]
MCSlots == {<<a, b>> : a \in Slot, b \in SecondSlot}
MCMasks == [{0, 1} -> BOOLEAN]

Pair == [{0, 1} -> {0, 1}]
MCBeat == [columns : Pair, pass : BOOLEAN, last : BOOLEAN]
MCTables == {<<a, [c \in {0, 1} |-> 1 - a[c]], a>> : a \in Pair}
==============================================================================
