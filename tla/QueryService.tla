---------------------------- MODULE QueryService ----------------------------
(***************************************************************************)
(* What the query core promises to its user: a query started on a loaded   *)
(* table answers with the aggregate of the rows that satisfy the WHERE     *)
(* clause, or delivers each group once; a start while a query runs only    *)
(* raises an error flag; an abort leaves no trace in later answers.        *)
(***************************************************************************)
EXTENDS Naturals, FiniteSets, FiniteSetsExt, Predicate

CONSTANTS NUM_ROWS, ColMax, AccMax, BUCKETS

VARIABLES
  table,     \* the loaded rows
  cfg,       \* the query configuration
  phase,     \* "IDLE", "SCAN" or "DONE"
  answer,    \* [result, count, overflow] as the registers show it
  error,     \* "NONE", "START_BUSY" or "AGG_OVERFLOW"
  emitted    \* groups delivered by the current or latest query, with tlast

serviceVars == <<table, cfg, phase, answer, error, emitted>>

------------------------------------------------------------------------------
(* The answer of a query. *)

ScanLength == IF cfg.num_rows = 0 THEN NUM_ROWS ELSE cfg.num_rows
Passing == {r \in 0 .. ScanLength - 1 : Where(cfg.pred, table[r])}

\* A column that is not selected reads as zero, also where it is aggregated.
Cell(r, c) == IF cfg.proj[c] THEN table[r][c] ELSE 0
Val(r) == Cell(r, cfg.column)
KeyOf(r) == Cell(r, cfg.gby_key)

Total(R) == MapThenSumSet(Val, R)
Clip(n) == IF n > AccMax THEN AccMax ELSE n

NoAnswer == [result |-> 0, count |-> 0, overflow |-> FALSE]

ClassicAnswer ==
  [result |->
     CASE cfg.op = "COUNT" -> Cardinality(Passing)
       [] cfg.op \in {"SUM", "AVG"} -> Clip(Total(Passing))
       [] cfg.op = "MIN" -> Min({Val(r) : r \in Passing} \cup {ColMax})
       [] cfg.op = "MAX" -> Max({Val(r) : r \in Passing} \cup {0})
       [] OTHER -> 0,
   count |-> Cardinality(Passing),
   overflow |-> Total(Passing) > AccMax]

Answer == IF cfg.groupby THEN NoAnswer ELSE ClassicAnswer

\* Only the first BUCKETS distinct keys find room.
Resident ==
  {KeyOf(r) : r \in {s \in Passing :
     Cardinality({KeyOf(t) : t \in {u \in Passing : u < s}} \ {KeyOf(s)})
       < BUCKETS}}

GroupOf(k) ==
  LET R == {r \in Passing : KeyOf(r) = k}
  IN  [key |-> k, count |-> Cardinality(R), sum |-> Clip(Total(R)),
       min |-> Min({Val(r) : r \in R}), max |-> Max({Val(r) : r \in R})]

Groups == IF cfg.groupby THEN {GroupOf(k) : k \in Resident} ELSE {}
Pending == Groups \ {emitted[i].group : i \in 1 .. Len(emitted)}

------------------------------------------------------------------------------
Init ==
  /\ phase = "IDLE"
  /\ answer = NoAnswer
  /\ error = "NONE"
  /\ emitted = <<>>

\* Between queries the host loads rows and configures.
Prepare ==
  /\ phase # "SCAN"
  /\ UNCHANGED <<phase, answer, error, emitted>>

Start ==
  /\ phase # "SCAN"
  /\ phase' = "SCAN"
  /\ error' = "NONE"
  /\ emitted' = <<>>
  /\ UNCHANGED <<table, cfg, answer>>

\* While a query runs: another start may come with any step.
Running(again) ==
  /\ phase = "SCAN"
  /\ UNCHANGED <<table, cfg, phase, answer>>
  /\ error' = IF again THEN "START_BUSY" ELSE error
  /\ \/ UNCHANGED emitted
     \/ \E g \in Pending :
          emitted' = Append(emitted, [group |-> g, last |-> Pending = {g}])

Complete(again) ==
  /\ phase = "SCAN"
  /\ Pending = {}
  /\ phase' = "DONE"
  /\ answer' = Answer
  /\ error' = CASE Answer.overflow -> "AGG_OVERFLOW"
                [] ~Answer.overflow /\ again -> "START_BUSY"
                [] OTHER -> error
  /\ UNCHANGED <<table, cfg, emitted>>

Abort ==
  /\ phase' = "IDLE"
  /\ answer' = NoAnswer
  /\ error' = "NONE"
  /\ emitted' = <<>>
  /\ UNCHANGED <<table, cfg>>

Next ==
  \/ Prepare
  \/ Start
  \/ \E again \in BOOLEAN : Running(again) \/ Complete(again)
  \/ Abort

Spec == Init /\ [][Next]_serviceVars
==============================================================================
