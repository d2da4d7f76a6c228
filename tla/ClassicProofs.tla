---------------------------- MODULE ClassicProofs ----------------------------
(***************************************************************************)
(* Proofs about the classic engines for every column width, accumulator    *)
(* width and number of rows.                                               *)
(*                                                                         *)
(* The last part is about the bench: its reference folds a list of any     *)
(* length, so it needs an induction.  It is taken from the well-founded    *)
(* order of the naturals (a least counterexample).                         *)
(***************************************************************************)
EXTENDS AggregationBench, TLAPS, WellFoundedInduction, SequenceTheorems

Busy == busy_q["COUNT"]

\* What the accumulators hold, without CHOOSE.
MinExact ==
  IF tally.n = 0 THEN acc_q["MIN"] = ColMax
  ELSE /\ acc_q["MIN"] \in tally.values
       /\ \A y \in tally.values : acc_q["MIN"] <= y
MaxExact ==
  IF tally.n = 0 THEN acc_q["MAX"] = 0
  ELSE /\ acc_q["MAX"] \in tally.values
       /\ \A y \in tally.values : acc_q["MAX"] >= y
SumExact(e) ==
  /\ acc_q[e] = IF tally.total > AccMax THEN AccMax ELSE tally.total
  /\ overflow_q[e] <=> tally.total > AccMax

\* The rows counted so far fit the query, and their total fits their number.
TallySound ==
  /\ tally.n <= beats
  /\ tally.n = 0 <=> tally.values = {}
  /\ tally.total <= tally.n * ColMax

\* The results are those of the accumulators, which no longer move.
Latched ==
  done_q["COUNT"] =>
    /\ ~Busy
    /\ \A e \in Engines : result_q[e] = acc_q[e]
    /\ avg_result_q = avg_count_q

Accumulated ==
  /\ acc_q["COUNT"] = tally.n /\ avg_count_q = tally.n
  /\ SumExact("SUM") /\ SumExact("AVG")
  /\ MinExact /\ MaxExact

\* The inductive invariant.
IInv == TypeOK /\ Lockstep /\ TallySound /\ Accumulated /\ Latched

\* The engines are the five named ones.
LEMMA EngineNames ==
  /\ \A e \in Engines : e = "COUNT" \/ e = "SUM" \/ e = "MIN" \/ e = "MAX" \/ e = "AVG"
  /\ {"COUNT", "SUM", "MIN", "MAX", "AVG"} \subseteq Engines
  /\ Summing = {"SUM", "AVG"}
  BY DEF Engines, Summing

\* A freshly cleared engine satisfies the invariant, busy or not.
LEMMA Cleared ==
  ASSUME NEW b \in BOOLEAN,
         acc_q = [e \in Engines |-> Identity(e)],
         overflow_q = [e \in Summing |-> FALSE],
         avg_count_q = 0,
         result_q = [e \in Engines |-> 0],
         avg_result_q = 0,
         busy_q = [e \in Engines |-> b],
         done_q = [e \in Engines |-> FALSE],
         beats = 0, tally = NoRows
  PROVE  IInv
  <1>1. TypeOK
    BY WidthAssumption, RowAssumption
    DEF TypeOK, Engines, Summing, Identity, Values, NoRows
  <1>2. Lockstep
    BY DEF Lockstep, Engines
  <1>3. TallySound
    BY WidthAssumption DEF TallySound, NoRows
  <1>4. Accumulated
    BY WidthAssumption
    DEF Accumulated, SumExact, MinExact, MaxExact, Engines, Summing, Identity, NoRows
  <1>5. Latched
    BY DEF Latched, Engines
  <1> QED BY <1>1, <1>2, <1>3, <1>4, <1>5 DEF IInv

\* The reset state satisfies the invariant.
LEMMA InitIInv == Init => IInv
  BY Cleared DEF Init, EnginesInit

\* Reset and the start of a query establish the invariant from any state.
LEMMA ClearedStep ==
  Reset \/ Start => IInv'
  <1>1. ASSUME NEW b \in BOOLEAN,
               acc_q' = [e \in Engines |-> Identity(e)],
               overflow_q' = [e \in Summing |-> FALSE],
               avg_count_q' = 0,
               result_q' = [e \in Engines |-> 0],
               avg_result_q' = 0,
               busy_q' = [e \in Engines |-> b],
               done_q' = [e \in Engines |-> FALSE],
               beats' = 0, tally' = NoRows
        PROVE  IInv'
    <2>1. TypeOK'
      BY <1>1, WidthAssumption, RowAssumption
      DEF TypeOK, Engines, Summing, Identity, Values, NoRows
    <2>2. Lockstep'
      BY <1>1 DEF Lockstep, Engines
    <2>3. TallySound'
      BY <1>1, WidthAssumption DEF TallySound, NoRows
    <2>4. Accumulated'
      BY <1>1, WidthAssumption
      DEF Accumulated, SumExact, MinExact, MaxExact, Engines, Summing, Identity, NoRows
    <2>5. Latched'
      BY <1>1 DEF Latched, Engines
    <2> QED BY <2>1, <2>2, <2>3, <2>4, <2>5 DEF IInv
  <1>2. CASE Reset
    BY <1>1, <1>2 DEF Reset, EnginesReset, ClearAccumulators
  <1>3. CASE Start
    BY <1>1, <1>3 DEF Start, EnginesEdge, EnginesStart, ClearAccumulators
  <1> QED BY <1>2, <1>3

\* A beat that no engine is busy to take changes nothing.
LEMMA IdleBeat ==
  ASSUME IInv, ~Busy, NEW pass \in BOOLEAN, NEW last \in BOOLEAN,
         NEW v \in Values, Beat(pass, v, last)
  PROVE  UNCHANGED vars
  <1>1. \A e \in Engines : ~busy_q[e]
    BY DEF IInv, Lockstep, Busy, Engines
  <1>2. Consume(pass, v, last)
    BY DEF Beat, EnginesEdge
  <1>3. beats' = beats /\ tally' = tally
    BY DEF Beat, classic_tready, Busy
  <1>4. acc_q' = acc_q /\ result_q' = result_q
    BY <1>1, <1>2 DEF Consume, IInv, TypeOK
  <1>5. overflow_q' = overflow_q
    BY <1>1, <1>2 DEF Consume, IInv, TypeOK, Engines, Summing
  <1>6. avg_count_q' = avg_count_q /\ avg_result_q' = avg_result_q
    BY <1>1, <1>2 DEF Consume, Engines
  <1>7. busy_q' = busy_q
    <2>1. busy_q' = [e \in Engines |-> busy_q[e] /\ ~last]
      BY <1>2 DEF Consume
    <2>2. \A e \in Engines : busy_q'[e] = busy_q[e]
      BY <2>1, <1>1, Zenon DEF IInv, TypeOK
    <2> QED BY <2>1, <2>2, Zenon DEF IInv, TypeOK
  <1>8. done_q' = done_q
    <2>1. done_q' = [e \in Engines |-> done_q[e] \/ (busy_q[e] /\ last)]
      BY <1>2 DEF Consume
    <2>2. \A e \in Engines : done_q'[e] = done_q[e]
      BY <2>1, <1>1 DEF IInv, TypeOK
    <2> QED BY <2>1, <2>2 DEF IInv, TypeOK
  <1> QED BY <1>3, <1>4, <1>5, <1>6, <1>7, <1>8 DEF vars, engineVars

\* A beat that is accepted: every engine takes it, each register moves as its
\* own module says.
LEMMA TakenBeat ==
  ASSUME IInv, Busy, NEW pass \in BOOLEAN, NEW last \in BOOLEAN,
         NEW v \in Values, Beat(pass, v, last)
  PROVE  /\ pass => /\ acc_q' = [e \in Engines |-> acc_next(e, v)]
                    /\ overflow_q' = [e \in Summing |-> of_next(e, v)]
                    /\ avg_count_q' = (avg_count_q + 1) % (AccMax + 1)
                    /\ tally' = [n |-> tally.n + 1, total |-> tally.total + v,
                                 values |-> tally.values \cup {v}]
         /\ ~pass => UNCHANGED <<acc_q, overflow_q, avg_count_q, tally>>
         /\ result_q' = [e \in Engines |-> IF last THEN acc_q'[e] ELSE result_q[e]]
         /\ avg_result_q' = IF last THEN avg_count_q' ELSE avg_result_q
         /\ busy_q' = [e \in Engines |-> ~last]
         /\ done_q' = [e \in Engines |-> done_q[e] \/ last]
         /\ beats < RowLimit /\ beats' = beats + 1
  <1>1. \A e \in Engines : busy_q[e] = TRUE
    BY Zenon DEF IInv, TypeOK, Lockstep, Busy, Engines
  <1>2. Consume(pass, v, last)
    BY DEF Beat, EnginesEdge
  <1>3. /\ beats < RowLimit /\ beats' = beats + 1
        /\ pass => tally' = [n |-> tally.n + 1, total |-> tally.total + v,
                             values |-> tally.values \cup {v}]
        /\ ~pass => tally' = tally
    BY DEF Beat, classic_tready, Busy
  <1>4. acc_q' = [e \in Engines |-> IF pass THEN acc_next(e, v) ELSE acc_q[e]]
    BY <1>1, <1>2 DEF Consume
  <1>5. overflow_q' = [e \in Summing |-> IF pass THEN of_next(e, v)
                                                 ELSE overflow_q[e]]
    BY <1>1, <1>2 DEF Consume, Summing, Engines
  <1>6. /\ pass => avg_count_q' = (avg_count_q + 1) % (AccMax + 1)
        /\ ~pass => avg_count_q' = avg_count_q
        /\ avg_result_q' = IF last THEN avg_count_q' ELSE avg_result_q
    BY <1>1, <1>2 DEF Consume, Engines, count_next
  <1>7. result_q' = [e \in Engines |-> IF last THEN acc_q'[e] ELSE result_q[e]]
    BY <1>1, <1>2, <1>4 DEF Consume
  <1>8. /\ busy_q' = [e \in Engines |-> ~last]
        /\ done_q' = [e \in Engines |-> done_q[e] \/ last]
    BY <1>1, <1>2 DEF Consume
  <1>9. pass => /\ acc_q' = [e \in Engines |-> acc_next(e, v)]
                /\ overflow_q' = [e \in Summing |-> of_next(e, v)]
    BY <1>4, <1>5
  <1>10. ~pass => acc_q' = acc_q /\ overflow_q' = overflow_q
    BY <1>4, <1>5 DEF IInv, TypeOK
  <1> QED BY <1>3, <1>6, <1>7, <1>8, <1>9, <1>10

\* One more row of at most ColMax each keeps the total within n * ColMax.
LEMMA RowsTimesWidth ==
  ASSUME NEW n \in Nat, NEW m \in Nat, NEW t \in Nat, NEW v \in 0 .. m,
         t <= n * m
  PROVE  t + v <= (n + 1) * m
  <1>1. (n + 1) * m = n * m + m
    OBVIOUS
  <1>2. n * m \in Nat
    OBVIOUS
  <1> QED BY <1>1, <1>2

\* An accepted beat preserves the invariant: the accumulators move with the
\* rows they have seen.
LEMMA TakenStep ==
  ASSUME IInv, Busy, NEW pass \in BOOLEAN, NEW last \in BOOLEAN,
         NEW v \in Values, Beat(pass, v, last)
  PROVE  IInv'
  <1> USE WidthAssumption, RowAssumption
  <1>t. /\ tally.n \in Nat /\ tally.total \in Nat /\ tally.values \subseteq Values
        /\ beats \in 0 .. RowLimit
        /\ acc_q \in [Engines -> 0 .. AccMax]
        /\ acc_q["MIN"] \in Values /\ acc_q["MAX"] \in Values
        /\ overflow_q \in [Summing -> BOOLEAN]
    BY DEF IInv, TypeOK
  <1>v. v \in 0 .. ColMax
    BY DEF Values
  <1>b. beats < RowLimit /\ beats' = beats + 1
    BY TakenBeat
  <1>n. tally.n < AccMax
    BY <1>b, <1>t DEF IInv, TallySound
  <1>1. ASSUME ~pass PROVE TallySound' /\ Accumulated'
    <2>1. /\ acc_q' = acc_q /\ overflow_q' = overflow_q /\ tally' = tally
          /\ avg_count_q' = avg_count_q
      BY <1>1, TakenBeat
    <2>2. TallySound'
      BY <2>1, <1>t, <1>b DEF IInv, TallySound
    <2>3. Accumulated'
      BY <2>1 DEF IInv, Accumulated, SumExact, MinExact, MaxExact
    <2> QED BY <2>1, <2>2, <2>3
  <1>2. ASSUME pass PROVE TallySound' /\ Accumulated'
    <2>0. /\ tally' = [n |-> tally.n + 1, total |-> tally.total + v,
                      values |-> tally.values \cup {v}]
          /\ acc_q' = [e \in Engines |-> acc_next(e, v)]
          /\ overflow_q' = [e \in Summing |-> of_next(e, v)]
          /\ avg_count_q' = (avg_count_q + 1) % (AccMax + 1)
      BY <1>2, TakenBeat
    <2>1. /\ tally'.n = tally.n + 1 /\ tally'.total = tally.total + v
          /\ tally'.values = tally.values \cup {v}
      BY <2>0
    <2>2. \A e \in Engines : acc_q'[e] = acc_next(e, v)
      BY <2>0
    <2>3. TallySound'
      <3>1. tally'.total <= tally'.n * ColMax
        BY <2>1, <1>t, <1>v, RowsTimesWidth DEF IInv, TallySound
      <3>2. tally'.n <= beats' /\ tally'.n # 0 /\ tally'.values # {}
        BY <2>1, <1>t, <1>b DEF IInv, TallySound
      <3> QED BY <3>1, <3>2 DEF TallySound
    <2>4. acc_q'["COUNT"] = tally'.n /\ avg_count_q' = tally'.n
      <3>1. acc_q'["COUNT"] = (acc_q["COUNT"] + 1) % (AccMax + 1)
        BY <2>2 DEF acc_next, count_next, min_next, max_next, Engines, Summing
      <3>2. avg_count_q' = (avg_count_q + 1) % (AccMax + 1)
        BY <2>0
      <3>3. (tally.n + 1) % (AccMax + 1) = tally.n + 1
        BY <1>n, <1>t
      <3> QED BY <3>1, <3>2, <3>3, <2>1 DEF IInv, Accumulated
    <2>5. ASSUME NEW e \in Summing PROVE SumExact(e)'
      <3>1. acc_q'[e] = IF acc_q[e] + v > AccMax THEN AccMax ELSE acc_q[e] + v
        BY <2>2 DEF acc_next, count_next, sum_next, min_next,
            max_next, sum_ext, Engines, Summing
      <3>2. overflow_q'[e] <=> overflow_q[e] \/ acc_q[e] + v > AccMax
        BY <2>0 DEF of_next, sum_ext
      <3>3. /\ acc_q[e] = IF tally.total > AccMax THEN AccMax ELSE tally.total
            /\ overflow_q[e] <=> tally.total > AccMax
        BY DEF IInv, Accumulated, SumExact, Summing
      <3> QED BY <3>1, <3>2, <3>3, <2>1, <1>t, <1>v DEF SumExact
    <2>6. MinExact'
      <3>1. acc_q'["MIN"] = IF v < acc_q["MIN"] THEN v ELSE acc_q["MIN"]
        BY <2>2 DEF acc_next, count_next, min_next, max_next, Engines, Summing
      <3>2. MinExact
        BY DEF IInv, Accumulated
      <3>3. tally.n = 0 <=> tally.values = {}
        BY DEF IInv, TallySound
      <3> QED BY <3>1, <3>2, <3>3, <2>1, <1>t, <1>v DEF MinExact, Values
    <2>7. MaxExact'
      <3>1. acc_q'["MAX"] = IF v > acc_q["MAX"] THEN v ELSE acc_q["MAX"]
        BY <2>2 DEF acc_next, count_next, min_next, max_next, Engines, Summing
      <3>2. MaxExact
        BY DEF IInv, Accumulated
      <3>3. tally.n = 0 <=> tally.values = {}
        BY DEF IInv, TallySound
      <3> QED BY <3>1, <3>2, <3>3, <2>1, <1>t, <1>v DEF MaxExact, Values
    <2> QED BY <2>3, <2>4, <2>5, <2>6, <2>7 DEF Accumulated, Summing
  <1>3. TallySound' /\ Accumulated'
    BY <1>1, <1>2
  <1>4. Lockstep'
    BY TakenBeat DEF IInv, Lockstep, Engines
  <1>5. Latched'
    <2>1. \A e \in Engines : done_q'[e] = (done_q[e] \/ last)
      BY TakenBeat
    <2>2. ~done_q["COUNT"]
      BY DEF IInv, Latched
    <2>3. CASE last
      BY <2>3, TakenBeat DEF Latched, Busy, Engines
    <2>4. CASE ~last
      BY <2>1, <2>2, <2>4 DEF Latched, Engines
    <2> QED BY <2>3, <2>4
  <1>6. TypeOK'
    <2>1. /\ tally' \in [n : Nat, total : Nat, values : SUBSET Values]
          /\ beats' \in 0 .. RowLimit
      BY TakenBeat, <1>t, <1>b, <1>v DEF Values, IInv, TypeOK
    <2>2. /\ acc_q' \in [Engines -> 0 .. AccMax]
          /\ acc_q'["MIN"] \in Values /\ acc_q'["MAX"] \in Values
      <3>1. \A e \in Engines : acc_next(e, v) \in 0 .. AccMax
        BY <1>t, <1>v, EngineNames DEF acc_next, count_next, sum_next, min_next,
            max_next, sum_ext, Summing
      <3>2. acc_next("MIN", v) \in Values /\ acc_next("MAX", v) \in Values
        BY <1>t, <1>v DEF acc_next, min_next, max_next, Summing, Values
      <3> QED BY <3>1, <3>2, TakenBeat, <1>t, EngineNames
    <2>3. avg_count_q' \in 0 .. AccMax /\ avg_result_q' \in 0 .. AccMax
      BY TakenBeat DEF IInv, TypeOK
    <2>4. result_q' \in [Engines -> 0 .. AccMax]
      BY TakenBeat, <2>2 DEF IInv, TypeOK
    <2>5. busy_q' \in [Engines -> BOOLEAN] /\ done_q' \in [Engines -> BOOLEAN]
      BY TakenBeat, Zenon
    <2>6. overflow_q' \in [Summing -> BOOLEAN]
      BY TakenBeat, <1>t DEF of_next
    <2> QED BY <2>1, <2>2, <2>3, <2>4, <2>5, <2>6 DEF TypeOK
  <1> QED BY <1>3, <1>4, <1>5, <1>6 DEF IInv

\* Every step preserves the invariant.
LEMMA IInvStep == IInv /\ [Next]_vars => IInv'
  <1> SUFFICES ASSUME IInv, [Next]_vars PROVE IInv'
    OBVIOUS
  <1>1. CASE Reset \/ Start
    BY <1>1, ClearedStep
  <1>2. ASSUME NEW pass \in BOOLEAN, NEW last \in BOOLEAN, NEW v \in Values,
               Beat(pass, v, last)
        PROVE  IInv' \/ UNCHANGED vars
    BY <1>2, IdleBeat, TakenStep
  <1>3. CASE UNCHANGED vars
    BY <1>3
    DEF vars, engineVars, IInv, TypeOK, Lockstep, TallySound, Accumulated,
        SumExact, MinExact, MaxExact, Latched, Busy
  <1> QED BY <1>1, <1>2, <1>3 DEF Next

\* What the invariant says of the accumulators is what ClassicSystem expects.
LEMMA IInvExpected ==
  ASSUME IInv PROVE \A e \in Engines : acc_q[e] = Expected(e)
  <1> USE WidthAssumption
  <1>t. /\ tally.values \subseteq Values
        /\ acc_q["MIN"] \in Values /\ acc_q["MAX"] \in Values
    BY DEF IInv, TypeOK
  <1>1. acc_q["MIN"] = Expected("MIN")
    BY <1>t DEF IInv, Accumulated, MinExact, Expected, Summing, Values
  <1>2. acc_q["MAX"] = Expected("MAX")
    BY <1>t DEF IInv, Accumulated, MaxExact, Expected, Summing, Values
  <1>3. acc_q["COUNT"] = Expected("COUNT")
    BY DEF IInv, Accumulated, Expected, Summing
  <1>4. \A e \in Summing : acc_q[e] = Expected(e)
    BY DEF IInv, Accumulated, SumExact, Expected, Summing
  <1> QED BY <1>1, <1>2, <1>3, <1>4, EngineNames

\* The engines accept and finish in lock step, whatever stream, starts and
\* resets they see, so connecting only COUNT's ready and done is sound.
THEOREM EnginesInLockstep == Spec => []Lockstep
  BY InitIInv, IInvStep, PTL DEF Spec, IInv

\* For every width and row count: each accumulator is exact, or saturated
\* with its flag set exactly when the true total does not fit.
THEOREM EnginesExact == Spec => []ExactOrSaturated
  <1>1. IInv => ExactOrSaturated
    <2> SUFFICES ASSUME IInv PROVE ExactOrSaturated
      OBVIOUS
    <2>1. \A e \in Summing : overflow_q[e] <=> tally.total > AccMax
      BY DEF IInv, Accumulated, SumExact, Summing
    <2> QED BY <2>1, IInvExpected DEF ExactOrSaturated, IInv, Accumulated
  <1> QED BY InitIInv, IInvStep, <1>1, PTL DEF Spec

\* For every width and row count: what a finished query latched is the
\* answer for all its rows, the final one included.
THEOREM ResultsExact == Spec => []DoneResults
  <1>1. IInv => DoneResults
    <2> SUFFICES ASSUME IInv, done_q["COUNT"]
                 PROVE  /\ \A e \in Engines : result_q[e] = Expected(e)
                        /\ avg_result_q = result_q["COUNT"]
      BY DEF DoneResults
    <2> QED BY IInvExpected, EngineNames DEF IInv, Latched, Accumulated
  <1> QED BY InitIInv, IInvStep, <1>1, PTL DEF Spec

\* Multiplication by a width is monotone in the number of rows.
LEMMA MoreRows ==
  ASSUME NEW n \in Nat, NEW k \in Nat, NEW m \in Nat, n <= k
  PROVE  n * m <= k * m
  <1>1. PICK d \in Nat : k = n + d
    BY n <= k, k - n \in Nat
  <1>2. (n + d) * m = n * m + d * m /\ d * m \in Nat /\ n * m \in Nat
    OBVIOUS
  <1> QED BY <1>1, <1>2

\* db_pkg's accumulator width is enough: while as many all-ones values as rows
\* were taken would fit, no query makes SUM or AVG saturate.
THEOREM WidthIsEnough == Spec => []WidthSuffices
  <1>1. IInv => WidthSuffices
    <2> SUFFICES ASSUME IInv, beats * ColMax <= AccMax, NEW e \in Summing
                 PROVE  ~overflow_q[e]
      BY DEF WidthSuffices
    <2>1. /\ tally.n \in Nat /\ tally.total \in Nat /\ beats \in Nat
          /\ tally.n <= beats /\ tally.total <= tally.n * ColMax
          /\ ColMax \in Nat /\ AccMax \in Nat
      BY WidthAssumption, RowAssumption DEF IInv, TypeOK, TallySound
    <2>2. tally.n * ColMax <= beats * ColMax
      BY <2>1, MoreRows
    <2>3. tally.n * ColMax \in Nat /\ beats * ColMax \in Nat
      BY <2>1
    <2>4. tally.total <= AccMax
      BY <2>1, <2>2, <2>3
    <2>5. overflow_q[e] <=> tally.total > AccMax
      BY DEF IInv, Accumulated, SumExact, Summing
    <2> QED BY <2>1, <2>4, <2>5
  <1> QED BY InitIInv, IInvStep, <1>1, PTL DEF Spec

------------------------------------------------------------------------------
\* One row of the software fold, and what it starts from.
FoldBase == [count |-> 0, overflow |-> FALSE, sum |-> 0, minv |-> ColMax, maxv |-> 0]
FoldStep(r, b) ==
  IF ~b.pass THEN r
  ELSE [count |-> r.count + 1,
        overflow |-> r.overflow \/ r.sum + b.v > AccMax,
        sum |-> IF r.overflow \/ r.sum + b.v > AccMax THEN AccMax ELSE r.sum + b.v,
        minv |-> IF b.v < r.minv THEN b.v ELSE r.minv,
        maxv |-> IF b.v > r.maxv THEN b.v ELSE r.maxv]

\* h folds the rows of every set of positions up to n, the largest last.
FoldsSets(h, rows, n) ==
  h = [s \in SUBSET (1 .. n) |->
         IF s = {} THEN FoldBase
         ELSE FoldStep(h[s \ {Max(s)}], rows[Max(s)])]

\* g[k] is the fold of the first k rows.
FoldsPrefixes(g, rows) ==
  /\ g[0] = FoldBase
  /\ \A k \in 1 .. Len(rows) : g[k] = FoldStep(g[k - 1], rows[k])
  /\ reference(rows) = g[Len(rows)]

\* A nonempty set of naturals has a least element: the order of the naturals
\* is well founded.
LEMMA LeastNat ==
  ASSUME NEW T, T \subseteq Nat, T # {}
  PROVE  \E n \in T : \A m \in T : n <= m
  <1> DEFINE R == OpToRel(<, Nat)
  <1>1. IsWellFoundedOn(R, Nat)
    BY NatLessThanWellFounded
  <1>3. \A x, y \in Nat : <<y, x>> \in R <=> y < x
    BY DEF OpToRel
  <1> HIDE DEF R
  <1>2. PICK n \in T : \A m \in T : ~ (<<m, n>> \in R)
    BY <1>1, WFMin
  <1>4. ASSUME NEW m \in T PROVE n <= m
    <2>1. n \in Nat /\ m \in Nat
      OBVIOUS
    <2>2. ~ (m < n)
      BY <2>1, <1>2, <1>3
    <2> QED BY <2>1, <2>2
  <1> QED BY <1>4

\* The largest of a set of positions, and of the first k.
LEMMA LargestPosition ==
  ASSUME NEW n \in Nat, NEW s \in SUBSET (1 .. n), n \in s
  PROVE  Max(s) = n
  <1>1. \A y \in s : n >= y
    OBVIOUS
  <1>2. \A x \in s : (\A y \in s : x >= y) => x = n
    OBVIOUS
  <1> QED BY <1>1, <1>2 DEF Max

LEMMA FoldExists ==
  ASSUME NEW rows
  PROVE  \A n \in Nat : \E h : FoldsSets(h, rows, n)
  <1> DEFINE T == {n \in Nat : ~ \E h : FoldsSets(h, rows, n)}
  <1>1. SUFFICES ASSUME T # {} PROVE FALSE
    OBVIOUS
  <1>2. PICK n \in T : \A m \in T : n <= m
    BY <1>1, LeastNat
  <1>3. n \in Nat /\ ~ \E h : FoldsSets(h, rows, n)
    OBVIOUS
  <1>4. CASE n = 0
    <2>1. SUBSET (1 .. 0) = {{}}
      OBVIOUS
    <2> DEFINE h == [s \in SUBSET (1 .. 0) |-> FoldBase]
    <2>2. FoldsSets(h, rows, 0)
      BY <2>1 DEF FoldsSets
    <2> QED BY <1>3, <1>4, <2>2
  <1>5. CASE n # 0
    <2>1. n - 1 \in Nat /\ ~ (n <= n - 1)
      BY <1>3, <1>5
    <2>2. PICK h0 : FoldsSets(h0, rows, n - 1)
      BY <1>2, <2>1
    <2> DEFINE h == [s \in SUBSET (1 .. n) |->
                       IF n \in s THEN FoldStep(h0[s \ {n}], rows[n]) ELSE h0[s]]
    <2>3. ASSUME NEW s \in SUBSET (1 .. n)
          PROVE  h[s] = IF s = {} THEN FoldBase
                        ELSE FoldStep(h[s \ {Max(s)}], rows[Max(s)])
      <3>1. CASE n \in s
        <4>1. Max(s) = n
          BY <1>3, <3>1, LargestPosition
        <4>2. s \ {n} \in SUBSET (1 .. n) /\ n \notin s \ {n}
          OBVIOUS
        <4>3. h[s \ {n}] = h0[s \ {n}]
          BY <4>2
        <4>4. h[s] = FoldStep(h0[s \ {n}], rows[n])
          BY <3>1
        <4> QED BY <3>1, <4>1, <4>3, <4>4
      <3>2. CASE n \notin s
        <4>1. s \in SUBSET (1 .. (n - 1))
          BY <3>2, <1>3
        <4>2. h[s] = h0[s]
          BY <3>2
        <4>3. h0[s] = IF s = {} THEN FoldBase
                      ELSE FoldStep(h0[s \ {Max(s)}], rows[Max(s)])
          BY <4>1, <2>2 DEF FoldsSets
        <4>4. s \ {Max(s)} \in SUBSET (1 .. n) /\ n \notin s \ {Max(s)}
          BY <3>2
        <4>5. h[s \ {Max(s)}] = h0[s \ {Max(s)}]
          BY <4>4
        <4> QED BY <4>2, <4>3, <4>5
      <3> QED BY <3>1, <3>2
    <2>4. h = [s \in SUBSET (1 .. n) |-> h[s]]
      OBVIOUS
    <2> HIDE DEF h
    <2>5. FoldsSets(h, rows, n)
      BY <2>3, <2>4 DEF FoldsSets
    <2> QED BY <1>3, <2>5
  <1> QED BY <1>4, <1>5

LEMMA ReferenceUnfolds ==
  ASSUME NEW rows
  PROVE  reference(rows) =
           LET iter[s \in SUBSET DOMAIN rows] ==
                 IF s = {} THEN FoldBase
                 ELSE LET x == Max(s) IN FoldStep(iter[s \ {x}], rows[x])
           IN  iter[DOMAIN rows]
  BY DEF reference, FoldLeft, MapThenFoldSet, FoldBase, FoldStep

LEMMA PrefixFolds ==
  ASSUME NEW S, NEW rows \in Seq(S)
  PROVE  \E g : FoldsPrefixes(g, rows)
  <1> DEFINE n == Len(rows)
             h == CHOOSE f : FoldsSets(f, rows, n)
             g == [k \in 0 .. n |-> h[1 .. k]]
  <1>0. n \in Nat /\ DOMAIN rows = 1 .. n
    OBVIOUS
  <1>1. FoldsSets(h, rows, n)
    BY <1>0, FoldExists
  <1>2. reference(rows) = h[1 .. n]
    BY <1>0, ReferenceUnfolds DEF FoldsSets
  <1> HIDE DEF h, n
  <1>3. 1 .. 0 = {} /\ h[{}] = FoldBase
    BY <1>1, <1>0 DEF FoldsSets
  <1>4. ASSUME NEW k \in 1 .. n
        PROVE  h[1 .. k] = FoldStep(h[1 .. (k - 1)], rows[k])
    <2>1. /\ k \in Nat /\ k \in 1 .. k /\ 1 .. k \in SUBSET (1 .. k)
          /\ 1 .. k \in SUBSET (1 .. n) /\ 1 .. k # {}
      BY <1>0
    <2>2. Max(1 .. k) = k
      BY <2>1, LargestPosition
    <2>3. (1 .. k) \ {k} = 1 .. (k - 1)
      BY <2>1
    <2>4. h[1 .. k] = FoldStep(h[(1 .. k) \ {Max(1 .. k)}], rows[Max(1 .. k)])
      BY <1>1, <2>1 DEF FoldsSets
    <2> QED BY <2>2, <2>3, <2>4
  <1>5. g[0] = FoldBase /\ g[n] = h[1 .. n]
    BY <1>0, <1>3
  <1>6. ASSUME NEW k \in 1 .. n PROVE g[k] = FoldStep(g[k - 1], rows[k])
    <2>1. k \in 0 .. n /\ k - 1 \in 0 .. n
      BY <1>0
    <2> QED BY <2>1, <1>4
  <1> HIDE DEF g
  <1>7. FoldsPrefixes(g, rows)
    BY <1>2, <1>5, <1>6 DEF FoldsPrefixes, n
  <1> QED BY <1>7

------------------------------------------------------------------------------
\* The folds of the prefixes of the list of the current query.
Prefix(rows) == CHOOSE g : FoldsPrefixes(g, rows)

\* The engines hold what the software fold r holds: COUNT its count, SUM and
\* AVG its sum, MIN and MAX its extrema, and SUM its overflow flag.
Holds(r) ==
  /\ acc_q["COUNT"] = r.count
  /\ acc_q["SUM"] = r.sum /\ acc_q["AVG"] = r.sum
  /\ acc_q["MIN"] = r.minv /\ acc_q["MAX"] = r.maxv
  /\ overflow_q["SUM"] = r.overflow

\* A query is under way or finished: the engines hold the fold of the beats
\* driven so far, and are busy until the last of them.
Driven ==
  /\ op \in Engines /\ list \in BeatLists
  /\ i \in 1 .. Len(list) + 1
  /\ Holds(Prefix(list)[i - 1])
  /\ Busy <=> i <= Len(list)
  /\ done_q["COUNT"] <=> i = Len(list) + 1
  /\ pc = "checked" => i = Len(list) + 1

\* The inductive invariant of the engines under the bench.
BenchInv ==
  /\ IInv
  /\ pc \in {"free", "idle", "beats", "checked"}
  /\ pc \in {"beats", "checked"} => Driven

\* The lists of the bench are nonempty sequences of beats.
LEMMA ListsAreBeats ==
  ASSUME NEW rows \in BeatLists
  PROVE  /\ rows \in Seq([pass : BOOLEAN, v : Values])
         /\ Len(rows) \in Nat \ {0}
         /\ FoldsPrefixes(Prefix(rows), rows)
  <1>1. rows \in Seq([pass : BOOLEAN, v : Values]) /\ rows # <<>>
    <2>1. PICK n \in 1 .. MaxBeats : rows \in [1 .. n -> [pass : BOOLEAN, v : Words]]
      BY DEF BeatLists
    <2>2. \A k \in 1 .. n : rows[k] \in [pass : BOOLEAN, v : Values]
      BY <2>1, BeatsAssumption
    <2>3. rows \in [1 .. n -> [pass : BOOLEAN, v : Values]] /\ n \in Nat
      BY <2>1, <2>2
    <2>4. rows \in Seq([pass : BOOLEAN, v : Values])
      <3>1. ASSUME NEW S, NEW m \in Nat, NEW f \in [1 .. m -> S]
            PROVE  f \in Seq(S)
        <4>1. f \in UNION {[1 .. k -> S] : k \in Nat}
          BY Zenon
        <4> QED BY <4>1, SeqDef, Zenon
      <3> QED BY <2>3, <3>1, Zenon
    <2>5. 1 \in DOMAIN rows
      BY <2>1
    <2> QED BY <2>4, <2>5
  <1>2. \E g : FoldsPrefixes(g, rows)
    BY <1>1, PrefixFolds
  <1> QED BY <1>1, <1>2 DEF Prefix

\* An accepted beat moves the engines as it moves the software fold.  The
\* engines clip each sum on its own; the fold remembers that it overflowed,
\* after which both stay at all-ones.
LEMMA HoldsStep ==
  ASSUME IInv, Busy, NEW pass \in BOOLEAN, NEW last \in BOOLEAN,
         NEW v \in Values, Beat(pass, v, last), NEW r, Holds(r),
         NEW b, b.pass = pass, b.v = v
  PROVE  Holds(FoldStep(r, b))'
  <1> USE WidthAssumption, RowAssumption
  <1>1. CASE ~pass
    BY <1>1, TakenBeat DEF Holds, FoldStep
  <1>2. CASE pass
    <2>t. /\ tally.n \in Nat /\ tally.total \in Nat
          /\ beats \in 0 .. RowLimit
          /\ acc_q \in [Engines -> 0 .. AccMax]
          /\ overflow_q \in [Summing -> BOOLEAN]
          /\ v \in 0 .. ColMax
      BY DEF IInv, TypeOK, Values
    <2>0. /\ acc_q' = [e \in Engines |-> acc_next(e, v)]
          /\ overflow_q' = [e \in Summing |-> of_next(e, v)]
      BY <1>2, TakenBeat, Zenon
    <2>1. \A e \in Engines : acc_q'[e] = acc_next(e, v)
      BY <2>0
    <2>2. overflow_q'["SUM"] = of_next("SUM", v)
      BY <2>0, Zenon DEF Summing
    <2>3. acc_q'["COUNT"] = r.count + 1
      <3>1. acc_q'["COUNT"] = (acc_q["COUNT"] + 1) % (AccMax + 1)
        BY <2>1 DEF acc_next, count_next, Engines, Summing
      <3>2. acc_q["COUNT"] = tally.n /\ tally.n <= beats /\ beats < RowLimit
        BY TakenBeat DEF IInv, Accumulated, TallySound
      <3>3. (tally.n + 1) % (AccMax + 1) = tally.n + 1
        BY <3>2, <2>t
      <3> QED BY <3>1, <3>2, <3>3 DEF Holds
    <2>4. acc_q'["MIN"] = IF v < r.minv THEN v ELSE r.minv
      BY <2>1 DEF acc_next, min_next, Engines, Summing, Holds
    <2>5. acc_q'["MAX"] = IF v > r.maxv THEN v ELSE r.maxv
      BY <2>1 DEF acc_next, max_next, Engines, Summing, Holds
    <2>6. ASSUME NEW e \in Summing
          PROVE  acc_q'[e] = IF r.overflow \/ r.sum + v > AccMax
                             THEN AccMax ELSE r.sum + v
      <3>1. acc_q'[e] = IF acc_q[e] + v > AccMax THEN AccMax ELSE acc_q[e] + v
        BY <2>1 DEF acc_next, sum_next, sum_ext, Engines, Summing
      <3>2. acc_q[e] = r.sum
        BY DEF Holds, Summing
      <3>3. r.overflow => r.sum = AccMax
        <4>1. SumExact("SUM")
          BY DEF IInv, Accumulated
        <4> QED BY <4>1 DEF SumExact, Holds
      <3>4. r.sum \in 0 .. AccMax
        BY <3>2, <2>t DEF Engines, Summing
      <3> QED BY <3>1, <3>2, <3>3, <3>4, <2>t
    <2>7. overflow_q'["SUM"] = (r.overflow \/ r.sum + v > AccMax)
      BY <2>2, Zenon DEF of_next, sum_ext, Holds
    <2>8. FoldStep(r, b) =
            [count |-> r.count + 1,
             overflow |-> r.overflow \/ r.sum + v > AccMax,
             sum |-> IF r.overflow \/ r.sum + v > AccMax THEN AccMax ELSE r.sum + v,
             minv |-> IF v < r.minv THEN v ELSE r.minv,
             maxv |-> IF v > r.maxv THEN v ELSE r.maxv]
      BY <1>2, Zenon DEF FoldStep
    <2> HIDE DEF FoldStep
    <2>9. acc_q'["SUM"] = FoldStep(r, b).sum /\ acc_q'["AVG"] = FoldStep(r, b).sum
      <3>1. FoldStep(r, b).sum = IF r.overflow \/ r.sum + v > AccMax
                                 THEN AccMax ELSE r.sum + v
        BY <2>8
      <3>2. "SUM" \in Summing /\ "AVG" \in Summing
        BY EngineNames
      <3> QED BY <2>6, <3>1, <3>2
    <2>10. /\ acc_q'["COUNT"] = FoldStep(r, b).count
           /\ acc_q'["MIN"] = FoldStep(r, b).minv
           /\ acc_q'["MAX"] = FoldStep(r, b).maxv
      BY <2>3, <2>4, <2>5, <2>8
    <2>11. overflow_q'["SUM"] = FoldStep(r, b).overflow
      <3>1. FoldStep(r, b).overflow = (r.overflow \/ r.sum + v > AccMax)
        BY <2>8
      <3> QED BY <2>7, <3>1, Zenon
    <2> QED BY <2>9, <2>10, <2>11 DEF Holds
  <1> QED BY <1>1, <1>2

\* A query starts with engines that hold the empty fold.
LEMMA StartDrives ==
  ASSUME NEW o \in Engines, NEW rows \in BeatLists, RunQuery(o, rows)
  PROVE  BenchInv'
  <1>1. IInv'
    BY ClearedStep DEF RunQuery
  <1>2. /\ acc_q' = [e \in Engines |-> Identity(e)]
        /\ overflow_q' = [e \in Summing |-> FALSE]
        /\ busy_q' = [e \in Engines |-> TRUE]
        /\ done_q' = [e \in Engines |-> FALSE]
    BY DEF RunQuery, Start, EnginesEdge, EnginesStart, ClearAccumulators
  <1>3. pc' = "beats" /\ op' = o /\ list' = rows /\ i' = 1
    BY DEF RunQuery
  <1>4. Len(rows) \in Nat \ {0} /\ Prefix(rows)[0] = FoldBase
    BY ListsAreBeats DEF FoldsPrefixes
  <1>5. Holds(FoldBase)'
    BY <1>2 DEF Holds, FoldBase, Engines, Summing, Identity
  <1>6. Holds(Prefix(list)[i - 1])'
    BY <1>3, <1>4, <1>5
  <1>7. Busy' /\ ~done_q'["COUNT"]
    BY <1>2 DEF Busy, Engines
  <1>8. Driven'
    BY <1>3, <1>4, <1>6, <1>7 DEF Driven
  <1> QED BY <1>1, <1>3, <1>8 DEF BenchInv

\* A beat is driven blindly, and the engines are always ready for it.
LEMMA BeatDrives ==
  ASSUME BenchInv, DriveBeat
  PROVE  BenchInv'
  <1> DEFINE last == i = Len(list)
  <1>a. PICK b : b = list[i]
    OBVIOUS
  <1>b. PICK r : r = Prefix(list)[i - 1]
    OBVIOUS
  <1>1. /\ pc = "beats" /\ i <= Len(list) /\ Beat(b.pass, b.v, last)
        /\ i' = i + 1 /\ pc' = "beats" /\ op' = op /\ list' = list
    BY <1>a DEF DriveBeat
  <1>2. IInv /\ Driven
    BY <1>1 DEF BenchInv
  <1>3. /\ Len(list) \in Nat \ {0} /\ i \in 1 .. Len(list)
        /\ list \in Seq([pass : BOOLEAN, v : Values])
        /\ FoldsPrefixes(Prefix(list), list)
    <2>1. list \in BeatLists /\ i \in 1 .. Len(list) + 1
      BY <1>2 DEF Driven
    <2>2. /\ list \in Seq([pass : BOOLEAN, v : Values])
          /\ Len(list) \in Nat \ {0}
          /\ FoldsPrefixes(Prefix(list), list)
      BY <2>1, ListsAreBeats
    <2>3. i \in 1 .. Len(list)
      BY <2>1, <2>2, <1>1
    <2> QED BY <2>2, <2>3
  <1>4. b.pass \in BOOLEAN /\ b.v \in Values /\ last \in BOOLEAN
    <2>1. ASSUME NEW S, NEW s \in Seq(S), NEW k \in 1 .. Len(s)
          PROVE  s[k] \in S
      OBVIOUS
    <2>2. list[i] \in [pass : BOOLEAN, v : Values]
      BY <2>1, <1>3
    <2> QED BY <2>2, <1>a DEF last
  <1>5. Busy
    BY <1>1, <1>2 DEF Driven
  <1>6. Prefix(list)[i] = FoldStep(r, b)
    BY <1>3, <1>a, <1>b DEF FoldsPrefixes
  <1> HIDE DEF last
  <1>7. IInv'
    BY <1>1, <1>2, <1>4, <1>5, TakenStep
  <1>8. Holds(FoldStep(r, b))'
    <2>1. Holds(r)
      BY <1>2, <1>b DEF Driven
    <2> QED BY <1>1, <1>2, <1>4, <1>5, <2>1, HoldsStep
  <1>9. Holds(Prefix(list)[i - 1])'
    <2>1. i' - 1 = i /\ list' = list
      BY <1>1, <1>3
    <2>2. Prefix(list')[i' - 1] = FoldStep(r, b)
      BY <2>1, <1>6
    <2> QED BY <2>2, <1>8 DEF Holds
  <1>10. /\ busy_q' = [e \in Engines |-> ~last]
         /\ done_q' = [e \in Engines |-> done_q[e] \/ last]
    BY <1>1, <1>2, <1>4, <1>5, TakenBeat
  <1>11. (Busy' <=> ~last) /\ (done_q'["COUNT"] <=> last)
    <2>1. ~done_q["COUNT"]
      BY <1>2, <1>5 DEF IInv, Latched
    <2> QED BY <2>1, <1>10 DEF Busy, Engines
  <1>12. Driven'
    <2>1. /\ op' \in Engines /\ list' \in BeatLists /\ pc' # "checked"
          /\ i' \in 1 .. Len(list') + 1
      BY <1>1, <1>2, <1>3 DEF Driven
    <2>2. /\ last <=> i' = Len(list') + 1
          /\ ~last <=> i' <= Len(list')
      BY <1>1, <1>3 DEF last
    <2> QED BY <2>1, <2>2, <1>9, <1>11 DEF Driven
  <1> QED BY <1>1, <1>7, <1>12 DEF BenchInv

\* Every step of the bench, and of the system without it, preserves the
\* invariant.
LEMMA BenchInvStep == BenchInv /\ [BenchNext]_benchVars => BenchInv'
  <1> SUFFICES ASSUME BenchInv, [BenchNext]_benchVars PROVE BenchInv'
    OBVIOUS
  <1>0. ASSUME UNCHANGED engineVars, UNCHANGED <<beats, tally>>,
               list' = list, op' = op, i' = i
        PROVE  IInv' /\ (Driven /\ (pc' = "checked" => i = Len(list) + 1) => Driven')
    <2>1. IInv'
      BY <1>0, IInvStep DEF BenchInv, vars
    <2> QED BY <2>1, <1>0 DEF Driven, Holds, Busy, engineVars
  <1>1. ASSUME NEW o \in Engines, NEW rows \in BeatLists, RunQuery(o, rows)
        PROVE  BenchInv'
    BY <1>1, StartDrives
  <1>2. CASE DriveBeat
    BY <1>2, BeatDrives
  <1>3. CASE IdleCycle
    <2>1. /\ pc = "beats" /\ i > Len(list) /\ pc' = "checked"
          /\ UNCHANGED engineVars /\ UNCHANGED <<beats, tally>>
          /\ list' = list /\ op' = op /\ i' = i
      BY <1>3 DEF IdleCycle, EnginesEdge
    <2>2. Driven
      BY <2>1 DEF BenchInv
    <2>3. i = Len(list) + 1
      <3>1. Len(list) \in Nat /\ i \in 1 .. Len(list) + 1
        BY <2>2, ListsAreBeats DEF Driven
      <3> QED BY <3>1, <2>1
    <2> QED BY <2>1, <2>2, <2>3, <1>0 DEF BenchInv
  <1>4. CASE FreeStep
    <2>1. IInv'
      BY <1>4, IInvStep DEF BenchInv, FreeStep
    <2>2. pc' = "free"
      BY <1>4 DEF FreeStep, bench
    <2> QED BY <2>1, <2>2 DEF BenchInv
  <1>5. CASE UNCHANGED benchVars
    <2>1. /\ UNCHANGED engineVars /\ UNCHANGED <<beats, tally>>
          /\ list' = list /\ op' = op /\ i' = i /\ pc' = pc
      BY <1>5 DEF benchVars, bench, vars
    <2> QED BY <2>1, <1>0 DEF BenchInv, Driven
  <1> QED BY <1>1, <1>2, <1>3, <1>4, <1>5 DEF BenchNext

\* tb_aggregation's checks hold for every width, number of rows and list of
\* beats: a query of any opcode, driven without looking at tready, ends with
\* the software fold's count, result and overflow flag.
THEOREM QueriesCheck == BenchSpec => []QueryChecks
  <1>1. BenchInit => BenchInv
    BY InitIInv DEF BenchInit, BenchInv
  <1>2. BenchInv => QueryChecks
    <2> DEFINE r == reference(list)
    <2> SUFFICES ASSUME BenchInv, pc = "checked"
                 PROVE  /\ done_q["COUNT"] /\ ~busy_q["COUNT"] /\ ~classic_tready
                        /\ result_q["COUNT"] = r.count
                        /\ result_q[op] = CASE op = "COUNT" -> r.count
                                            [] op \in Summing -> r.sum
                                            [] op = "MIN" -> r.minv
                                            [] op = "MAX" -> r.maxv
                        /\ overflow_q["SUM"] = r.overflow
      BY DEF QueryChecks
    <2>1. Driven /\ i = Len(list) + 1 /\ list \in BeatLists /\ op \in Engines
      BY DEF BenchInv, Driven
    <2>2. Len(list) \in Nat /\ FoldsPrefixes(Prefix(list), list)
      BY <2>1, ListsAreBeats
    <2>3. Prefix(list)[i - 1] = r
      BY <2>1, <2>2 DEF FoldsPrefixes
    <2>4. Holds(r)
      BY <2>1, <2>3 DEF Driven
    <2>5. done_q["COUNT"] /\ ~busy_q["COUNT"] /\ ~classic_tready
      BY <2>1, <2>2 DEF Driven, Busy, classic_tready
    <2>6. \A e \in Engines : result_q[e] = acc_q[e]
      BY <2>5 DEF BenchInv, IInv, Latched
    <2> HIDE DEF r
    <2> QED BY <2>1, <2>4, <2>5, <2>6, EngineNames DEF Holds
  <1> QED BY <1>1, <1>2, BenchInvStep, PTL DEF BenchSpec
==============================================================================
