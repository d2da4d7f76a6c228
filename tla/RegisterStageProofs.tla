------------------------- MODULE RegisterStageProofs -------------------------
(***************************************************************************)
(* Proofs about the skid buffer for every set of beats, and about the      *)
(* benches of the two engines in front of it for every list of rows, pair  *)
(* of slots and mask.                                                      *)
(***************************************************************************)
EXTENDS StageBench, TLAPS

\* The type invariant is inductive: it includes that a held beat is one the
\* upstream offered (sreg_q is Blank only while it is not valid).
LEMMA InitTypes == Init => TypeOK
  BY DEF Init, RegisterInit, TypeOK, WireTypes

\* Every clock edge keeps the register and the wires in range.
LEMMA TypesStep == TypeOK /\ [Next]_vars => TypeOK'
  <1> SUFFICES ASSUME TypeOK, [Next]_vars PROVE TypeOK'
    OBVIOUS
  <1> USE DEF TypeOK, WireTypes
  <1>1. CASE ResetEdge
    BY <1>1 DEF ResetEdge, RegisterReset, NextWires, s_axis_tready
  <1>2. CASE ClockEdge
    <2>1. rst' \in BOOLEAN /\ s_tvalid' \in BOOLEAN /\ s_beat' \in Beat
          /\ m_tready' \in BOOLEAN
      BY <1>2 DEF ClockEdge, NextWires, s_axis_tready
    <2>2. delivered' \in Beat \cup {Blank}
      BY <1>2 DEF ClockEdge, m_tvalid, m_beat, m_axis_tvalid, m_axis_beat
    <2>3. /\ sreg_q' \in Beat \cup {Blank} /\ sreg_valid_q' \in BOOLEAN
          /\ sreg_valid_q' => sreg_q' \in Beat
      <3>1. CASE s_tvalid /\ Capture(s_beat, m_tready)
        BY <3>1 DEF Capture
      <3>2. CASE Drain
        BY <3>2 DEF Drain
      <3>3. CASE UNCHANGED registerVars
        BY <3>3 DEF registerVars
      <3> QED BY <1>2, <3>1, <3>2, <3>3 DEF ClockEdge, RegisterEdge
    <2> QED BY <2>1, <2>2, <2>3
  <1>3. CASE UNCHANGED vars
    BY <1>3 DEF vars, wires
  <1> QED BY <1>1, <1>2, <1>3 DEF Next

\* A beat presented and not accepted is presented unchanged in the next
\* cycle, whichever of the two places (input wires, skid register) it is in.
THEOREM OutputIsStable == Spec => OutputStable
  <1>1. ASSUME TypeOK, [Next]_vars
        PROVE  [~rst /\ m_tvalid /\ ~m_tready
                  => m_tvalid' /\ m_beat' = m_beat]_vars
    <2> SUFFICES ASSUME Next, ~rst, m_tvalid, ~m_tready
                 PROVE  m_tvalid' /\ m_beat' = m_beat
      BY <1>1
    <2>1. RegisterEdge(s_tvalid, s_beat, m_tready)
      BY DEF Next, ResetEdge, ClockEdge
    <2>2. CASE sreg_valid_q
      BY <1>1, <2>1, <2>2
      DEF RegisterEdge, Capture, Drain, registerVars, m_tvalid, m_beat,
          m_axis_tvalid, m_axis_beat
    <2>3. CASE ~sreg_valid_q
      BY <1>1, <2>1, <2>3
      DEF RegisterEdge, Capture, Drain, registerVars, m_tvalid, m_beat,
          m_axis_tvalid, m_axis_beat
    <2> QED BY <2>2, <2>3
  <1> QED BY InitTypes, TypesStep, <1>1, PTL DEF Spec, OutputStable

\* The skid buffer implements the abstract channel with capacity one.
THEOREM RegisterRefinesQueue == Spec => ImplementsQueue
  <1>1. Init => Queue!Init
    BY DEF Init, RegisterInit, Queue!Init, Held
  <1>2. ASSUME TypeOK, TypeOK', [Next]_vars
        PROVE  [Queue!Next]_(Queue!streamVars)
    <2>1. CASE ResetEdge
      BY <2>1
      DEF ResetEdge, RegisterReset, Held, Queue!Next, Queue!Discard
    <2>2. CASE ClockEdge
      <3>1. RegisterEdge(s_tvalid, s_beat, m_tready) /\ s_beat \in Beat
        BY <1>2, <2>2 DEF ClockEdge, TypeOK, WireTypes
      <3>2. delivered' = IF m_tvalid /\ m_tready THEN m_beat ELSE delivered
        BY <2>2 DEF ClockEdge
      <3>3. CASE sreg_valid_q /\ m_tready
        <4>1. /\ Held = <<sreg_q>> /\ Held' = <<>> /\ delivered' = sreg_q
          BY <3>1, <3>2, <3>3
          DEF RegisterEdge, Capture, Drain, registerVars, Held, m_tvalid,
              m_beat, m_axis_tvalid, m_axis_beat
        <4> QED BY <4>1 DEF Queue!Next, Queue!HandOver
      <3>4. CASE ~sreg_valid_q /\ s_tvalid /\ m_tready
        <4>1. /\ Held = <<>> /\ Held' = <<>> /\ delivered' = s_beat
          BY <3>1, <3>2, <3>4
          DEF RegisterEdge, Capture, Drain, registerVars, Held, m_tvalid,
              m_beat, m_axis_tvalid, m_axis_beat
        <4>2. Queue!AcceptAndHandOver(s_beat)
          BY <4>1 DEF Queue!AcceptAndHandOver
        <4> QED BY <3>1, <4>2 DEF Queue!Next
      <3>5. CASE ~sreg_valid_q /\ s_tvalid /\ ~m_tready
        <4>1. /\ Held = <<>> /\ Held' = <<s_beat>> /\ delivered' = delivered
          BY <3>1, <3>2, <3>5
          DEF RegisterEdge, Capture, Drain, registerVars, Held
        <4>2. Queue!Accept(s_beat)
          BY <4>1 DEF Queue!Accept
        <4> QED BY <3>1, <4>2 DEF Queue!Next
      <3>6. CASE (sreg_valid_q /\ ~m_tready) \/ (~sreg_valid_q /\ ~s_tvalid)
        <4>1. UNCHANGED registerVars /\ delivered' = delivered
          BY <3>1, <3>2, <3>6
          DEF RegisterEdge, Capture, Drain, m_tvalid, m_axis_tvalid
        <4> QED BY <4>1 DEF registerVars, Held, Queue!streamVars
      <3> QED BY <1>2, <3>3, <3>4, <3>5, <3>6 DEF TypeOK, WireTypes
    <2>3. CASE UNCHANGED vars
      BY <2>3 DEF vars, Held, Queue!streamVars
    <2> QED BY <1>2, <2>1, <2>2, <2>3 DEF Next
  <1> QED
    BY InitTypes, TypesStep, <1>1, <1>2, PTL DEF Spec, ImplementsQueue, Queue!Spec

------------------------------------------------------------------------------
\* PassBit's fold before the first slot, and what one slot makes of it.
Seed == [found |-> FALSE, pass |-> TRUE]
SlotStep(before, slot, columns) ==
  CASE ~slot.enable -> before
    [] slot.enable /\ ~before.found ->
         [found |-> TRUE, pass |-> slot_result(slot, columns)]
    [] slot.enable /\ before.found ->
         [found |-> TRUE,
          pass |-> pred_combine(before.pass, slot.combine, slot_result(slot, columns))]

\* PassBit unrolled: for at most three slots the recursive function it is
\* defined with exists, and so satisfies its own equation.
LEMMA FoldSteps ==
  ASSUME NEW slots, NEW columns, Len(slots) \in 0 .. 3
  PROVE  \E fold :
           /\ PassBit(slots, columns) = fold[Len(slots)].pass
           /\ fold[0] = Seed
           /\ \A i \in 1 .. Len(slots) : fold[i] = SlotStep(fold[i - 1], slots[i], columns)
  <1> DEFINE n == Len(slots)
             Step(g, i) == IF i = 0 THEN Seed ELSE SlotStep(g[i - 1], slots[i], columns)
             Fold == CHOOSE g : g = [i \in 0 .. n |-> Step(g, i)]
  <1>1. PassBit(slots, columns) = Fold[n].pass
    BY DEF PassBit, Seed, SlotStep
  <1>2. \E g : g = [i \in 0 .. n |-> Step(g, i)]
    <2> DEFINE s1 == SlotStep(Seed, slots[1], columns)
               s2 == SlotStep(s1, slots[2], columns)
               s3 == SlotStep(s2, slots[3], columns)
               h == [i \in 0 .. n |-> IF i = 0 THEN Seed ELSE IF i = 1 THEN s1
                                      ELSE IF i = 2 THEN s2 ELSE s3]
    <2>1. ASSUME NEW i \in 0 .. n PROVE h[i] = Step(h, i)
      <3>1. CASE i = 0
        BY <3>1
      <3>2. CASE i = 1
        BY <3>2
      <3>3. CASE i = 2
        BY <3>3
      <3>4. CASE i = 3
        BY <3>4
      <3> QED BY <3>1, <3>2, <3>3, <3>4
    <2>2. h = [i \in 0 .. n |-> h[i]]
      OBVIOUS
    <2> HIDE DEF h
    <2>3. h = [i \in 0 .. n |-> Step(h, i)]
      BY <2>1, <2>2
    <2> QED BY <2>3
  <1>3. Fold = [i \in 0 .. n |-> Step(Fold, i)]
    <2> HIDE DEF Step
    <2> QED BY <1>2
  <1> HIDE DEF Fold
  <1>4. Fold[0] = Seed /\ \A i \in 1 .. n : Fold[i] = SlotStep(Fold[i - 1], slots[i], columns)
    BY <1>3
  <1> QED BY <1>1, <1>4

\* A slot holds or does not, with the reserved comparators too.
LEMMA ResultIsBoolean ==
  ASSUME NEW slot, NEW columns
  PROVE  slot_result(slot, columns) \in BOOLEAN
  <1> DEFINE op == slot.op
  <1>1. CASE op = "EQ"
    BY <1>1, Zenon DEF slot_result, pred_apply
  <1>2. CASE op = "NEQ"
    BY <1>2 DEF slot_result, pred_apply
  <1>3. CASE op = "LT"
    BY <1>3 DEF slot_result, pred_apply
  <1>4. CASE op = "GT"
    BY <1>4 DEF slot_result, pred_apply
  <1>5. CASE op = "LTE"
    BY <1>5 DEF slot_result, pred_apply
  <1>6. CASE op = "GTE"
    BY <1>6 DEF slot_result, pred_apply
  <1>7. CASE op \notin Comparators
    BY <1>7 DEF slot_result, pred_apply, Comparators
  <1> QED BY <1>1, <1>2, <1>3, <1>4, <1>5, <1>6, <1>7 DEF Comparators

\* The two slots of a run: the fold is the reference of tb_predicate.
LEMMA PairIsReference ==
  ASSUME NEW slots \in SlotWord \X SlotWord, NEW columns
  PROVE  PassBit(slots, columns) = ref_pass(slots, columns)
  <1> DEFINE a == slots[1]
             b == slots[2]
             ra == slot_result(a, columns)
             rb == slot_result(b, columns)
             apply(s) == CASE s.op = "EQ" -> columns[s.column] = s.imm
                           [] s.op = "NEQ" -> columns[s.column] # s.imm
                           [] s.op = "LT" -> columns[s.column] < s.imm
                           [] s.op = "GT" -> columns[s.column] > s.imm
                           [] s.op = "LTE" -> columns[s.column] <= s.imm
                           [] OTHER -> columns[s.column] >= s.imm
  <1>1. Len(slots) = 2 /\ a \in SlotWord /\ b \in SlotWord
    OBVIOUS
  <1>2. PICK fold :
           /\ PassBit(slots, columns) = fold[Len(slots)].pass
           /\ fold[0] = Seed
           /\ \A i \in 1 .. Len(slots) : fold[i] = SlotStep(fold[i - 1], slots[i], columns)
    <2>1. Len(slots) \in 0 .. 3
      BY <1>1
    <2> QED BY <2>1, FoldSteps
  <1>3. /\ PassBit(slots, columns) = fold[2].pass
        /\ fold[1] = SlotStep(Seed, a, columns) /\ fold[2] = SlotStep(fold[1], b, columns)
    BY <1>1, <1>2
  <1>4. ASSUME NEW s \in SlotWord PROVE slot_result(s, columns) = apply(s)
    BY <1>4 DEF slot_result, pred_apply, SlotWord, Comparators
  <1>5. ref_pass(slots, columns) =
          CASE ~a.enable /\ ~b.enable -> TRUE
            [] a.enable /\ ~b.enable -> apply(a)
            [] ~a.enable /\ b.enable -> apply(b)
            [] OTHER -> IF b.combine = "AND" THEN apply(a) /\ apply(b)
                        ELSE apply(a) \/ apply(b)
    BY DEF ref_pass
  <1>6. ra \in BOOLEAN /\ rb \in BOOLEAN /\ ra = apply(a) /\ rb = apply(b)
    BY <1>1, <1>4, ResultIsBoolean
  <1> HIDE DEF ra, rb, apply
  <1>7. a.enable \in BOOLEAN /\ b.enable \in BOOLEAN
    BY <1>1 DEF SlotWord
  <1>8. CASE ~a.enable /\ ~b.enable
    <2>1. fold[2] = Seed
      BY <1>3, <1>8 DEF SlotStep
    <2>2. ref_pass(slots, columns) = TRUE
      BY <1>5, <1>8
    <2>3. PassBit(slots, columns) = TRUE
      <3>1. Seed.pass = TRUE
        BY DEF Seed
      <3> QED BY <1>3, <2>1, <3>1
    <2> QED BY <2>2, <2>3
  <1>9. CASE a.enable /\ ~b.enable
    <2>1. fold[1] = [found |-> TRUE, pass |-> ra]
      BY <1>3, <1>9 DEF SlotStep, Seed, ra
    <2>2. fold[2] = fold[1]
      BY <1>3, <1>9 DEF SlotStep
    <2>3. ref_pass(slots, columns) = apply(a)
      BY <1>5, <1>9
    <2> QED BY <1>3, <1>6, <2>1, <2>2, <2>3
  <1>10. CASE ~a.enable /\ b.enable
    <2>1. fold[1] = Seed
      BY <1>3, <1>10 DEF SlotStep, Seed
    <2>2. fold[2] = [found |-> TRUE, pass |-> rb]
      BY <1>3, <1>10, <2>1 DEF SlotStep, Seed, rb
    <2>3. ref_pass(slots, columns) = apply(b)
      BY <1>5, <1>10
    <2> QED BY <1>3, <1>6, <2>2, <2>3
  <1>11. CASE a.enable /\ b.enable
    <2>1. fold[1] = [found |-> TRUE, pass |-> ra]
      BY <1>3, <1>11 DEF SlotStep, Seed, ra
    <2>2. fold[2].pass = pred_combine(ra, b.combine, rb)
      BY <1>3, <1>11, <2>1 DEF SlotStep, rb
    <2>3. ref_pass(slots, columns) =
            IF b.combine = "AND" THEN apply(a) /\ apply(b) ELSE apply(a) \/ apply(b)
      BY <1>5, <1>11
    <2> QED BY <1>3, <1>6, <2>2, <2>3 DEF pred_combine
  <1> QED BY <1>7, <1>8, <1>9, <1>10, <1>11

\* One slot, with the fold before it written out.
LEMMA SlotStepIs ==
  ASSUME NEW found \in BOOLEAN, NEW pass \in BOOLEAN, NEW slot, NEW columns,
         slot.enable \in BOOLEAN
  PROVE  LET r == slot_result(slot, columns)
             p == IF ~slot.enable THEN pass
                  ELSE IF ~found THEN r ELSE pred_combine(pass, slot.combine, r)
         IN  /\ SlotStep([found |-> found, pass |-> pass], slot, columns) =
                  [found |-> found \/ slot.enable, pass |-> p]
             /\ p \in BOOLEAN
  <1> DEFINE r == slot_result(slot, columns)
             p == IF ~slot.enable THEN pass
                  ELSE IF ~found THEN r ELSE pred_combine(pass, slot.combine, r)
             f == [found |-> found, pass |-> pass]
  <1>1. r \in BOOLEAN
    BY ResultIsBoolean
  <1> HIDE DEF r
  <1>2. p \in BOOLEAN
    BY <1>1 DEF pred_combine
  <1>3. CASE ~slot.enable
    <2>1. SlotStep(f, slot, columns) = f /\ (found \/ slot.enable) = found
      BY <1>3 DEF SlotStep
    <2> QED BY <1>2, <1>3, <2>1 DEF r
  <1>4. CASE slot.enable /\ ~found
    <2>1. SlotStep(f, slot, columns) = [found |-> TRUE, pass |-> r]
          /\ (found \/ slot.enable) = TRUE
      BY <1>4 DEF SlotStep, r
    <2> QED BY <1>2, <1>4, <2>1 DEF r
  <1>5. CASE slot.enable /\ found
    <2>1. SlotStep(f, slot, columns) = [found |-> TRUE, pass |-> pred_combine(pass, slot.combine, r)]
          /\ (found \/ slot.enable) = TRUE
      BY <1>5 DEF SlotStep, r
    <2> QED BY <1>2, <1>5, <2>1 DEF r
  <1> QED BY <1>3, <1>4, <1>5

\* A configuration of three slots: the fold is the WHERE clause.
LEMMA TripleIsWhere ==
  ASSUME NEW a, NEW b, NEW c, NEW columns,
         \A s \in {a, b, c} : s.enable \in BOOLEAN /\ s.combine \in {"AND", "OR"}
  PROVE  PassBit(<<a, b, c>>, columns) = Where(<<a, b, c>>, columns)
  <1> DEFINE slots == <<a, b, c>>
             r1 == slot_result(a, columns)
             r2 == slot_result(b, columns)
             r3 == slot_result(c, columns)
             p1 == IF a.enable THEN r1 ELSE TRUE
             p2 == IF ~b.enable THEN p1
                   ELSE IF ~a.enable THEN r2 ELSE pred_combine(p1, b.combine, r2)
             p3 == IF ~c.enable THEN p2
                   ELSE IF ~(a.enable \/ b.enable) THEN r3
                   ELSE pred_combine(p2, c.combine, r3)
  <1>1. Len(slots) = 3 /\ slots[1] = a /\ slots[2] = b /\ slots[3] = c
    OBVIOUS
  <1>2. PICK fold :
           /\ PassBit(slots, columns) = fold[Len(slots)].pass
           /\ fold[0] = Seed
           /\ \A i \in 1 .. Len(slots) : fold[i] = SlotStep(fold[i - 1], slots[i], columns)
    <2>1. Len(slots) \in 0 .. 3
      BY <1>1
    <2> HIDE DEF slots
    <2> QED BY <2>1, FoldSteps
  <1>3. /\ PassBit(slots, columns) = fold[3].pass
        /\ fold[1] = SlotStep(Seed, a, columns)
        /\ fold[2] = SlotStep(fold[1], b, columns)
        /\ fold[3] = SlotStep(fold[2], c, columns)
    BY <1>1, <1>2
  <1>4. /\ a.enable \in BOOLEAN /\ b.enable \in BOOLEAN /\ c.enable \in BOOLEAN
        /\ b.combine \in {"AND", "OR"} /\ c.combine \in {"AND", "OR"}
    OBVIOUS
  <1>5. r1 \in BOOLEAN /\ r2 \in BOOLEAN /\ r3 \in BOOLEAN
    BY ResultIsBoolean
  <1>6. fold[1] = [found |-> a.enable, pass |-> p1] /\ p1 \in BOOLEAN
    <2>1. Seed = [found |-> FALSE, pass |-> TRUE] /\ (FALSE \/ a.enable) = a.enable
      BY <1>4 DEF Seed
    <2>2. CASE a.enable
      BY <1>3, <1>5, <2>1, <2>2 DEF SlotStep
    <2>3. CASE ~a.enable
      BY <1>3, <1>4, <2>1, <2>3 DEF SlotStep
    <2> QED BY <1>4, <2>2, <2>3
  <1> HIDE DEF p1
  <1>7. fold[2] = [found |-> a.enable \/ b.enable, pass |-> p2] /\ p2 \in BOOLEAN
    BY <1>3, <1>4, <1>6, SlotStepIs
  <1> HIDE DEF p2
  <1>8. fold[3] = [found |-> (a.enable \/ b.enable) \/ c.enable, pass |-> p3] /\ p3 \in BOOLEAN
    <2>1. (a.enable \/ b.enable) \in BOOLEAN
      OBVIOUS
    <2> QED BY <1>3, <1>4, <1>7, <2>1, SlotStepIs
  <1>9. PassBit(slots, columns) = p3
    BY <1>3, <1>8
  <1>10. Where(slots, columns) <=>
           (a.enable \/ b.enable \/ c.enable =>
              \/ /\ a.enable
                 /\ r1
                 /\ b.enable /\ b.combine = "AND" => r2
                 /\ c.enable /\ c.combine = "AND" => r3
              \/ /\ b.enable
                 /\ b.combine = "OR" \/ ~a.enable
                 /\ r2
                 /\ c.enable /\ c.combine = "AND" => r3
              \/ /\ c.enable
                 /\ c.combine = "OR" \/ ~(a.enable \/ b.enable)
                 /\ r3)
    <2> DEFINE E == EnabledSlots(slots)
               opens(i) == slots[i].combine = "OR" \/ \A j \in E : i <= j
               Opener(i) == /\ opens(i) /\ slot_result(slots[i], columns)
                            /\ \A j \in E : j > i /\ slots[j].combine = "AND"
                                              => slot_result(slots[j], columns)
    <2>1. Where(slots, columns) <=> (E # {} => \E i \in E : Opener(i))
      BY DEF Where
    <2>2. /\ E \subseteq {1, 2, 3}
          /\ 1 \in E <=> a.enable
          /\ 2 \in E <=> b.enable
          /\ 3 \in E <=> c.enable
      <3>1. E = {i \in {1, 2, 3} : slots[i].enable}
        BY <1>1 DEF EnabledSlots
      <3> HIDE DEF E, slots
      <3> QED BY <1>1, <3>1
    <2> HIDE DEF slots, E
    <2>3. 1 \in E => (opens(1) <=> TRUE)
      BY <2>2
    <2>4. 2 \in E => (opens(2) <=> b.combine = "OR" \/ ~a.enable)
      BY <1>1, <2>2
    <2>5. 3 \in E => (opens(3) <=> c.combine = "OR" \/ ~(a.enable \/ b.enable))
      BY <1>1, <2>2
    <2> HIDE DEF opens
    <2>6. 1 \in E => (Opener(1) <=> /\ r1
                                    /\ b.enable /\ b.combine = "AND" => r2
                                    /\ c.enable /\ c.combine = "AND" => r3)
      BY <1>1, <2>2, <2>3
    <2>7. 2 \in E => (Opener(2) <=> /\ b.combine = "OR" \/ ~a.enable
                                    /\ r2
                                    /\ c.enable /\ c.combine = "AND" => r3)
      BY <1>1, <2>2, <2>4
    <2>8. 3 \in E => (Opener(3) <=> (c.combine = "OR" \/ ~(a.enable \/ b.enable)) /\ r3)
      BY <1>1, <2>2, <2>5
    <2> HIDE DEF Opener
    <2>9. E # {} <=> a.enable \/ b.enable \/ c.enable
      BY <2>2
    <2>10. (\E i \in E : Opener(i)) <=>
             \/ a.enable /\ Opener(1)
             \/ b.enable /\ Opener(2)
             \/ c.enable /\ Opener(3)
      BY <2>2
    <2> HIDE DEF r1, r2, r3
    <2> QED BY <2>1, <2>2, <2>6, <2>7, <2>8, <2>9, <2>10
  <1>11. Where(slots, columns) \in BOOLEAN
    BY DEF Where
  <1> HIDE DEF r1, r2, r3, slots
  <1>12. p3 <=> Where(slots, columns)
    BY <1>4, <1>5, <1>10 DEF p1, p2, p3, pred_combine
  <1> QED BY <1>8, <1>9, <1>11, <1>12 DEF slots

------------------------------------------------------------------------------
\* A run is one the benches make: at least one beat, and two slots of theirs
\* when the engine is the predicate.
LEMMA RunShape ==
  ASSUME NEW r \in Runs
  PROVE  /\ Len(r.beats) \in Nat \ {0}
         /\ r.engine \in {"predicate", "projection"}
         /\ r.engine = "predicate" => r.cfg \in SlotWord \X SlotWord
  <1>1. CASE \E s \in Slots, t \in Tables :
               r = [engine |-> "predicate", cfg |-> s, beats |-> PredicateBeats(t)]
    <2>1. PICK s \in Slots, t \in Tables :
            r = [engine |-> "predicate", cfg |-> s, beats |-> PredicateBeats(t)]
      BY <1>1
    <2>2. s \in SlotWord \X SlotWord /\ Len(t) \in Nat \ {0}
      BY StageBenchAssumption
    <2>3. Len(PredicateBeats(t)) = Len(t)
      BY <2>2 DEF PredicateBeats
    <2> QED BY <2>1, <2>2, <2>3
  <1>2. CASE \E m \in Masks, t \in Tables : \E p :
               r = [engine |-> "projection", cfg |-> m, beats |-> ProjectionBeats(t, p)]
    <2> PICK m \in Masks, t \in Tables : \E p :
          r = [engine |-> "projection", cfg |-> m, beats |-> ProjectionBeats(t, p)]
      BY <1>2
    <2>1. PICK p :
            r = [engine |-> "projection", cfg |-> m, beats |-> ProjectionBeats(t, p)]
      OBVIOUS
    <2>2. Len(t) \in Nat \ {0}
      BY StageBenchAssumption
    <2>3. Len(ProjectionBeats(t, p)) = Len(t)
      BY <2>2 DEF ProjectionBeats
    <2> QED BY <2>1, <2>2, <2>3
  <1> QED BY <1>1, <1>2 DEF Runs

\* What run_beats expects of a beat is what the engine makes of it.
LEMMA EngineIsReference ==
  ASSUME NEW b, run \in Runs
  PROVE  RefBeat(b) = EngineBeat(run, b)
  <1>1. CASE run.engine = "predicate"
    <2>1. PassBit(run.cfg, b.columns) = ref_pass(run.cfg, b.columns)
      BY <1>1, RunShape, PairIsReference
    <2> QED BY <1>1, <2>1 DEF RefBeat, EngineBeat
  <1>2. CASE run.engine # "predicate"
    BY <1>2 DEF RefBeat, EngineBeat, Masked
  <1> QED BY <1>1, <1>2

\* Where run_beats stands: one beat behind the inputs exactly while the skid
\* register holds one, and late by the coin's tails.
RunInv ==
  /\ run \in Runs
  /\ m_tready \in BOOLEAN /\ sreg_valid_q \in BOOLEAN
  /\ expected \in Nat /\ presented \in 0 .. N
  /\ presented = expected + (IF sreg_valid_q THEN 1 ELSE 0)
  /\ s_tvalid \in BOOLEAN /\ (s_tvalid <=> presented < N)
  /\ s_beat = Offered(run, presented)
  /\ sreg_valid_q => sreg_q = EngineBeat(run, run.beats[expected + 1])
  /\ tails \in 0 .. MaxStalls
  /\ m_tready \/ tails < MaxStalls
  /\ cyc = expected + tails

\* In a free run the bench adds nothing to RegisterStage.
BenchInv == run = FreeRun \/ RunInv

\* The first beat is offered before the first edge.
LEMMA BenchInitInv == BenchInit => BenchInv
  <1> SUFFICES ASSUME BenchInit, run \in Runs PROVE RunInv
    BY DEF BenchInit, BenchInv
  <1>1. N \in Nat \ {0}
    BY RunShape DEF N
  <1>2. Benched
    BY RunShape DEF Benched
  <1>3. run # FreeRun
    BY <1>2 DEF Benched, FreeRun
  <1>4. MaxStalls \in 1 .. 64
    BY StageBenchAssumption
  <1>5. /\ presented = 0 /\ expected = 0 /\ cyc = 0 /\ tails = 0
        /\ sreg_valid_q = FALSE /\ m_tready \in BOOLEAN /\ s_tvalid \in BOOLEAN
        /\ s_tvalid /\ s_beat = Offered(run, 0)
    BY <1>3 DEF BenchInit, Init, RegisterInit, WireTypes
  <1>6. presented = expected + (IF sreg_valid_q THEN 1 ELSE 0)
    BY <1>5
  <1>7. presented \in 0 .. N /\ (s_tvalid <=> presented < N)
    BY <1>1, <1>5
  <1>8. tails \in 0 .. MaxStalls /\ tails < MaxStalls /\ cyc = expected + tails /\ expected \in Nat
    BY <1>4, <1>5
  <1>9. sreg_valid_q \in BOOLEAN
    BY <1>5
  <1>10. s_beat = Offered(run, presented)
    BY <1>5
  <1> QED BY <1>5, <1>6, <1>7, <1>8, <1>9, <1>10 DEF RunInv

\* One cycle of run_beats.
LEMMA BeatCycleInv == RunInv /\ BeatCycle => RunInv'
  <1> SUFFICES ASSUME RunInv, BeatCycle PROVE RunInv'
    OBVIOUS
  <1>1. /\ N \in Nat \ {0} /\ N' = N /\ run' = run
        /\ MaxStalls \in 1 .. 64
    BY RunShape, StageBenchAssumption DEF RunInv, BeatCycle, N
  <1>2. expected < N
    BY <1>1 DEF RunInv, BeatCycle, InLoop
  <1>3. RegisterEdge(s_tvalid, s_beat, m_tready)
    BY DEF BeatCycle, ClockEdge
  <1>4. m_tvalid
    <2>1. sreg_valid_q \/ s_tvalid
      <3>1. ~sreg_valid_q => presented = expected
        BY DEF RunInv
      <3> QED BY <1>1, <1>2, <3>1 DEF RunInv
    <2> QED BY <2>1 DEF m_tvalid, m_axis_tvalid
  <1>5. /\ expected' = IF m_tready THEN expected + 1 ELSE expected
        /\ tails' = IF m_tready THEN tails ELSE tails + 1
        /\ cyc' = cyc + 1
        /\ presented' = IF s_tvalid /\ ~sreg_valid_q THEN presented + 1 ELSE presented
    BY <1>2, <1>4 DEF BeatCycle, s_axis_tready
  <1>6. /\ m_tready' \in BOOLEAN
        /\ s_tvalid' \in BOOLEAN /\ (s_tvalid' <=> presented' < N')
        /\ s_beat' = Offered(run, presented')
        /\ tails' < MaxStalls \/ m_tready'
    <2>1. presented' \in Nat /\ N' \in Nat
      BY <1>1, <1>5 DEF RunInv
    <2>2. /\ m_tready' \in BOOLEAN /\ s_tvalid' = (presented' < N')
          /\ s_beat' = Offered(run, presented')
          /\ tails' < MaxStalls \/ m_tready'
      BY <1>1 DEF BeatCycle, DriveInputs, N
    <2>3. (presented' < N') \in BOOLEAN
      BY <2>1
    <2>4. s_tvalid' \in BOOLEAN /\ (s_tvalid' <=> presented' < N')
      BY <2>2, <2>3, Zenon
    <2> QED BY <2>2, <2>4
  <1>7. tails' \in 0 .. MaxStalls /\ cyc' = expected' + tails'
    BY <1>1, <1>5 DEF RunInv
  <1>8. CASE sreg_valid_q /\ m_tready
    <2>1. sreg_valid_q' = FALSE
      BY <1>3, <1>8 DEF RegisterEdge, Capture, Drain
    <2>2. presented = expected + 1 /\ presented' = presented /\ expected' = expected + 1
      BY <1>5, <1>8 DEF RunInv
    <2>3. presented' \in 0 .. N /\ expected' \in Nat
      BY <1>1, <2>2 DEF RunInv
    <2>4. presented' = expected' + (IF sreg_valid_q' THEN 1 ELSE 0)
      BY <2>1, <2>2, <2>3
    <2>5. sreg_valid_q' \in BOOLEAN /\ run' \in Runs /\ (m_tready' \/ tails' < MaxStalls)
      BY <1>1, <1>6, <2>1 DEF RunInv
    <2> QED BY <1>1, <1>6, <1>7, <2>1, <2>3, <2>4, <2>5 DEF RunInv
  <1>9. CASE sreg_valid_q /\ ~m_tready
    <2>1. sreg_valid_q' = sreg_valid_q /\ sreg_q' = sreg_q
      BY <1>3, <1>9 DEF RegisterEdge, Capture, Drain, registerVars
    <2> QED BY <1>1, <1>2, <1>5, <1>6, <1>7, <1>9, <2>1 DEF RunInv
  <1>10. CASE ~sreg_valid_q
    <2>1. s_tvalid /\ presented = expected /\ presented < N
      BY <1>1, <1>2, <1>10 DEF RunInv
    <2>2. s_beat = EngineBeat(run, run.beats[expected + 1])
      BY <1>1, <2>1 DEF RunInv, Offered, N
    <2>3. sreg_valid_q' = (~m_tready) /\ sreg_q' = s_beat
      BY <1>3, <1>10, <2>1 DEF RegisterEdge, Capture, Drain, RunInv
    <2>4. CASE m_tready
      <3>1. sreg_valid_q' = FALSE
        BY <2>3, <2>4
      <3>2. presented' = presented + 1 /\ expected' = expected + 1
        BY <1>5, <1>10, <2>1, <2>4
      <3>3. presented' \in 0 .. N /\ expected' \in Nat
        BY <1>1, <2>1, <3>2 DEF RunInv
      <3>4. presented' = expected' + (IF sreg_valid_q' THEN 1 ELSE 0)
        BY <2>1, <3>1, <3>2, <3>3
      <3>5. sreg_valid_q' \in BOOLEAN /\ run' \in Runs /\ (m_tready' \/ tails' < MaxStalls)
        BY <1>1, <1>6, <3>1 DEF RunInv
      <3> QED BY <1>1, <1>6, <1>7, <3>1, <3>3, <3>4, <3>5 DEF RunInv
    <2>5. CASE ~m_tready
      <3>1. sreg_valid_q' = TRUE
        BY <2>3, <2>5
      <3> QED BY <1>1, <1>2, <1>5, <1>6, <1>7, <1>10, <2>1, <2>2, <2>3, <2>5, <3>1
              DEF RunInv
    <2> QED BY <2>4, <2>5
  <1> QED BY <1>8, <1>9, <1>10 DEF RunInv

\* The loop is left with every beat consumed: the coin's tails cannot use up
\* the cycles.
LEMMA LoopEnds ==
  ASSUME RunInv, ~InLoop
  PROVE  expected = N /\ sreg_valid_q = FALSE
  <1>1. N \in Nat \ {0} /\ MaxStalls \in 1 .. 64
    BY RunShape, StageBenchAssumption DEF RunInv, N
  <1>2. expected <= N
    BY <1>1 DEF RunInv
  <1>3. expected < N => cyc < 8 * N + 64
    BY <1>1 DEF RunInv
  <1> QED BY <1>1, <1>2, <1>3 DEF RunInv, InLoop

\* The next run starts on an empty register.
LEMMA NextRunInv == RunInv /\ NextRun => RunInv'
  <1> SUFFICES ASSUME RunInv, NextRun PROVE RunInv'
    OBVIOUS
  <1>1. run' \in Runs /\ N' \in Nat \ {0} /\ MaxStalls \in 1 .. 64
    BY RunShape, StageBenchAssumption DEF NextRun, N
  <1>2. sreg_valid_q' = FALSE
    BY LoopEnds DEF NextRun, registerVars
  <1>3. /\ presented' = 0 /\ expected' = 0 /\ cyc' = 0 /\ tails' = 0
        /\ m_tready' \in BOOLEAN /\ (tails' < MaxStalls \/ m_tready')
        /\ s_tvalid' = (presented' < N')
        /\ s_beat' = Offered(run', presented')
    BY DEF NextRun, DriveInputs, N
  <1>4. s_tvalid' \in BOOLEAN /\ (s_tvalid' <=> presented' < N')
    <2>1. (presented' < N') \in BOOLEAN
      BY <1>1, <1>3
    <2> QED BY <1>3, <2>1, Zenon
  <1>5. presented' = expected' + (IF sreg_valid_q' THEN 1 ELSE 0)
    BY <1>2, <1>3
  <1>6. /\ presented' \in 0 .. N' /\ expected' \in Nat
        /\ tails' \in 0 .. MaxStalls /\ cyc' = expected' + tails'
    BY <1>1, <1>3
  <1>7. sreg_valid_q' \in BOOLEAN
    BY <1>2
  <1> QED BY <1>1, <1>2, <1>3, <1>4, <1>5, <1>6, <1>7 DEF RunInv

\* A run stays a run and a free run stays free.
LEMMA BenchStepInv == BenchInv /\ [BenchNext]_benchVars => BenchInv'
  <1> SUFFICES ASSUME BenchInv, [BenchNext]_benchVars PROVE BenchInv'
    OBVIOUS
  <1>1. ASSUME run = FreeRun PROVE ~Benched
    BY <1>1 DEF FreeRun, Benched
  <1>2. ASSUME RunInv PROVE Benched
    BY <1>2, RunShape DEF RunInv, Benched
  <1>3. CASE BeatCycle
    BY <1>1, <1>3, BeatCycleInv DEF BenchInv, BeatCycle
  <1>4. CASE NextRun
    BY <1>1, <1>4, NextRunInv DEF BenchInv, NextRun
  <1>5. CASE FreeCycle
    BY <1>2, <1>5 DEF BenchInv, FreeCycle
  <1>6. CASE UNCHANGED benchVars
    BY <1>6 DEF benchVars, vars, wires, loop, BenchInv, RunInv, N, Offered
  <1> QED BY <1>3, <1>4, <1>5, <1>6 DEF BenchNext

\* The inductive invariant of the two benches.
LEMMA BenchInvariant == BenchSpec => []BenchInv
  BY BenchInitInv, BenchStepInv, PTL DEF BenchSpec

\* The checks of run_beats hold in every run: in every cycle in which the
\* output is valid it is the next unconsumed beat as the reference of the
\* bench computes it, and the loop is left with every beat consumed.
THEOREM StageChecksHold == BenchSpec => []StageChecks
  <1>1. ASSUME BenchInv PROVE StageChecks
    <2> SUFFICES ASSUME Benched
                 PROVE  /\ InLoop /\ m_tvalid /\ expected < N
                             => m_beat = RefBeat(run.beats[expected + 1])
                        /\ ~InLoop => expected = N
      BY DEF StageChecks
    <2>1. RunInv
      BY <1>1 DEF BenchInv, Benched, FreeRun
    <2>2. ~InLoop => expected = N
      BY <2>1, LoopEnds
    <2>3. ASSUME expected < N
          PROVE  m_beat = RefBeat(run.beats[expected + 1])
      <3>1. RefBeat(run.beats[expected + 1]) = EngineBeat(run, run.beats[expected + 1])
        BY <2>1, EngineIsReference DEF RunInv
      <3>2. CASE sreg_valid_q
        BY <2>1, <3>1, <3>2 DEF RunInv, m_beat, m_axis_beat
      <3>3. CASE ~sreg_valid_q
        <4>1. N \in Nat /\ presented = expected
          BY <2>1, <3>3, RunShape DEF RunInv, N
        <4>2. s_beat = EngineBeat(run, run.beats[expected + 1])
          BY <2>1, <2>3, <4>1 DEF RunInv, Offered, N
        <4> QED BY <3>1, <3>3, <4>2 DEF m_beat, m_axis_beat
      <3> QED BY <3>2, <3>3
    <2> QED BY <2>2, <2>3
  <1> QED BY BenchInvariant, <1>1, PTL

\* The fold of predicate_engine over the two slots of a run and any third
\* one, before or after them, is the WHERE clause read from left to right.
THEOREM PassBitIsWhere == BenchSpec => []PassIsWhere
  <1>1. ASSUME BenchInv PROVE PassIsWhere
    <2> SUFFICES ASSUME run.engine = "predicate",
                        NEW extra \in [enable : BOOLEAN, op : Ops, combine : {"AND", "OR"},
                                       column : DOMAIN s_beat.columns, imm : {0, 1}],
                        NEW slots \in {<<extra>> \o run.cfg, Append(run.cfg, extra)}
                 PROVE  PassBit(slots, s_beat.columns) = Where(slots, s_beat.columns)
      BY DEF PassIsWhere
    <2>1. run.cfg \in SlotWord \X SlotWord
      BY <1>1, RunShape DEF BenchInv, FreeRun, RunInv
    <2> DEFINE a == run.cfg[1]
               b == run.cfg[2]
    <2>2. run.cfg = <<a, b>> /\ a \in SlotWord /\ b \in SlotWord
      BY <2>1
    <2>3. \A s \in {extra, a, b} : s.enable \in BOOLEAN /\ s.combine \in {"AND", "OR"}
      BY <2>2 DEF SlotWord
    <2> HIDE DEF a, b
    <2>4. slots = <<extra, a, b>> \/ slots = <<a, b, extra>>
      BY <2>2
    <2>5. CASE slots = <<extra, a, b>>
      BY <2>3, <2>5, TripleIsWhere
    <2>6. CASE slots = <<a, b, extra>>
      BY <2>3, <2>6, TripleIsWhere
    <2> QED BY <2>4, <2>5, <2>6
  <1> QED BY BenchInvariant, <1>1, PTL
==============================================================================
