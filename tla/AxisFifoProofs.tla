--------------------------- MODULE AxisFifoProofs ---------------------------
(***************************************************************************)
(* Proofs about AxisFifo for every DEPTH and every set of beats.  The      *)
(* occupancy argument needs the three invariants together: a pop presents  *)
(* mem[rptr], which is data only because the pointers agree, and the slot  *)
(* a push overwrites is free only because the pointers agree.  The bench   *)
(* of FifoBench takes only such steps, and its scoreboard follows from the *)
(* equality of its reference queue with the represented one.               *)
(***************************************************************************)
EXTENDS FifoBench, TLAPS, SequenceTheorems

\* The inductive invariant.
IInv == TypeOK /\ PointersAgree /\ OccupiedWritten

\* Advancing a pointer stays in range and is one step around the ring.
LEMMA NextSlotWrap ==
  ASSUME NEW p \in Slot
  PROVE  NextSlot(p) \in Slot /\ NextSlot(p) = Wrap(p + 1)
  BY DepthAssumption DEF Slot, NextSlot, Wrap

\* A position within one turn of the ring is a slot, and wrapping commutes
\* with advancing the pointer.
LEMMA WrapShift ==
  ASSUME NEW p \in Slot, NEW d \in 0 .. DEPTH - 1
  PROVE  /\ Wrap(p + d) \in Slot
         /\ Wrap(NextSlot(p) + d) = Wrap(p + d + 1)
         /\ NextSlot(Wrap(p + d)) = Wrap(NextSlot(p) + d)
  BY DepthAssumption DEF Slot, NextSlot, Wrap

\* Two positions less than one turn apart are different slots.
LEMMA WrapInjective ==
  ASSUME NEW p \in Slot, NEW j \in 0 .. DEPTH - 1, NEW d \in 0 .. DEPTH - 1,
         j # d
  PROVE  Wrap(p + j) # Wrap(p + d)
  BY DepthAssumption DEF Slot, Wrap

\* The reset state satisfies the invariant.
LEMMA InitIInv == Init => IInv
  BY DepthAssumption
  DEF Init, IInv, TypeOK, PointersAgree, OccupiedWritten, Slot

\* What the occupied positions hold after each kind of clock edge, position
\* by position.
LEMMA PushPositions ==
  ASSUME IInv, NEW b \in Beat, Push(b)
  PROVE  /\ count' = count + 1
         /\ \A i \in 1 .. count : Contents'[i] = Contents[i]
         /\ Contents'[count + 1] = b
  <1>1. count' = count + 1
    BY DEF Push
  <1>2. count \in 0 .. DEPTH - 1
    BY DepthAssumption DEF Push, s_axis_tready, IInv, TypeOK
  <1>3. CASE count = 0
    BY <1>1, <1>3 DEF Push, Forward, Contents
  <1>4. CASE count > 0
    <2>1. wptr = Wrap(rptr + count - 1) /\ wptr \in Slot /\ rptr \in Slot
      BY <1>4 DEF IInv, PointersAgree, TypeOK
    <2>2. dout_q' = dout_q /\ rptr' = rptr /\ mem' = [mem EXCEPT ![wptr] = b]
      BY <1>4 DEF Push, Store
    <2>3. ASSUME NEW i \in 2 .. count
          PROVE  Wrap(rptr + i - 2) \in Slot /\ Wrap(rptr + i - 2) # wptr
      BY <1>2, <2>1, DepthAssumption DEF Wrap, Slot
    <2>4. ASSUME NEW i \in 1 .. count
          PROVE  Contents'[i] = Contents[i]
      <3>1. CASE i = 1
        BY <1>1, <1>2, <2>2, <3>1 DEF Contents
      <3>2. CASE i # 1
        <4>1. Wrap(rptr + i - 2) \in Slot /\ Wrap(rptr + i - 2) # wptr
          BY <2>3, <3>2, <1>2
        <4>2. mem'[Wrap(rptr + i - 2)] = mem[Wrap(rptr + i - 2)]
          BY <4>1, <2>2 DEF IInv, TypeOK
        <4> QED
          BY <1>1, <1>2, <2>2, <3>2, <4>2 DEF Contents, Wrap
      <3> QED BY <3>1, <3>2
    <2>5. Contents'[count + 1] = b
      <3>1. mem'[wptr] = b
        BY <2>1, <2>2 DEF IInv, TypeOK
      <3>2. Contents'[count + 1] = mem'[Wrap(rptr + (count + 1) - 2)]
        BY <1>1, <1>2, <1>4, <2>2 DEF Contents, Wrap
      <3> QED BY <3>1, <3>2, <2>1, <1>2 DEF Slot
    <2> QED BY <1>1, <2>4, <2>5
  <1> QED BY <1>2, <1>3, <1>4

\* A pop moves every younger beat one position forward.
LEMMA PopPositions ==
  ASSUME IInv, Pop
  PROVE  /\ count > 0
         /\ count' = count - 1
         /\ delivered' = Contents[1]
         /\ \A i \in 1 .. count - 1 : Contents'[i] = Contents[i + 1]
  <1>1. count \in 1 .. DEPTH /\ count' = count - 1
    BY DEF Pop, m_axis_tvalid, IInv, TypeOK
  <1>2. delivered' = Contents[1]
    BY <1>1 DEF Pop, Contents
  <1>3. /\ dout_q' = mem[rptr] /\ rptr' = NextSlot(rptr) /\ mem' = mem
        /\ rptr \in Slot
    BY DEF Pop, Fetch, IInv, TypeOK
  <1>4. ASSUME NEW i \in 1 .. count - 1
        PROVE  Contents'[i] = Contents[i + 1]
    <2>1. CASE i = 1
      <3>1. Contents'[1] = mem[rptr]
        BY <1>1, <1>3, <2>1 DEF Contents
      <3>2. Contents[2] = mem[Wrap(rptr + 2 - 2)]
        BY <1>1, <2>1 DEF Contents
      <3>3. Wrap(rptr + 2 - 2) = rptr
        BY <1>3, DepthAssumption DEF Wrap, Slot
      <3> QED BY <2>1, <3>1, <3>2, <3>3
    <2>2. CASE i # 1
      <3>1. Contents'[i] = mem[Wrap(NextSlot(rptr) + i - 2)]
        BY <1>1, <1>3, <2>2 DEF Contents, Wrap
      <3>2. Contents[i + 1] = mem[Wrap(rptr + (i + 1) - 2)]
        BY <1>1, <2>2 DEF Contents
      <3>3. Wrap(NextSlot(rptr) + i - 2) = Wrap(rptr + (i + 1) - 2)
        BY <1>1, <1>3, <2>2, DepthAssumption DEF Wrap, Slot, NextSlot
      <3> QED BY <3>1, <3>2, <3>3
    <2> QED BY <2>1, <2>2
  <1> QED BY <1>1, <1>2, <1>4

\* A push with a pop does both, the forwarding of the only beat included.
LEMMA PushPopPositions ==
  ASSUME IInv, NEW b \in Beat, PushPop(b)
  PROVE  /\ count > 0
         /\ count' = count
         /\ delivered' = Contents[1]
         /\ \A i \in 1 .. count - 1 : Contents'[i] = Contents[i + 1]
         /\ Contents'[count] = b
  <1>1. count \in 1 .. DEPTH - 1 /\ count' = count
    BY DepthAssumption
    DEF PushPop, s_axis_tready, m_axis_tvalid, IInv, TypeOK
  <1>2. delivered' = Contents[1]
    BY <1>1 DEF PushPop, Contents
  <1>3. CASE count = 1
    BY <1>1, <1>2, <1>3 DEF PushPop, Forward, Contents
  <1>4. CASE count > 1
    <2>1. /\ dout_q' = mem[rptr] /\ rptr' = NextSlot(rptr)
          /\ mem' = [mem EXCEPT ![wptr] = b]
          /\ rptr \in Slot /\ wptr \in Slot
          /\ wptr = Wrap(rptr + count - 1)
      BY <1>1, <1>4 DEF PushPop, Store, Fetch, IInv, TypeOK, PointersAgree
    <2>2. ASSUME NEW i \in 1 .. count - 1
          PROVE  Contents'[i] = Contents[i + 1]
      <3>0. Contents[i + 1] = mem[Wrap(rptr + (i + 1) - 2)]
        BY <1>1 DEF Contents
      <3>1. CASE i = 1
        <4>1. Contents'[1] = mem[rptr]
          BY <1>1, <2>1, <3>1 DEF Contents
        <4>2. Wrap(rptr + (1 + 1) - 2) = rptr
          BY <2>1, DepthAssumption DEF Wrap, Slot
        <4> QED BY <3>0, <3>1, <4>1, <4>2
      <3>2. CASE i # 1
        <4>1. Contents'[i] = mem'[Wrap(NextSlot(rptr) + i - 2)]
          BY <1>1, <2>1, <3>2 DEF Contents, Wrap
        <4>2. Wrap(NextSlot(rptr) + i - 2) = Wrap(rptr + (i + 1) - 2)
          BY <1>1, <2>1, <3>2, DepthAssumption DEF Wrap, Slot, NextSlot
        <4>3. /\ Wrap(rptr + (i + 1) - 2) \in Slot
              /\ Wrap(rptr + (i + 1) - 2) # wptr
          BY <1>1, <2>1, DepthAssumption DEF Wrap, Slot
        <4>4. mem'[Wrap(rptr + (i + 1) - 2)] = mem[Wrap(rptr + (i + 1) - 2)]
          BY <2>1, <4>3 DEF IInv, TypeOK
        <4> QED BY <3>0, <4>1, <4>2, <4>4
      <3> QED BY <3>1, <3>2
    <2>3. Contents'[count] = b
      <3>1. Contents'[count] = mem'[Wrap(NextSlot(rptr) + count - 2)]
        BY <1>1, <1>4, <2>1 DEF Contents, Wrap
      <3>2. Wrap(NextSlot(rptr) + count - 2) = wptr
        BY <1>1, <1>4, <2>1, DepthAssumption DEF Wrap, Slot, NextSlot
      <3>3. mem'[wptr] = b
        BY <2>1 DEF IInv, TypeOK
      <3> QED BY <3>1, <3>2, <3>3
    <2> QED BY <1>1, <1>2, <2>2, <2>3
  <1> QED BY <1>1, <1>3, <1>4

-----------------------------------------------------------------------------
(* The invariant *)

\* Every clock edge keeps the registers in range.
LEMMA TypeStep == IInv /\ [Next]_vars => TypeOK'
  <1> SUFFICES ASSUME IInv, [Next]_vars PROVE TypeOK'
    OBVIOUS
  <1>1. TypeOK
    BY DEF IInv
  <1>2. NextSlot(wptr) \in Slot /\ NextSlot(rptr) \in Slot
    BY <1>1, NextSlotWrap DEF TypeOK
  <1>3. CASE Reset
    BY <1>1, <1>3, DepthAssumption DEF Reset, TypeOK, Slot
  <1>4. CASE Pop
    BY <1>1, <1>2, <1>4, DepthAssumption
    DEF Pop, Fetch, m_axis_tvalid, TypeOK
  <1>5. ASSUME NEW b \in Beat, Push(b) PROVE TypeOK'
    BY <1>1, <1>2, <1>5, DepthAssumption
    DEF Push, Store, Forward, s_axis_tready, TypeOK
  <1>6. ASSUME NEW b \in Beat, PushPop(b) PROVE TypeOK'
    BY <1>1, <1>2, <1>6, DepthAssumption
    DEF PushPop, Store, Forward, Fetch, TypeOK
  <1>7. CASE UNCHANGED vars
    BY <1>1, <1>7 DEF vars, TypeOK
  <1> QED BY <1>3, <1>4, <1>5, <1>6, <1>7 DEF Next

\* Every clock edge keeps rptr, count and wptr in step.
LEMMA PointersStep == IInv /\ [Next]_vars => PointersAgree'
  <1> SUFFICES ASSUME IInv, [Next]_vars PROVE PointersAgree'
    OBVIOUS
  <1>1. TypeOK /\ PointersAgree
    BY DEF IInv
  <1>2. CASE Reset
    BY <1>2 DEF Reset, PointersAgree
  <1>3. CASE Pop
    BY <1>1, <1>3, DepthAssumption
    DEF Pop, Fetch, m_axis_tvalid, TypeOK, PointersAgree, NextSlot, Wrap, Slot
  <1>4. ASSUME NEW b \in Beat, Push(b) PROVE PointersAgree'
    <2>1. CASE count = 0
      BY <1>1, <1>4, <2>1, DepthAssumption
      DEF Push, Store, Forward, TypeOK, PointersAgree, NextSlot, Wrap, Slot
    <2>2. CASE count > 0
      BY <1>1, <1>4, <2>2, DepthAssumption
      DEF Push, Store, s_axis_tready, TypeOK, PointersAgree, NextSlot, Wrap,
          Slot
    <2> QED BY <1>1, <2>1, <2>2 DEF TypeOK
  <1>5. ASSUME NEW b \in Beat, PushPop(b) PROVE PointersAgree'
    <2>1. CASE count = 1
      BY <1>1, <1>5, <2>1, DepthAssumption
      DEF PushPop, Store, Forward, TypeOK, PointersAgree, NextSlot, Wrap, Slot
    <2>2. CASE count > 1
      BY <1>1, <1>5, <2>2, DepthAssumption
      DEF PushPop, Store, Fetch, s_axis_tready, TypeOK, PointersAgree,
          NextSlot, Wrap, Slot
    <2> QED BY <1>1, <1>5, <2>1, <2>2 DEF TypeOK, PushPop, m_axis_tvalid
  <1>6. CASE UNCHANGED vars
    BY <1>1, <1>6 DEF vars, PointersAgree, Wrap
  <1> QED BY <1>2, <1>3, <1>4, <1>5, <1>6 DEF Next

\* Every clock edge leaves a pushed beat in every counted position.
LEMMA OccupiedStep == IInv /\ [Next]_vars => OccupiedWritten'
  <1> SUFFICES ASSUME IInv, [Next]_vars, NEW i \in 1 .. count'
               PROVE  Contents'[i] \in Beat
    BY DEF OccupiedWritten
  <1>1. OccupiedWritten /\ count \in Nat
    BY DEF IInv, TypeOK
  <1>2. CASE Reset
    BY <1>2 DEF Reset
  <1>3. CASE Pop
    BY <1>1, <1>3, PopPositions DEF OccupiedWritten
  <1>4. ASSUME NEW b \in Beat, Push(b) PROVE Contents'[i] \in Beat
    BY <1>1, <1>4, PushPositions DEF OccupiedWritten
  <1>5. ASSUME NEW b \in Beat, PushPop(b) PROVE Contents'[i] \in Beat
    BY <1>1, <1>5, PushPopPositions DEF OccupiedWritten
  <1>6. CASE UNCHANGED vars
    BY <1>1, <1>6 DEF vars, OccupiedWritten, Contents, Wrap
  <1> QED BY <1>2, <1>3, <1>4, <1>5, <1>6 DEF Next

\* Whatever the producer and the consumer do, the registers stay in range
\* (count <= DEPTH), the pointers agree with the occupancy and every counted
\* position holds a pushed beat.
THEOREM FifoInvariant == Spec => [](TypeOK /\ PointersAgree /\ OccupiedWritten)
  <1>1. IInv /\ [Next]_vars => IInv'
    BY TypeStep, PointersStep, OccupiedStep DEF IInv
  <1>2. Spec => []IInv
    BY InitIInv, <1>1, PTL DEF Spec
  <1> QED BY <1>2, PTL DEF IInv

-----------------------------------------------------------------------------
(* The refinement *)

\* The represented queue is a sequence of beats of length count.
LEMMA ContentsSeq ==
  ASSUME IInv
  PROVE  Contents \in Seq(Beat) /\ Len(Contents) = count
  BY DEF IInv, TypeOK, OccupiedWritten, Contents

\* The same in the next state.
LEMMA ContentsPrimeSeq ==
  ASSUME IInv'
  PROVE  Contents' \in Seq(Beat) /\ Len(Contents') = count'
  BY DEF IInv, TypeOK, OccupiedWritten, Contents

\* What each kind of clock edge does to the represented queue.
LEMMA PushQueue ==
  ASSUME IInv, IInv', NEW b \in Beat, Push(b)
  PROVE  Len(Contents) < DEPTH /\ Contents' = Append(Contents, b)
  <1>1. Len(Contents) < DEPTH
    BY ContentsSeq, DepthAssumption DEF Push, s_axis_tready, IInv, TypeOK
  <1>2. count \in Nat
    BY DEF IInv, TypeOK
  <1>3. Contents' = Append(Contents, b)
    BY <1>2, ContentsSeq, ContentsPrimeSeq, PushPositions, AppendProperties,
       SeqEqual
  <1> QED BY <1>1, <1>3

LEMMA PopQueue ==
  ASSUME IInv, IInv', Pop
  PROVE  /\ Contents # <<>> /\ delivered' = Head(Contents)
         /\ Contents' = Tail(Contents)
  <1>1. /\ Contents \in Seq(Beat) /\ Len(Contents) = count
        /\ Contents' \in Seq(Beat) /\ Len(Contents') = count'
        /\ count \in Nat
    BY ContentsSeq, ContentsPrimeSeq DEF IInv, TypeOK
  <1>2. Contents # <<>> /\ delivered' = Head(Contents)
    BY <1>1, PopPositions
  <1>3. /\ Tail(Contents) \in Seq(Beat) /\ Len(Tail(Contents)) = count'
        /\ \A i \in 1 .. count' : Tail(Contents)[i] = Contents[i + 1]
    BY <1>1, <1>2, PopPositions, HeadTailProperties
  <1>4. Contents' = Tail(Contents)
    BY <1>1, <1>3, PopPositions, SeqEqual
  <1> QED BY <1>2, <1>4

LEMMA PushPopQueue ==
  ASSUME IInv, IInv', NEW b \in Beat, PushPop(b)
  PROVE  /\ Len(Contents) < DEPTH /\ Contents # <<>>
         /\ delivered' = Head(Append(Contents, b))
         /\ Contents' = Tail(Append(Contents, b))
  <1>1. /\ Contents \in Seq(Beat) /\ Len(Contents) = count
        /\ Contents' \in Seq(Beat) /\ Len(Contents') = count'
        /\ count \in Nat
    BY ContentsSeq, ContentsPrimeSeq DEF IInv, TypeOK
  <1>2. Len(Contents) < DEPTH /\ Contents # <<>>
    BY <1>1, PushPopPositions, DepthAssumption
    DEF PushPop, s_axis_tready, IInv, TypeOK
  <1> DEFINE A == Append(Contents, b)
  <1>3. /\ A \in Seq(Beat) /\ Len(A) = count + 1 /\ A # <<>>
        /\ \A i \in 1 .. count : A[i] = Contents[i]
        /\ A[count + 1] = b
    BY <1>1, AppendProperties
  <1> HIDE DEF A
  <1>4. delivered' = Head(A)
    BY <1>1, <1>3, PushPopPositions
  <1>5. /\ Tail(A) \in Seq(Beat) /\ Len(Tail(A)) = count
        /\ \A i \in 1 .. count : Tail(A)[i] = A[i + 1]
    BY <1>1, <1>3, HeadTailProperties
  <1>6. \A i \in 1 .. count : Contents'[i] = Tail(A)[i]
    BY <1>1, <1>3, <1>5, PushPopPositions
  <1>7. Contents' = Tail(A)
    BY <1>1, <1>5, <1>6, PushPopPositions, SeqEqual
  <1> QED BY <1>2, <1>4, <1>7 DEF A

\* Every clock edge of the FIFO is a step of the abstract queue or leaves it
\* alone.
LEMMA StepRefines ==
  ASSUME IInv, IInv', [Next]_vars
  PROVE  [Queue!Next]_(Queue!streamVars)
  <1>1. CASE Reset
    BY <1>1, ContentsPrimeSeq DEF Reset, Queue!Next, Queue!Discard
  <1>2. CASE Pop
    BY <1>2, PopQueue DEF Queue!Next, Queue!HandOver
  <1>3. ASSUME NEW b \in Beat, Push(b) PROVE Queue!Accept(b)
    BY <1>3, PushQueue DEF Push, Queue!Accept
  <1>4. ASSUME NEW b \in Beat, PushPop(b) PROVE Queue!AcceptAndHandOver(b)
    BY <1>4, PushPopQueue DEF Queue!AcceptAndHandOver
  <1>5. CASE UNCHANGED vars
    BY <1>5 DEF vars, Queue!streamVars, Contents, Wrap
  <1> QED BY <1>1, <1>2, <1>3, <1>4, <1>5 DEF Next, Queue!Next

\* The FIFO is an in-order, lossless channel of capacity DEPTH, for every
\* DEPTH >= 1 (the drain/refill forwarding and the pointer resynchronisation
\* of axis_fifo.sv included).
THEOREM FifoRefinesQueue == Spec => ImplementsQueue
  <1>1. Init => Queue!Init
    BY DEF Init, Queue!Init, Contents
  <1>2. IInv /\ IInv' /\ [Next]_vars => [Queue!Next]_(Queue!streamVars)
    BY StepRefines
  <1>3. IInv /\ [Next]_vars => IInv'
    BY TypeStep, PointersStep, OccupiedStep DEF IInv
  <1> QED
    BY InitIInv, <1>1, <1>2, <1>3, PTL DEF Spec, ImplementsQueue, Queue!Spec

-----------------------------------------------------------------------------
(* The testbench: its reference queue and its schedule *)

\* The loop counters of main: a directed sequence has pushed k beats, or has
\* DEPTH - k left to pop; the forced drain began with k = 0 and at most DEPTH
\* beats.
Schedule ==
  /\ phase \in {"fill", "drain", "checked", "random", "force"}
  /\ k \in Nat
  /\ phase = "fill" => k = Len(ref)
  /\ phase = "drain" => k + Len(ref) = DEPTH
  /\ phase = "checked" => ref = <<>>
  /\ phase = "random" => k = 0
  /\ phase = "force" => k + Len(ref) <= DEPTH

\* The inductive invariant of the bench.
BenchInv == IInv /\ ref = Contents /\ Schedule

\* Every clock of the bench is a clock of the FIFO.
LEMMA CycleIsStep ==
  ASSUME NEW b \in Beat \cup {Blank}, NEW sv \in BOOLEAN, NEW mr \in BOOLEAN,
         sv => b \in Beat, Cycle(sv, b, mr)
  PROVE  [Next]_vars
  BY DEF Cycle, Next

\* One clock of the bench, by what its two handshakes do to the queue.
LEMMA CycleQueue ==
  ASSUME IInv, IInv', NEW b \in Beat \cup {Blank}, NEW sv \in BOOLEAN,
         NEW mr \in BOOLEAN, sv => b \in Beat, Cycle(sv, b, mr)
  PROVE  LET push == sv /\ s_axis_tready
             pop == mr /\ m_axis_tvalid
             after == IF push THEN Append(Contents, b) ELSE Contents
         IN  Contents' = IF pop THEN Tail(after) ELSE after
  <1> DEFINE push == sv /\ s_axis_tready
             pop == mr /\ m_axis_tvalid
  <1>1. CASE push /\ ~pop
    BY <1>1, PushQueue DEF Cycle
  <1>2. CASE pop /\ ~push
    BY <1>2, PopQueue DEF Cycle
  <1>3. CASE push /\ pop
    BY <1>3, PushPopQueue DEF Cycle
  <1>4. CASE ~push /\ ~pop
    <2>1. UNCHANGED vars
      BY <1>4 DEF Cycle
    <2>2. Contents' = Contents
      BY <2>1 DEF vars, Contents, Wrap
    <2> QED BY <1>4, <2>2
  <1> QED BY <1>1, <1>2, <1>3, <1>4

\* Every step of the bench steps the FIFO or leaves it alone.
LEMMA BenchStep ==
  ASSUME BenchNext
  PROVE  [Next]_vars
  <1>1. CASE ResetAll \/ RandomReset
    BY <1>1 DEF ResetAll, RandomReset, Next
  <1>2. CASE Fill \/ PushWhileFull
    BY <1>2, CycleIsStep DEF Fill, PushWhileFull
  <1>3. CASE Drain \/ ForceDrain
    BY <1>3, CycleIsStep DEF Drain, ForceDrain
  <1>4. CASE RandomCycle
    BY <1>4, CycleIsStep DEF RandomCycle
  <1>5. CASE StopRandom
    BY <1>5 DEF StopRandom
  <1> QED BY <1>1, <1>2, <1>3, <1>4, <1>5 DEF BenchNext

\* The wires of the FIFO as the reference queue predicts them.
LEMMA WiresFollowQueue ==
  ASSUME BenchInv
  PROVE  /\ ref \in Seq(Beat) /\ Len(ref) \in 0 .. DEPTH
         /\ m_axis_tvalid <=> ref # <<>>
         /\ s_axis_tready <=> Len(ref) < DEPTH
         /\ ref # <<>> => dout_q = Head(ref)
         /\ ref # <<>> => Tail(ref) \in Seq(Beat) /\ Len(Tail(ref)) = Len(ref) - 1
  <1>1. ref \in Seq(Beat) /\ Len(ref) = count /\ count \in 0 .. DEPTH
    BY ContentsSeq DEF BenchInv, IInv, TypeOK
  <1>2. ref # <<>> => dout_q = Head(ref)
    BY <1>1 DEF BenchInv, Contents
  <1> QED
    BY <1>1, <1>2, DepthAssumption DEF m_axis_tvalid, s_axis_tready

\* The bench keeps its reference queue equal to the contents of the FIFO and
\* its counters in step with it.
LEMMA BenchInvStep ==
  ASSUME BenchInv, [BenchNext]_benchVars
  PROVE  BenchInv'
  <1>1. CASE BenchNext
    <2>1. IInv /\ IInv'
      BY <1>1, BenchStep, TypeStep, PointersStep, OccupiedStep
      DEF BenchInv, IInv
    <2>2. /\ ref \in Seq(Beat) /\ Len(ref) \in 0 .. DEPTH /\ ref = Contents
          /\ m_axis_tvalid <=> ref # <<>>
          /\ s_axis_tready <=> Len(ref) < DEPTH
          /\ ref # <<>> => Tail(ref) \in Seq(Beat) /\ Len(Tail(ref)) = Len(ref) - 1
          /\ Schedule
      BY WiresFollowQueue DEF BenchInv
    <2>3. ASSUME Reset PROVE Contents' = <<>>
      BY <2>1, <2>3, ContentsPrimeSeq DEF Reset
    <2>4. CASE ResetAll
      BY <2>1, <2>3, <2>4 DEF ResetAll, BenchInv, Schedule
    <2>5. CASE Fill
      <3>1. PICK b \in Beat : Cycle(TRUE, b, FALSE) /\ ref' = Append(ref, b)
        BY <2>5 DEF Fill
      <3>2. Contents' = Append(Contents, b)
        BY <2>1, <2>2, <2>5, <3>1, CycleQueue DEF Fill, Schedule
      <3>3. ref' = Contents' /\ Len(ref') = Len(ref) + 1
        BY <2>2, <3>1, <3>2
      <3> QED BY <2>1, <2>2, <2>5, <3>3 DEF Fill, BenchInv, Schedule
    <2>6. CASE PushWhileFull
      <3>1. PICK b \in Beat : Cycle(TRUE, b, FALSE)
        BY <2>6 DEF PushWhileFull
      <3>2. ~s_axis_tready
        BY <2>2, <2>6, DepthAssumption DEF PushWhileFull, Schedule
      <3>3. Contents' = Contents
        BY <2>1, <3>1, <3>2, CycleQueue
      <3> QED
        BY <2>1, <2>2, <2>6, <3>3, DepthAssumption
        DEF PushWhileFull, BenchInv, Schedule
    <2>7. CASE Drain
      <3>1. Contents' = IF ref # <<>> THEN Tail(Contents) ELSE Contents
        BY <2>1, <2>2, <2>7, CycleQueue DEF Drain
      <3>2. ref # <<>> <=> k < DEPTH
        BY <2>2, <2>7, DepthAssumption DEF Drain, Schedule
      <3>3. CASE k < DEPTH
        BY <2>1, <2>2, <2>7, <3>1, <3>2, <3>3, DepthAssumption
        DEF Drain, BenchInv, Schedule
      <3>4. CASE ~(k < DEPTH)
        BY <2>1, <2>2, <2>7, <3>1, <3>2, <3>4 DEF Drain, BenchInv, Schedule
      <3> QED BY <3>3, <3>4
    <2>8. CASE RandomReset
      BY <2>1, <2>2, <2>3, <2>8 DEF RandomReset, BenchInv, Schedule
    <2>9. CASE RandomCycle
      <3>1. PICK push \in BOOLEAN, pop \in BOOLEAN, b \in Beat :
              /\ push => s_axis_tready
              /\ pop => m_axis_tvalid
              /\ Cycle(push, b, pop)
              /\ ref' = IF pop THEN Tail(IF push THEN Append(ref, b) ELSE ref)
                               ELSE IF push THEN Append(ref, b) ELSE ref
        BY <2>9 DEF RandomCycle
      <3>2. ref' = Contents'
        BY <2>1, <2>2, <3>1, CycleQueue
      <3> QED BY <2>1, <2>2, <2>9, <3>2 DEF RandomCycle, BenchInv, Schedule
    <2>10. CASE StopRandom
      <3>1. Contents' = Contents
        BY <2>10 DEF StopRandom, vars, Contents, Wrap
      <3> QED BY <2>1, <2>2, <2>10, <3>1 DEF StopRandom, BenchInv, Schedule
    <2>11. CASE ForceDrain
      <3>1. Contents' = IF ref # <<>> THEN Tail(Contents) ELSE Contents
        BY <2>1, <2>2, <2>11, CycleQueue DEF ForceDrain
      <3>2. /\ ref' = Contents' /\ k' = k + 1 /\ k \in Nat
            /\ ref # <<>> => Len(ref') = Len(ref) - 1
            /\ ref = <<>> => ref' = <<>>
        BY <2>2, <2>11, <3>1 DEF ForceDrain, Schedule
      <3>3. k + Len(ref) <= DEPTH
        BY <2>2, <2>11 DEF ForceDrain, Schedule
      <3>4. k' # DrainLimit
        BY <2>2, <3>2, <3>3, DepthAssumption DEF DrainLimit
      <3>5. phase' = IF ref' = <<>> THEN "checked" ELSE "force"
        BY <2>11, <3>4 DEF ForceDrain
      <3>6. Schedule'
        BY <2>2, <3>2, <3>3, <3>5 DEF Schedule
      <3> QED BY <2>1, <3>2, <3>6 DEF BenchInv
    <2> QED
      BY <1>1, <2>4, <2>5, <2>6, <2>7, <2>8, <2>9, <2>10, <2>11 DEF BenchNext
  <1>2. CASE UNCHANGED benchVars
    <2>1. UNCHANGED vars
      BY <1>2 DEF benchVars
    <2>2. IInv'
      BY <2>1, TypeStep, PointersStep, OccupiedStep DEF BenchInv, IInv
    <2>3. Contents' = Contents
      BY <2>1 DEF vars, Contents, Wrap
    <2> QED BY <1>2, <2>2, <2>3 DEF benchVars, BenchInv, Schedule
  <1> QED BY <1>1, <1>2

\* The per-cycle checks of tb_fifo.cpp hold after every clock of any random
\* phase, and the forced drain always gets every beat out within its cycles:
\* for every DEPTH and every set of beats.
THEOREM BenchScoreboard == BenchSpec => []Scoreboard
  <1>1. BenchInit => BenchInv
    <2> SUFFICES ASSUME BenchInit PROVE BenchInv
      OBVIOUS
    <2>1. IInv
      BY InitIInv DEF BenchInit
    <2>2. Contents = <<>>
      BY DEF BenchInit, Init, Contents
    <2> QED BY <2>1, <2>2 DEF BenchInit, BenchInv, Schedule
  <1>2. BenchInv /\ [BenchNext]_benchVars => BenchInv'
    BY BenchInvStep
  <1>3. BenchInv => Scoreboard
    <2> SUFFICES ASSUME BenchInv PROVE Scoreboard
      OBVIOUS
    <2>1. /\ m_axis_tvalid <=> ref # <<>>
          /\ s_axis_tready <=> Len(ref) < DEPTH
          /\ ref # <<>> => dout_q = Head(ref)
      BY WiresFollowQueue
    <2>2. m_axis_tvalid = (ref # <<>>) /\ s_axis_tready = (Len(ref) < DEPTH)
      BY <2>1 DEF m_axis_tvalid, s_axis_tready
    <2> QED BY <2>1, <2>2 DEF BenchInv, Scoreboard, Schedule
  <1> QED BY <1>1, <1>2, <1>3, PTL DEF BenchSpec
=============================================================================
