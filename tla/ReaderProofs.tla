---------------------------- MODULE ReaderProofs ----------------------------
(***************************************************************************)
(* Proofs about the column reader for every table size, address width,     *)
(* FIFO depth and set of rows.                                             *)
(*                                                                         *)
(* The inductive invariant adds Window to the invariants of ReaderSystem:  *)
(* the FIFO holds the beats of consecutive rows, ending with the row       *)
(* before the one being fetched.                                           *)
(***************************************************************************)
EXTENDS ReaderBench, TLAPS, SequenceTheorems

Window ==
  /\ Len(fifo) <= Pushed
  /\ \A i \in 1 .. Len(fifo) :
       fifo[i] = Scan!RowBeat(Pushed - Len(fifo) + i - 1)

IInv == TypeOK /\ FreshWhenOffered /\ StaysInBound /\ Window

\* The last row of a scan is a row of the table.
LEMMA LastRowRange ==
  ASSUME NEW b \in Nat
  PROVE  last_row(b) \in Rows
  BY ReaderAssumption DEF last_row, Rows, LADDR

\* last_row is the last row of the abstract scan.
LEMMA LastRowIsScanLength ==
  ASSUME scan_bound \in Nat
  PROVE  Scan!ScanLength = last_row(scan_bound) + 1
  BY ReaderAssumption DEF last_row, LADDR, Scan!ScanLength

\* What the reader offers is a beat of the stream.
LEMMA BeatTypes ==
  ASSUME TypeOK
  PROVE  ReaderBeat(scan_bound) \in RowStream
  BY DEF TypeOK, ReaderBeat, RowStream

\* The contents of a queue after a beat was appended, or the oldest removed,
\* or both.
LEMMA AppendTail ==
  ASSUME NEW S, NEW s \in Seq(S), NEW b \in S
  PROVE  /\ Append(s, b) \in Seq(S)
         /\ Len(Append(s, b)) = Len(s) + 1
         /\ \A i \in 1 .. Len(s) : Append(s, b)[i] = s[i]
         /\ Append(s, b)[Len(s) + 1] = b
         /\ Tail(Append(s, b)) \in Seq(S)
         /\ Len(Tail(Append(s, b))) = Len(s)
         /\ \A i \in 1 .. Len(s) : Tail(Append(s, b))[i] = Append(s, b)[i + 1]
         /\ Head(Append(s, b)) = Append(s, b)[1]
  <1> DEFINE t == Append(s, b)
  <1>1. /\ t \in Seq(S) /\ Len(t) = Len(s) + 1 /\ t # <<>> /\ Len(s) \in Nat
        /\ \A i \in 1 .. Len(s) : t[i] = s[i]
        /\ t[Len(s) + 1] = b
    BY AppendProperties
  <1> HIDE DEF t
  <1>2. /\ Tail(t) \in Seq(S) /\ Len(Tail(t)) = Len(t) - 1 /\ Head(t) = t[1]
        /\ \A i \in 1 .. Len(t) - 1 : Tail(t)[i] = t[i + 1]
    BY <1>1, HeadTailProperties
  <1> QED BY <1>1, <1>2 DEF t

-----------------------------------------------------------------------------
(* What a clock edge does to the queue and the counters, by handshake. *)

\* push and pop of the current cycle
push == fifo_tvalid /\ fifo_s_ready
pop(ready) == m_axis_tvalid /\ ready

\* A tick hands one row more to the FIFO exactly when it pushes.
LEMMA TickPushed ==
  ASSUME IInv, NEW ready \in BOOLEAN, Tick(ready)
  PROVE  /\ push => Pushed' = Pushed + 1 /\ busy_q
         /\ ~push => Pushed' = Pushed /\ busy_q' = busy_q
         /\ mem' = mem /\ scan_bound' = scan_bound
  <1> USE DEF IInv, TypeOK
  <1>1. FsmEdge(FALSE, scan_bound)
    BY DEF Tick, ReaderEdge
  <1>2. last_row(scan_bound) \in Rows /\ scan_bound' = scan_bound
    BY LastRowRange DEF Tick, Bounds
  <1>3. mem' = mem
    BY DEF Tick, ReaderEdge, BankEdge, NoLoad
  <1>4. ASSUME push PROVE Pushed' = Pushed + 1 /\ busy_q
    <2>1. busy_q /\ pending_q /\ fifo_s_ready /\ ret_row_q = raddr_q
      BY <1>4 DEF push, fifo_tvalid, FreshWhenOffered
    <2>2. CASE ret_row_q = last_row(scan_bound)
      BY <1>1, <1>2, <2>1, <2>2 DEF FsmEdge, Finish, Pushed, Rows
    <2>3. CASE ret_row_q # last_row(scan_bound)
      <3>1. raddr_q < last_row(scan_bound)
        BY <1>2, <2>1, <2>3 DEF StaysInBound, Rows
      <3>2. raddr_q' = raddr_q + 1 /\ busy_q' = busy_q
        BY <1>1, <1>2, <2>1, <2>3, <3>1, ReaderAssumption
        DEF FsmEdge, FetchNext, AddrSucc, Rows
      <3> QED BY <2>1, <3>2 DEF Pushed
    <2> QED BY <2>2, <2>3
  <1>5. ASSUME ~push PROVE Pushed' = Pushed /\ busy_q' = busy_q
    <2>1. CASE busy_q
      <3>1. AwaitFresh
        BY <1>1, <1>5, <2>1 DEF FsmEdge, push, fifo_tvalid
      <3> QED BY <2>1, <3>1 DEF AwaitFresh, Pushed
    <2>2. CASE ~busy_q
      <3>1. UNCHANGED fsmVars
        BY <1>1, <2>2 DEF FsmEdge
      <3> QED BY <1>2, <2>2, <3>1 DEF fsmVars, Pushed
    <2> QED BY <2>1, <2>2
  <1> QED BY <1>2, <1>3, <1>4, <1>5

\* The beat pushed now is the next row of the table.
LEMMA PushedBeat ==
  ASSUME IInv, push
  PROVE  ReaderBeat(scan_bound) = Scan!RowBeat(Pushed)
  <1>1. busy_q /\ ret_row_q = raddr_q /\ bank_rdata = mem[raddr_q]
    BY DEF IInv, FreshWhenOffered, push, fifo_tvalid
  <1>2. Pushed = raddr_q /\ raddr_q \in Nat /\ scan_bound \in Nat
        /\ last_row(scan_bound) \in Nat
    BY <1>1, LastRowRange DEF Pushed, IInv, TypeOK, Rows, Bounds
  <1>3. (ret_row_q = last_row(scan_bound)) = (Pushed + 1 = Scan!ScanLength)
    BY <1>1, <1>2, LastRowIsScanLength
  <1> QED BY <1>1, <1>2, <1>3 DEF ReaderBeat, Scan!RowBeat

\* What the FIFO holds after a tick, for each combination of push and pop.
LEMMA TickFifo ==
  ASSUME IInv, NEW ready \in BOOLEAN, Tick(ready)
  PROVE  /\ fifo' \in Seq(RowStream)
         /\ Len(fifo') = Len(fifo) + (IF push THEN 1 ELSE 0)
                                   - (IF pop(ready) THEN 1 ELSE 0)
         /\ Len(fifo') <= FIFO_DEPTH
         /\ pop(ready) => Len(fifo) > 0 /\ delivered' = fifo[1]
         /\ ~pop(ready) => delivered' = delivered
         /\ \A i \in 1 .. Len(fifo') :
              LET j == IF pop(ready) THEN i + 1 ELSE i
              IN  IF j <= Len(fifo) THEN fifo'[i] = fifo[j]
                  ELSE push /\ j = Len(fifo) + 1
                       /\ fifo'[i] = ReaderBeat(scan_bound)
  <1> DEFINE beat == ReaderBeat(scan_bound)
  <1>0. /\ fifo \in Seq(RowStream) /\ Len(fifo) \in Nat /\ beat \in RowStream
        /\ Len(fifo) <= FIFO_DEPTH /\ FIFO_DEPTH \in Nat
    BY BeatTypes, ReaderAssumption, LenProperties DEF IInv, TypeOK
  <1>1. FifoEdge(scan_bound, ready)
    BY DEF Tick, ReaderEdge
  <1> HIDE DEF beat
  <1>2. CASE push /\ pop(ready)
    <2>1. /\ fifo' = Tail(Append(fifo, beat))
          /\ delivered' = Head(Append(fifo, beat))
      BY <1>1, <1>2
      DEF FifoEdge, push, pop, beat, Fifo!AcceptAndHandOver
    <2>2. Len(fifo) > 0
      BY <1>0, <1>2, EmptySeq DEF pop, m_axis_tvalid
    <2> QED BY <1>0, <1>2, <2>1, <2>2, AppendTail DEF beat
  <1>3. CASE push /\ ~pop(ready)
    <2>1. fifo' = Append(fifo, beat) /\ delivered' = delivered
      BY <1>1, <1>3 DEF FifoEdge, push, pop, beat, Fifo!Accept
    <2>2. Len(fifo) < FIFO_DEPTH
      BY <1>3 DEF push, fifo_s_ready
    <2> QED BY <1>0, <1>3, <2>1, <2>2, AppendTail DEF beat
  <1>4. CASE ~push /\ pop(ready)
    <2>1. fifo' = Tail(fifo) /\ delivered' = Head(fifo) /\ fifo # <<>>
      BY <1>1, <1>4 DEF FifoEdge, push, pop, Fifo!HandOver
    <2>2. Len(fifo) > 0
      BY <1>0, <2>1, EmptySeq
    <2> QED BY <1>0, <1>4, <2>1, <2>2, HeadTailProperties
  <1>5. CASE ~push /\ ~pop(ready)
    <2>1. fifo' = fifo /\ delivered' = delivered
      BY <1>1, <1>5 DEF FifoEdge, push, pop
    <2> QED BY <1>0, <1>5, <2>1
  <1> QED BY <1>2, <1>3, <1>4, <1>5

\* Between scans an edge leaves the empty FIFO empty.
LEMMA QuietFifo ==
  ASSUME Quiet, NEW start, NEW load, NEW ready,
         ReaderEdge(start, scan_bound, load, ready)
  PROVE  fifo' = <<>> /\ delivered' = delivered
  <1>1. ~push /\ ~pop(ready)
    BY DEF Quiet, push, fifo_tvalid, pop, m_axis_tvalid
  <1> QED BY <1>1
    DEF Quiet, ReaderEdge, FifoEdge, push, pop

-----------------------------------------------------------------------------
(* The invariant *)

\* The reset state satisfies the invariant.
LEMMA InitIInv == Init => IInv
  <1> SUFFICES ASSUME Init PROVE IInv
    OBVIOUS
  <1>1. TypeOK
    <2>1. fifo \in Seq(RowStream) /\ Len(fifo) <= FIFO_DEPTH
      BY ReaderAssumption, EmptySeq DEF Init, ReaderInit
    <2>2. raddr_q \in Rows /\ ret_row_q \in Rows
      BY ReaderAssumption DEF Init, ReaderInit, Rows
    <2> QED BY <2>1, <2>2 DEF Init, ReaderInit, TypeOK
  <1>2. FreshWhenOffered /\ StaysInBound
    BY DEF Init, ReaderInit, FreshWhenOffered, StaysInBound, fifo_tvalid
  <1>3. Len(fifo) = 0 /\ Pushed \in Nat
    BY <1>1, LastRowRange DEF Init, ReaderInit, TypeOK, Pushed, Rows, Bounds
  <1> QED BY <1>1, <1>2, <1>3 DEF IInv, Window

\* A reset, at any time, establishes the invariant.
LEMMA ResetStep == IInv /\ Reset => IInv'
  <1> SUFFICES ASSUME IInv, Reset PROVE IInv'
    OBVIOUS
  <1>1. /\ raddr_q' = 0 /\ ret_row_q' = 0 /\ pending_q' = FALSE
        /\ busy_q' = FALSE /\ done_q' = FALSE /\ fifo' = <<>>
        /\ delivered' = delivered /\ scan_bound' = scan_bound
        /\ mem' = mem /\ bank_rdata' = mem[raddr_q]
    BY DEF Reset, ReaderReset, Fifo!Discard, BankEdge, NoLoad, IInv, TypeOK
  <1>2. TypeOK'
    BY <1>1, ReaderAssumption, EmptySeq DEF IInv, TypeOK, Rows
  <1>3. FreshWhenOffered' /\ StaysInBound'
    BY <1>1 DEF FreshWhenOffered, StaysInBound, fifo_tvalid
  <1>4. Len(fifo') = 0 /\ Pushed' \in Nat
    BY <1>1, <1>2, LastRowRange DEF IInv, TypeOK, Pushed, Rows, Bounds
  <1> QED BY <1>2, <1>3, <1>4 DEF IInv, Window

\* The start of a scan preserves the invariant: row 0 is fresh.
LEMMA StartStep == IInv /\ Start => IInv'
  <1> SUFFICES ASSUME IInv, NEW ready \in BOOLEAN, Quiet,
                      ReaderEdge(TRUE, scan_bound, NoLoad, ready),
                      scan_bound' = scan_bound
               PROVE  IInv'
    BY DEF Start
  <1>1. fifo' = <<>> /\ delivered' = delivered
    BY QuietFifo
  <1>2. /\ raddr_q' = 0 /\ ret_row_q' = 0 /\ pending_q' = TRUE
        /\ busy_q' = TRUE /\ done_q' = FALSE
    BY DEF ReaderEdge, FsmEdge, Begin
  <1>3. mem' = mem /\ bank_rdata' = mem[0]
    BY DEF ReaderEdge, BankEdge, NoLoad, IInv, TypeOK, StaysInBound, Quiet
  <1>4. TypeOK'
    BY <1>1, <1>2, <1>3, ReaderAssumption, EmptySeq DEF IInv, TypeOK, Rows
  <1>5. FreshWhenOffered'
    BY <1>2, <1>3 DEF FreshWhenOffered, fifo_tvalid
  <1>6. StaysInBound'
    <2>1. last_row(scan_bound') \in Rows
      BY <1>4, LastRowRange DEF TypeOK, Bounds
    <2> QED BY <1>2, <2>1 DEF StaysInBound, Rows
  <1>7. Len(fifo') = 0 /\ Pushed' = 0
    BY <1>1, <1>2 DEF Pushed
  <1> QED BY <1>4, <1>5, <1>6, <1>7 DEF IInv, Window

\* A load or a change of the bound between scans.
LEMMA QuietStep == IInv /\ (Load \/ Configure) => IInv'
  <1> SUFFICES ASSUME IInv, Load \/ Configure PROVE IInv'
    OBVIOUS
  <1>1. Quiet /\ fifo' = <<>> /\ delivered' = delivered
    BY QuietFifo DEF Load, Configure
  <1>2. UNCHANGED fsmVars /\ ~busy_q
    BY DEF Load, Configure, ReaderEdge, FsmEdge, Quiet
  <1>3. mem' \in [Rows -> Row] /\ bank_rdata' \in Row
    BY DEF Load, Configure, ReaderEdge, BankEdge, NoLoad, IInv, TypeOK
  <1>4. scan_bound' \in Bounds
    BY DEF Load, Configure, IInv, TypeOK
  <1>5. TypeOK'
    BY <1>1, <1>2, <1>3, <1>4, ReaderAssumption, EmptySeq
    DEF IInv, TypeOK, fsmVars
  <1>6. FreshWhenOffered' /\ StaysInBound'
    BY <1>2 DEF FreshWhenOffered, StaysInBound, fifo_tvalid, fsmVars, IInv
  <1>7. Len(fifo') = 0 /\ Pushed' \in Nat
    <2>1. ~busy_q' /\ last_row(scan_bound') \in Rows
      BY <1>2, <1>4, LastRowRange DEF Bounds, fsmVars
    <2> QED BY <1>1, <2>1 DEF Pushed, Rows
  <1> QED BY <1>5, <1>6, <1>7 DEF IInv, Window

\* A clock edge within or after a scan preserves the invariant.
LEMMA TickStep ==
  ASSUME IInv, NEW ready \in BOOLEAN, Tick(ready)
  PROVE  IInv'
  <1>1. /\ mem' = mem /\ scan_bound' = scan_bound
        /\ bank_rdata' = mem[raddr_q] /\ bank_rdata' \in Row
    BY TickPushed DEF Tick, ReaderEdge, BankEdge, IInv, TypeOK
  <1>2. FsmEdge(FALSE, scan_bound) /\ last_row(scan_bound) \in Rows
    <2>1. scan_bound \in Nat
      BY DEF IInv, TypeOK, Bounds
    <2> QED BY <2>1, LastRowRange DEF Tick, ReaderEdge
  <1>3. /\ raddr_q' \in Rows /\ ret_row_q' \in Rows /\ pending_q' \in BOOLEAN
        /\ busy_q' \in BOOLEAN /\ done_q' \in BOOLEAN
        /\ StaysInBound' /\ FreshWhenOffered'
    <2> USE DEF IInv, TypeOK
    <2>1. CASE busy_q /\ pending_q /\ fifo_s_ready
      <3>1. ret_row_q = raddr_q
        BY <2>1 DEF FreshWhenOffered, fifo_tvalid
      <3>2. CASE ret_row_q = last_row(scan_bound)
        <4>1. Finish
          BY <1>2, <2>1, <3>2 DEF FsmEdge
        <4>2. 0 \in Rows
          BY ReaderAssumption DEF Rows
        <4> QED BY <4>1, <4>2
          DEF Finish, StaysInBound, FreshWhenOffered, fifo_tvalid
      <3>3. CASE ret_row_q # last_row(scan_bound)
        <4>1. FetchNext /\ raddr_q < last_row(scan_bound)
          BY <1>2, <2>1, <3>1, <3>3 DEF FsmEdge, StaysInBound, Rows
        <4>2. AddrSucc(raddr_q) = raddr_q + 1
          BY <1>2, <4>1, ReaderAssumption DEF AddrSucc, Rows
        <4>3. /\ raddr_q' = raddr_q + 1 /\ raddr_q + 1 \in Rows
              /\ raddr_q + 1 <= last_row(scan_bound)
          <5>1. raddr_q' = raddr_q + 1
            BY <4>1, <4>2 DEF FetchNext
          <5>2. raddr_q \in Nat /\ raddr_q < last_row(scan_bound)
            BY <4>1 DEF Rows
          <5> HIDE DEF IInv, TypeOK
          <5> QED BY <1>2, <5>1, <5>2, ReaderAssumption DEF Rows
        <4> QED BY <1>1, <2>1, <4>1, <4>3
          DEF FetchNext, StaysInBound, FreshWhenOffered, fifo_tvalid
      <3> QED BY <3>2, <3>3
    <2>2. CASE busy_q /\ ~(pending_q /\ fifo_s_ready)
      <3>1. AwaitFresh
        BY <1>2, <2>2 DEF FsmEdge
      <3> QED BY <1>1, <2>2, <3>1
        DEF AwaitFresh, StaysInBound, FreshWhenOffered, fifo_tvalid
    <2>3. CASE ~busy_q
      <3>1. UNCHANGED fsmVars
        BY <1>2, <2>3 DEF FsmEdge
      <3> QED BY <2>3, <3>1
        DEF fsmVars, StaysInBound, FreshWhenOffered, fifo_tvalid
    <2> QED BY <2>1, <2>2, <2>3
  <1>4. TypeOK'
    <2>1. delivered' \in RowStream \cup {Blank}
      <3>1. CASE pop(ready)
        BY <3>1, TickFifo, LenProperties DEF IInv, TypeOK
      <3>2. CASE ~pop(ready)
        BY <3>2, TickFifo DEF IInv, TypeOK
      <3> QED BY <3>1, <3>2
    <2> QED BY <1>1, <1>3, <2>1, TickFifo DEF IInv, TypeOK
  <1>5. Window'
    <2>1. /\ Len(fifo) \in Nat /\ Len(fifo') \in Nat /\ Pushed \in Nat
          /\ Len(fifo) <= Pushed
      BY <1>2, <1>4, LenProperties DEF IInv, TypeOK, Window, Pushed, Rows
    <2>2. Pushed' = Pushed + (IF push THEN 1 ELSE 0)
      BY <2>1, TickPushed
    <2>3. ASSUME NEW r PROVE Scan!RowBeat(r)' = Scan!RowBeat(r)
      BY <1>1 DEF Scan!RowBeat, Scan!ScanLength
    <2>4. Len(fifo') <= Pushed'
      BY <2>1, <2>2, TickFifo
    <2>5. ASSUME NEW i \in 1 .. Len(fifo')
          PROVE  fifo'[i] = Scan!RowBeat(Pushed' - Len(fifo') + i - 1)
      <3> DEFINE j == IF pop(ready) THEN i + 1 ELSE i
      <3>1. /\ j \in Nat \ {0}
            /\ Pushed' - Len(fifo') + i - 1 = Pushed - Len(fifo) + j - 1
        <4>1. Len(fifo') = Len(fifo) + (IF push THEN 1 ELSE 0)
                                     - (IF pop(ready) THEN 1 ELSE 0)
          BY TickFifo
        <4> QED BY <2>1, <2>2, <4>1
      <3>2. CASE j <= Len(fifo)
        <4>1. fifo'[i] = fifo[j]
          BY <3>2, TickFifo
        <4>2. fifo[j] = Scan!RowBeat(Pushed - Len(fifo) + j - 1)
          BY <2>1, <3>1, <3>2 DEF IInv, Window
        <4> QED BY <3>1, <4>1, <4>2
      <3>3. CASE ~(j <= Len(fifo))
        <4>1. push /\ j = Len(fifo) + 1 /\ fifo'[i] = ReaderBeat(scan_bound)
          BY <3>3, TickFifo
        <4>2. Pushed' - Len(fifo') + i - 1 = Pushed
          BY <2>1, <3>1, <4>1
        <4> QED BY <4>1, <4>2, PushedBeat
      <3> QED BY <3>2, <3>3
    <2> QED BY <2>3, <2>4, <2>5 DEF Window
  <1> QED BY <1>3, <1>4, <1>5 DEF IInv

\* Every step preserves the invariant.
LEMMA IInvStep == IInv /\ [Next]_vars => IInv'
  <1> SUFFICES ASSUME IInv, [Next]_vars PROVE IInv'
    OBVIOUS
  <1>1. CASE UNCHANGED vars
    BY <1>1 DEF vars, readerVars, fsmVars, IInv, TypeOK, FreshWhenOffered,
      StaysInBound, Window, Pushed, fifo_tvalid, Scan!RowBeat, Scan!ScanLength
  <1> QED BY <1>1, ResetStep, StartStep, QuietStep, TickStep DEF Next

\* For every table size and FIFO depth: registers in range, only fresh rows
\* are offered to the FIFO, and the reader never runs past the bound.
THEOREM ReaderInvariant ==
  Spec => [](TypeOK /\ FreshWhenOffered /\ StaysInBound)
  <1>1. Spec => []IInv
    BY InitIInv, IInvStep, PTL DEF Spec
  <1> QED BY <1>1, PTL DEF IInv

-----------------------------------------------------------------------------
(* The refinement *)

\* Every tick delivers the beat of the cursor's row and advances the cursor,
\* or leaves the abstract scan alone.
LEMMA TickRefines ==
  ASSUME IInv, NEW ready \in BOOLEAN, Tick(ready)
  PROVE  Scan!Deliver \/ UNCHANGED Scan!scanVars
  <1>1. /\ mem' = mem /\ scan_bound' = scan_bound
        /\ Pushed' = Pushed + (IF push THEN 1 ELSE 0)
        /\ push => busy_q
        /\ ~push => busy_q' = busy_q
        /\ Len(fifo) \in Nat /\ Pushed \in Nat /\ Len(fifo) <= Pushed
        /\ busy_q \in BOOLEAN
    <2>1. Len(fifo) \in Nat /\ busy_q \in BOOLEAN /\ Len(fifo) <= Pushed
      BY LenProperties DEF IInv, TypeOK, Window
    <2>2. Pushed \in Nat
      <3>1. scan_bound \in Nat /\ raddr_q \in Nat
        BY DEF IInv, TypeOK, Bounds, Rows
      <3>2. last_row(scan_bound) \in Nat
        BY <3>1, LastRowRange DEF Rows
      <3> QED BY <3>1, <3>2 DEF Pushed
    <2> QED BY <2>1, <2>2, TickPushed
  <1>2. /\ last_row(scan_bound) \in Rows
        /\ Scan!ScanLength = last_row(scan_bound) + 1
        /\ NUM_ROWS \in Nat
    <2>1. scan_bound \in Nat
      BY DEF IInv, TypeOK, Bounds
    <2> QED BY <2>1, LastRowRange, LastRowIsScanLength, ReaderAssumption
  <1>3. /\ fifo \in Seq(RowStream) /\ fifo' \in Seq(RowStream)
        /\ fifo # <<>> <=> Len(fifo) > 0
        /\ fifo' # <<>> <=> Len(fifo') > 0
    BY TickFifo, LenProperties, EmptySeq DEF IInv, TypeOK
  <1>4. Len(fifo') = Len(fifo) + (IF push THEN 1 ELSE 0)
                               - (IF pop(ready) THEN 1 ELSE 0)
    BY TickFifo
  <1>5. push => busy_q' \/ Len(fifo') > 0 \/ pop(ready)
    BY <1>1, <1>4
  <1>6. CASE ~pop(ready)
    <2>1. delivered' = delivered
      BY <1>6, TickFifo
    <2>2. Cursor' = Cursor
      <3>1. CASE push
        BY <1>1, <1>3, <1>4, <1>6, <3>1 DEF Cursor
      <3>2. CASE ~push
        BY <1>1, <1>3, <1>4, <1>6, <3>2 DEF Cursor
      <3> QED BY <3>1, <3>2
    <2> QED BY <1>1, <2>1, <2>2 DEF Scan!scanVars
  <1>7. CASE pop(ready)
    <2>1. Len(fifo) > 0 /\ delivered' = fifo[1]
      BY <1>7, TickFifo
    <2>2. Cursor = Pushed - Len(fifo)
      BY <1>3, <2>1 DEF Cursor
    <2>3. fifo[1] = Scan!RowBeat(Cursor)
      BY <1>1, <2>1, <2>2 DEF IInv, Window
    <2>4. /\ Pushed <= last_row(scan_bound) + 1
          /\ busy_q => Pushed <= last_row(scan_bound)
      BY <1>1, <1>2 DEF IInv, StaysInBound, Pushed, Rows
    <2>5. Cursor # NUM_ROWS
      BY <1>1, <1>2, <2>1, <2>2, <2>4 DEF Rows
    <2>6. Cursor' = IF Cursor + 1 = Scan!ScanLength THEN NUM_ROWS ELSE Cursor + 1
      <3>1. CASE push
        <4>1. Len(fifo') = Len(fifo) /\ Len(fifo') > 0 /\ Pushed' = Pushed + 1
          BY <1>1, <1>4, <1>7, <2>1, <3>1
        <4>2. Cursor' = Cursor + 1
          BY <1>1, <1>3, <2>2, <4>1 DEF Cursor
        <4>3. Cursor + 1 # Scan!ScanLength
          BY <1>1, <1>2, <2>1, <2>2, <2>4, <3>1 DEF Rows
        <4> QED BY <4>2, <4>3
      <3>2. CASE ~push /\ busy_q
        <4>1. Cursor' = Cursor + 1
          BY <1>1, <1>4, <1>7, <2>2, <3>2 DEF Cursor
        <4>2. Cursor + 1 # Scan!ScanLength
          BY <1>1, <1>2, <2>1, <2>2, <2>4, <3>2 DEF Rows
        <4> QED BY <4>1, <4>2
      <3>3. CASE ~push /\ ~busy_q
        <4>1. Len(fifo') = Len(fifo) - 1 /\ ~busy_q' /\ Pushed' = Pushed
          BY <1>1, <1>4, <1>7, <3>3
        <4>2. Pushed = last_row(scan_bound) + 1
          BY <3>3 DEF Pushed
        <4>3. CASE Len(fifo) = 1
          BY <1>2, <1>3, <2>2, <4>1, <4>2, <4>3 DEF Cursor, Rows
        <4>4. CASE Len(fifo) # 1
          BY <1>1, <1>2, <1>3, <2>1, <2>2, <4>1, <4>2, <4>4 DEF Cursor, Rows
        <4> QED BY <4>3, <4>4
      <3> QED BY <1>1, <3>1, <3>2, <3>3
    <2> QED BY <1>1, <2>1, <2>3, <2>5, <2>6 DEF Scan!Deliver, Scan!Idle
  <1> QED BY <1>6, <1>7

\* Every step of the reader is a step of the abstract scan or leaves it alone.
LEMMA StepRefines ==
  ASSUME IInv, [Next]_vars
  PROVE  [Scan!Next]_(Scan!scanVars)
  <1>1. CASE Reset
    <2>1. /\ ~busy_q' /\ fifo' = <<>> /\ delivered' = delivered
          /\ mem' = mem /\ scan_bound' = scan_bound
      BY <1>1
      DEF Reset, ReaderReset, Fifo!Discard, BankEdge, NoLoad, IInv, TypeOK
    <2> QED BY <2>1 DEF Cursor, Scan!Next, Scan!Abort, Scan!Idle
  <1>2. CASE Start
    <2>1. PICK ready \in BOOLEAN :
            ReaderEdge(TRUE, scan_bound, NoLoad, ready)
      BY <1>2 DEF Start
    <2>2. Quiet /\ fifo' = <<>> /\ delivered' = delivered
      BY <1>2, <2>1, QuietFifo DEF Start
    <2>3. /\ busy_q' /\ raddr_q' = 0 /\ scan_bound' = scan_bound /\ mem' = mem
      BY <1>2, <2>1
      DEF Start, ReaderEdge, FsmEdge, Begin, BankEdge, NoLoad, IInv, TypeOK
    <2>4. Cursor = NUM_ROWS /\ Cursor' = 0
      BY <2>2, <2>3 DEF Quiet, Cursor, Pushed
    <2> QED BY <2>2, <2>3, <2>4 DEF Scan!Next, Scan!Begin, Scan!Idle
  <1>3. CASE Load \/ Configure
    <2>1. Quiet /\ fifo' = <<>> /\ delivered' = delivered
      BY <1>3, QuietFifo DEF Load, Configure
    <2>2. ~busy_q'
      BY <1>3 DEF Load, Configure, ReaderEdge, FsmEdge, Quiet, fsmVars
    <2>3. Cursor = NUM_ROWS /\ Cursor' = NUM_ROWS
      BY <2>1, <2>2 DEF Quiet, Cursor
    <2>4. CASE Load
      <3>1. PICK a \in Rows, r \in Row :
              ReaderEdge(FALSE, scan_bound, [x \in {a} |-> r], FALSE)
        BY <2>4 DEF Load
      <3>2. mem' = [mem EXCEPT ![a] = r] /\ scan_bound' = scan_bound
        BY <2>4, <3>1 DEF Load, ReaderEdge, BankEdge, IInv, TypeOK
      <3> QED BY <2>1, <2>3, <3>2 DEF Scan!Next, Scan!Load, Scan!Idle, Rows
    <2>5. CASE Configure
      <3>1. mem' = mem /\ scan_bound' \in Nat
        BY <2>5
        DEF Configure, ReaderEdge, BankEdge, NoLoad, IInv, TypeOK, Bounds
      <3> QED BY <2>1, <2>3, <3>1 DEF Scan!Next, Scan!Configure, Scan!Idle
    <2> QED BY <1>3, <2>4, <2>5
  <1>4. ASSUME NEW ready \in BOOLEAN, Tick(ready)
        PROVE  [Scan!Next]_(Scan!scanVars)
    BY <1>4, TickRefines DEF Scan!Next
  <1>5. CASE UNCHANGED vars
    BY <1>5
    DEF vars, readerVars, fsmVars, Scan!scanVars, Cursor, Pushed
  <1> QED BY <1>1, <1>2, <1>3, <1>4, <1>5 DEF Next

\* For every table size, bound and FIFO depth, and whatever the downstream
\* does, the reader delivers exactly rows 0 .. last_row, in order, once each,
\* with tlast on the last one only.
THEOREM ReaderRefinesScan == Spec => ImplementsScan
  <1>1. Init => Scan!Init
    BY DEF Init, ReaderInit, Scan!Init, Scan!Idle, Cursor, Rows, Bounds
  <1>2. IInv /\ [Next]_vars => [Scan!Next]_(Scan!scanVars)
    BY StepRefines
  <1> QED
    BY InitIInv, IInvStep, <1>1, <1>2, PTL DEF Spec, ImplementsScan, Scan!Spec

-----------------------------------------------------------------------------
(* The bench.  Every row costs the receiving loop at most two cycles in     *)
(* which the FIFO is empty (Spent), the one in which it leaves, and the     *)
(* stalls the run still has (Remaining); the cycles of the loop are enough  *)
(* for all of them.                                                         *)

RunWord ==
  [kind : {"query", "stall", "bounded", "stress"}, head : Nat, mid : Nat,
   stall_mid : Nat, midded : BOOLEAN, tails : 0 .. MaxStalls]

Remaining ==
  IF run.kind = "stress"
  THEN (MaxStalls - run.tails) + run.head + run.mid
         + (IF run.midded THEN 0 ELSE run.stall_mid + 1)
  ELSE IF run.kind = "stall" THEN MaxStalls - run.tails ELSE 0

Budget == IF run.kind = "stress" THEN 13 * NUM_ROWS + 512 ELSE 5 * NUM_ROWS + 64

Spent == IF fifo # <<>> THEN 2 ELSE IF pending_q THEN 1 ELSE 0

Streaming ==
  /\ table = mem
  /\ Pushed = expected + Len(fifo)
  /\ busy_q \/ done_q
  /\ cyc <= LoopLimit
  /\ cyc + Remaining <= 3 * expected + Spent + Budget

\* Where the bench stands.
RunInv ==
  /\ pc \in {"checked", "load", "start", "stream", "received"}
  /\ run \in RunWord
  /\ table \in [Rows -> Row \cup {Blank}]
  /\ expected \in Nat /\ cyc \in Nat
  /\ pc # "stream" => Quiet
  /\ pc \in {"load", "start"} => expected = 0 /\ Remaining <= Budget
  /\ pc = "load" => cyc <= NUM_ROWS /\ \A a \in Rows : a < cyc => table[a] = mem[a]
  /\ pc = "start" => table = mem
  /\ pc = "stream" => Streaming
  /\ pc = "received" => expected = Expect /\ done_q

BenchInv == IInv /\ (pc = "free" \/ RunInv)

\* The bench starts with no scan under way.
LEMMA BenchInitInv == BenchInit => BenchInv
  <1> SUFFICES ASSUME BenchInit PROVE BenchInv
    OBVIOUS
  <1>1. IInv
    BY InitIInv DEF BenchInit
  <1>2. Quiet
    BY DEF BenchInit, Init, ReaderInit, Quiet
  <1>3. run \in RunWord
    BY ReaderBenchAssumption, ReaderAssumption DEF BenchInit, RunWord, NewRun
  <1>4. table \in [Rows -> Row \cup {Blank}] /\ expected \in Nat /\ cyc \in Nat
    BY DEF BenchInit
  <1>5. pc \in {"checked", "free"}
    BY DEF BenchInit
  <1> QED BY <1>1, <1>2, <1>3, <1>4, <1>5 DEF BenchInv, RunInv

\* A call begins a run within its budget of stalls.
LEMMA CallStep ==
  ASSUME BenchInv,
         \/ \E allow_stall \in BOOLEAN : RunQuery(allow_stall)
         \/ \E bound \in Bounds : RunBoundedQuery(bound)
         \/ \E profile \in StallProfiles : RunStress(profile)
  PROVE  BenchInv'
  <1>1. PICK kind \in {"query", "stall", "bounded", "stress"},
             profile \in Nat \X Nat, bound \in Bounds :
          /\ Call(NewRun(kind, profile), bound)
          /\ kind = "stress" => profile[1] + profile[2] + MaxStalls < 13 * NUM_ROWS + 512
    <2>1. 0 \in Bounds /\ <<0, 0>> \in Nat \X Nat
      BY ReaderAssumption DEF Bounds
    <2>2. CASE \E allow_stall \in BOOLEAN : RunQuery(allow_stall)
      BY <2>1, <2>2 DEF RunQuery
    <2>3. CASE \E bound \in Bounds : RunBoundedQuery(bound)
      BY <2>1, <2>3 DEF RunBoundedQuery
    <2>4. CASE \E profile \in StallProfiles : RunStress(profile)
      BY <2>1, <2>4, ReaderBenchAssumption DEF RunStress
    <2> QED BY <2>2, <2>3, <2>4
  <1>2. /\ pc = "checked" /\ scan_bound' = bound /\ pc' = "load"
        /\ run' = NewRun(kind, profile) /\ cyc' = 0 /\ expected' = 0
        /\ UNCHANGED <<readerVars, table>>
    BY <1>1 DEF Call
  <1>3. Quiet /\ table \in [Rows -> Row \cup {Blank}]
    BY <1>2 DEF BenchInv, RunInv
  <1>4. IInv'
    <2>1. TypeOK'
      BY <1>2 DEF BenchInv, IInv, TypeOK, readerVars, fsmVars
    <2>2. FreshWhenOffered' /\ StaysInBound'
      BY <1>2, <1>3
      DEF BenchInv, IInv, FreshWhenOffered, StaysInBound, fifo_tvalid, readerVars,
          fsmVars, Quiet
    <2>3. Len(fifo') = 0 /\ Pushed' \in Nat
      <3>1. ~busy_q' /\ last_row(scan_bound') \in Rows /\ fifo' = <<>>
        BY <1>2, <1>3, LastRowRange DEF Bounds, readerVars, fsmVars, Quiet
      <3> QED BY <3>1 DEF Pushed, Rows
    <2> QED BY <2>1, <2>2, <2>3 DEF IInv, Window
  <1>5. run' \in RunWord
    BY <1>2, ReaderBenchAssumption, ReaderAssumption DEF RunWord, NewRun
  <1>6. Remaining' <= Budget'
    BY <1>1, <1>2, ReaderBenchAssumption, ReaderAssumption
    DEF Remaining, Budget, NewRun
  <1>7. Quiet'
    BY <1>2, <1>3 DEF Quiet, readerVars, fsmVars
  <1>8. /\ table' \in [Rows -> Row \cup {Blank}]
        /\ \A a \in Rows : a < cyc' => table'[a] = mem'[a]
        /\ cyc' <= NUM_ROWS
    BY <1>2, <1>3, ReaderAssumption DEF Rows
  <1>9. pc' = "load" /\ expected' = 0 /\ cyc' = 0
    BY <1>2
  <1> QED BY <1>4, <1>5, <1>6, <1>7, <1>8, <1>9 DEF BenchInv, RunInv

\* The table of the run is the one in the banks when the scan starts.
LEMMA LoadRowStep == BenchInv /\ LoadRow => BenchInv'
  <1> SUFFICES ASSUME BenchInv, LoadRow PROVE BenchInv'
    OBVIOUS
  <1>1. PICK r \in Row :
          /\ Clock(FALSE, [a \in {cyc} |-> r], FALSE)
          /\ table' = [table EXCEPT ![cyc] = r]
    BY DEF LoadRow
  <1>2. /\ pc = "load" /\ cyc \in Rows /\ cyc' = cyc + 1 /\ cyc + 1 <= NUM_ROWS
        /\ UNCHANGED <<pc, run, expected>>
        /\ RunInv /\ Quiet
    BY ReaderAssumption DEF LoadRow, BenchInv, RunInv, Rows
  <1>3. Load
    BY <1>1, <1>2 DEF Load, Clock
  <1>4. IInv'
    BY <1>3, QuietStep DEF BenchInv
  <1>5. Quiet'
    <2>1. Quiet /\ \E load, ready : ReaderEdge(FALSE, scan_bound, load, ready)
      BY <1>1, <1>2 DEF Clock
    <2>2. fifo' = <<>>
      BY <2>1, QuietFifo
    <2>3. ~busy_q'
      BY <2>1 DEF ReaderEdge, FsmEdge, Quiet, fsmVars
    <2> QED BY <2>2, <2>3 DEF Quiet
  <1>6. mem' = [mem EXCEPT ![cyc] = r] /\ mem \in [Rows -> Row]
    BY <1>1, <1>2 DEF Clock, ReaderEdge, BankEdge, BenchInv, IInv, TypeOK
  <1>7. /\ table' \in [Rows -> Row \cup {Blank}]
        /\ \A a \in Rows : a < cyc' => table'[a] = mem'[a]
    BY <1>1, <1>2, <1>6 DEF RunInv, Rows
  <1>8. Remaining' <= Budget' /\ run' \in RunWord /\ expected' = 0
    BY <1>2 DEF RunInv, Remaining, Budget
  <1>9. pc' = "load" /\ cyc' \in Nat /\ cyc' <= NUM_ROWS
    BY <1>2 DEF RunInv
  <1> QED BY <1>4, <1>5, <1>7, <1>8, <1>9 DEF BenchInv, RunInv

LEMMA LoadDoneStep == BenchInv /\ LoadDone => BenchInv'
  <1> SUFFICES ASSUME BenchInv, LoadDone PROVE BenchInv'
    OBVIOUS
  <1>1. /\ pc = "load" /\ cyc = NUM_ROWS /\ pc' = "start"
        /\ Clock(FALSE, NoLoad, FALSE)
        /\ UNCHANGED <<table, run, cyc, expected>>
        /\ RunInv /\ Quiet
    BY DEF LoadDone, BenchInv, RunInv
  <1>2. Tick(FALSE)
    BY <1>1 DEF Tick, Clock
  <1>3. IInv'
    BY <1>2, TickStep DEF BenchInv
  <1>4. Quiet'
    <2>1. Quiet /\ \E load, ready : ReaderEdge(FALSE, scan_bound, load, ready)
      BY <1>1 DEF Clock
    <2>2. fifo' = <<>>
      BY <2>1, QuietFifo
    <2>3. ~busy_q'
      BY <2>1 DEF ReaderEdge, FsmEdge, Quiet, fsmVars
    <2> QED BY <2>2, <2>3 DEF Quiet
  <1>5. mem' = mem
    BY <1>2, TickPushed DEF BenchInv
  <1>6. table = mem
    <2>1. table \in [Rows -> Row \cup {Blank}] /\ mem \in [Rows -> Row]
          /\ \A a \in Rows : table[a] = mem[a]
      BY <1>1, ReaderAssumption DEF RunInv, BenchInv, IInv, TypeOK, Rows
    <2> QED BY <2>1
  <1>7. Remaining' <= Budget' /\ run' \in RunWord /\ expected' = 0
    BY <1>1 DEF RunInv, Remaining, Budget
  <1>8. table' = mem' /\ table' \in [Rows -> Row \cup {Blank}] /\ cyc' \in Nat
    BY <1>1, <1>5, <1>6 DEF RunInv
  <1> QED BY <1>1, <1>3, <1>4, <1>7, <1>8 DEF BenchInv, RunInv

\* The start pulse.
LEMMA PulseStep == BenchInv /\ Pulse => BenchInv'
  <1> SUFFICES ASSUME BenchInv, Pulse PROVE BenchInv'
    OBVIOUS
  <1>1. /\ pc = "start" /\ pc' = "stream" /\ cyc' = 0
        /\ Clock(TRUE, NoLoad, FALSE)
        /\ UNCHANGED <<table, run, expected>>
        /\ RunInv /\ Quiet
    BY DEF Pulse, BenchInv, RunInv
  <1>2. Start
    BY <1>1 DEF Start, Clock
  <1>3. IInv'
    BY <1>2, StartStep DEF BenchInv
  <1>4. fifo' = <<>> /\ busy_q' = TRUE /\ raddr_q' = 0 /\ pending_q' = TRUE
    BY <1>1, QuietFifo DEF Clock, ReaderEdge, FsmEdge, Begin
  <1>5. mem' = mem
    BY <1>1 DEF Clock, ReaderEdge, BankEdge, NoLoad, BenchInv, IInv, TypeOK
  <1>6. Remaining' <= Budget' /\ run' \in RunWord /\ expected' = 0
    BY <1>1 DEF RunInv, Remaining, Budget
  <1>7. Remaining' \in Nat /\ Budget' \in Nat
    BY <1>6, ReaderAssumption, ReaderBenchAssumption DEF Remaining, Budget, RunWord
  <1>8. Pushed' = 0 /\ Len(fifo') = 0 /\ Spent' = 1
    BY <1>4 DEF Pushed, Spent
  <1>9. LoopLimit' \in Nat
    BY <1>6, ReaderAssumption DEF LoopLimit
  <1>10. Streaming'
    <2>1. table' = mem' /\ cyc' = 0
      BY <1>1, <1>5 DEF RunInv
    <2>2. cyc' + Remaining' <= 3 * expected' + Spent' + Budget'
      <3> DEFINE r == Remaining'
                 b == Budget'
      <3> HIDE DEF r, b
      <3>1. r \in Nat /\ b \in Nat /\ r <= b
        BY <1>6, <1>7 DEF r, b
      <3>2. 0 + r <= 3 * 0 + 1 + b
        BY <3>1
      <3> QED BY <1>6, <1>8, <2>1, <3>2, Zenon DEF r, b
    <2> QED BY <1>4, <1>6, <1>8, <1>9, <2>1, <2>2 DEF Streaming
  <1>11. table' \in [Rows -> Row \cup {Blank}] /\ cyc' \in Nat
    BY <1>1 DEF RunInv
  <1> QED BY <1>1, <1>3, <1>6, <1>10, <1>11 DEF BenchInv, RunInv

\* A stall of a valid beat is paid for.
LEMMA ReadySpends ==
  ASSUME run \in RunWord, NEW ready \in BOOLEAN, Ready(ready)
  PROVE  /\ run' \in RunWord /\ run'.kind = run.kind
         /\ Remaining \in Nat /\ Remaining' \in Nat /\ Remaining' <= Remaining
         /\ ~ready /\ m_axis_tvalid => Remaining' + 1 <= Remaining
  <1> USE ReaderBenchAssumption, ReaderAssumption
  <1>1. MaxStalls \in Nat
    OBVIOUS
  <1>2. Remaining \in Nat
    BY <1>1 DEF Remaining, RunWord
  <1>3. ASSUME Coin(ready), run.kind \in {"stress", "stall"}
        PROVE  /\ run' \in RunWord /\ run'.kind = run.kind
               /\ Remaining' \in Nat /\ Remaining' <= Remaining
               /\ ~ready => Remaining' + 1 <= Remaining
    <2>1. CASE ready
      BY <1>2, <1>3, <2>1 DEF Coin, Remaining
    <2>2. CASE ~ready
      <3>1. run' = [run EXCEPT !.tails = @ + 1] /\ run.tails < MaxStalls
        BY <1>3, <2>2 DEF Coin
      <3> QED BY <1>1, <1>3, <3>1 DEF Remaining, RunWord
    <2> QED BY <2>1, <2>2
  <1>4. CASE run.kind = "stress"
    <2>1. StressReady(ready)
      BY <1>4 DEF Ready
    <2>2. CASE m_axis_tvalid /\ run.head > 0
      <3>1. ~ready /\ run' = [run EXCEPT !.head = @ - 1]
        BY <2>1, <2>2 DEF StressReady
      <3> QED BY <1>1, <1>4, <2>2, <3>1 DEF Remaining, RunWord
    <2>3. CASE m_axis_tvalid /\ run.head = 0 /\ ~run.midded
               /\ expected >= NUM_ROWS \div 2
      <3>1. ~ready /\ run' = [run EXCEPT !.midded = TRUE, !.mid = run.stall_mid]
        BY <2>1, <2>3 DEF StressReady
      <3>2. run' \in RunWord /\ run'.kind = run.kind
        BY <3>1 DEF RunWord
      <3>3. /\ run.tails \in 0 .. MaxStalls /\ run.head \in Nat /\ run.mid \in Nat
            /\ run.stall_mid \in Nat
            /\ run'.tails = run.tails /\ run'.head = run.head
            /\ run'.mid = run.stall_mid /\ run'.midded = TRUE
        BY <3>1 DEF RunWord
      <3>4. Remaining' = (MaxStalls - run.tails) + run.head + run.stall_mid
        BY <1>1, <1>4, <3>2, <3>3 DEF Remaining
      <3>5. Remaining = (MaxStalls - run.tails) + run.head + run.mid + (run.stall_mid + 1)
        BY <1>4, <2>3 DEF Remaining
      <3> HIDE DEF Remaining
      <3> QED BY <1>1, <3>2, <3>3, <3>4, <3>5
    <2>4. CASE m_axis_tvalid /\ run.head = 0 /\ run.midded /\ run.mid > 0
      <3>1. ~ready /\ run' = [run EXCEPT !.mid = @ - 1]
        BY <2>1, <2>4 DEF StressReady
      <3> QED BY <1>1, <1>4, <2>4, <3>1 DEF Remaining, RunWord
    <2>5. CASE /\ ~(m_axis_tvalid /\ run.head > 0)
               /\ ~(m_axis_tvalid /\ run.head = 0 /\ ~run.midded
                    /\ expected >= NUM_ROWS \div 2)
               /\ ~(m_axis_tvalid /\ run.head = 0 /\ run.midded /\ run.mid > 0)
      <3>1. Coin(ready)
        BY <2>1, <2>5 DEF StressReady
      <3> QED BY <1>2, <1>3, <1>4, <3>1
    <2> QED BY <1>2, <2>2, <2>3, <2>4, <2>5
  <1>5. CASE run.kind = "stall"
    BY <1>2, <1>3, <1>5 DEF Ready
  <1>6. CASE run.kind \notin {"stress", "stall"}
    BY <1>2, <1>6 DEF Ready, Remaining
  <1> QED BY <1>4, <1>5, <1>6

\* What the bench has received and what the FIFO still holds is what was
\* pushed, and never more than the bound.
LEMMA StreamCounts ==
  ASSUME IInv, pc = "stream", Streaming, expected \in Nat
  PROVE  /\ Expect \in 1 .. NUM_ROWS /\ Expect = last_row(scan_bound) + 1
         /\ Len(fifo) \in Nat /\ (fifo = <<>> <=> Len(fifo) = 0)
         /\ expected + Len(fifo) <= Expect
         /\ busy_q => expected + Len(fifo) < Expect
         /\ ~busy_q => expected + Len(fifo) = Expect
  <1>1. scan_bound \in Nat /\ raddr_q \in Nat /\ Len(fifo) \in Nat
        /\ (fifo = <<>> <=> Len(fifo) = 0)
    BY LenProperties, EmptySeq DEF IInv, TypeOK, Bounds, Rows
  <1>2. last_row(scan_bound) \in Rows
    BY <1>1, LastRowRange
  <1>3. Expect = last_row(scan_bound) + 1
    BY <1>1, ReaderAssumption DEF Expect, last_row, LADDR
  <1>4. Pushed = expected + Len(fifo)
    BY DEF Streaming
  <1>5. busy_q => Pushed = raddr_q /\ raddr_q <= last_row(scan_bound)
    BY DEF Pushed, IInv, StaysInBound
  <1>6. ~busy_q => Pushed = last_row(scan_bound) + 1
    BY DEF Pushed
  <1>7. busy_q => expected + Len(fifo) < Expect
    BY <1>1, <1>2, <1>3, <1>4, <1>5 DEF Rows
  <1>8. ~busy_q => expected + Len(fifo) = Expect
    BY <1>3, <1>4, <1>6
  <1>9. Expect \in 1 .. NUM_ROWS
    BY <1>2, <1>3, ReaderAssumption DEF Rows
  <1> QED BY <1>1, <1>3, <1>7, <1>8, <1>9

\* What a cycle is paid from: the wait for a row, the row, or a stall.
LEMMA Paid ==
  ASSUME NEW c \in Nat, NEW r \in Nat, NEW r2 \in Nat, r2 <= r, NEW e \in Nat,
         NEW s \in 0 .. 2, NEW b \in Nat, c + r <= 3 * e + s + b
  PROVE  /\ \A s2 \in 0 .. 2 : s < s2 => (c + 1) + r2 <= 3 * e + s2 + b
         /\ \A s2 \in 0 .. 2 : (c + 1) + r2 <= 3 * (e + 1) + s2 + b
         /\ r2 + 1 <= r => (c + 1) + r2 <= 3 * e + s + b
  OBVIOUS

\* A cycle of the receiving loop delivers a row, or is one of the two a row
\* may wait for the banks, or is a stall.
LEMMA ReceiveStep == BenchInv /\ Receive => BenchInv'
  <1> SUFFICES ASSUME BenchInv, Receive PROVE BenchInv'
    OBVIOUS
  <1>1. PICK ready \in BOOLEAN :
          /\ Ready(ready)
          /\ Clock(FALSE, NoLoad, ready)
          /\ expected' = IF m_axis_tvalid /\ ready THEN expected + 1 ELSE expected
    BY DEF Receive
  <1>2. /\ pc = "stream" /\ pc' = pc /\ table' = table /\ cyc' = cyc + 1
        /\ expected < Expect /\ cyc < LoopLimit
        /\ IInv /\ RunInv /\ Streaming /\ expected \in Nat /\ cyc \in Nat
    BY DEF Receive, BenchInv, RunInv
  <1>3. Tick(ready)
    BY <1>1 DEF Tick, Clock
  <1>4. IInv'
    BY <1>2, <1>3, TickStep
  <1>5. /\ push => Pushed' = Pushed + 1 /\ busy_q
        /\ ~push => Pushed' = Pushed /\ busy_q' = busy_q
        /\ mem' = mem /\ scan_bound' = scan_bound
    BY <1>2, <1>3, TickPushed
  <1>6. Len(fifo') = Len(fifo) + (IF push THEN 1 ELSE 0) - (IF pop(ready) THEN 1 ELSE 0)
    BY <1>2, <1>3, TickFifo
  <1>7. /\ Len(fifo) \in Nat /\ (fifo = <<>> <=> Len(fifo) = 0)
        /\ busy_q => expected + Len(fifo) < Expect
        /\ ~busy_q => expected + Len(fifo) = Expect
    BY <1>2, StreamCounts
  <1>8. /\ Len(fifo') \in Nat /\ (fifo' = <<>> <=> Len(fifo') = 0)
    BY <1>4, LenProperties, EmptySeq DEF IInv, TypeOK
  <1>9. expected' = IF pop(ready) THEN expected + 1 ELSE expected
    BY <1>1 DEF pop
  <1>10. /\ run' \in RunWord /\ run'.kind = run.kind
         /\ Remaining \in Nat /\ Remaining' \in Nat /\ Remaining' <= Remaining
         /\ ~ready /\ m_axis_tvalid => Remaining' + 1 <= Remaining
    BY <1>1, <1>2, ReadySpends DEF RunInv
  <1>11. FsmEdge(FALSE, scan_bound)
    BY <1>3 DEF Tick, ReaderEdge
  <1>12. Pushed' = expected' + Len(fifo')
    <2>1. Pushed = expected + Len(fifo)
      BY <1>2 DEF Streaming
    <2>2. CASE push
      BY <1>2, <1>5, <1>6, <1>7, <1>9, <2>1, <2>2
    <2>3. CASE ~push
      BY <1>2, <1>5, <1>6, <1>7, <1>9, <2>1, <2>3
    <2> QED BY <2>2, <2>3
  <1>13. busy_q' \/ done_q'
    BY <1>2, <1>11 DEF Streaming, FsmEdge, Finish, FetchNext, AwaitFresh, fsmVars
  <1>14. /\ LoopLimit' = LoopLimit /\ LoopLimit \in Nat
         /\ Budget' = Budget /\ Budget \in Nat
    BY <1>10, ReaderAssumption DEF LoopLimit, Budget
  <1>15. cyc' + Remaining' <= 3 * expected' + Spent' + Budget'
    <2>1. cyc + Remaining <= 3 * expected + Spent + Budget
      BY <1>2 DEF Streaming
    <2>2. Spent \in 0 .. 2 /\ Spent' \in 0 .. 2
      BY DEF Spent
    <2> DEFINE r == Remaining
               r2 == Remaining'
               s == Spent
               s2 == Spent'
               b == Budget
    <2>10. /\ cyc \in Nat /\ expected \in Nat /\ cyc' = cyc + 1
           /\ r \in Nat /\ r2 \in Nat /\ r2 <= r /\ s \in 0 .. 2 /\ s2 \in 0 .. 2
           /\ b \in Nat /\ Budget' = b /\ cyc + r <= 3 * expected + s + b
      BY <1>2, <1>10, <1>14, <2>1, <2>2
    <2>11. ~ready /\ m_axis_tvalid => r2 + 1 <= r
      BY <1>10
    <2> HIDE DEF r, r2, s, s2, b
    <2>12. /\ s < s2 => cyc' + r2 <= 3 * expected + s2 + b
           /\ cyc' + r2 <= 3 * (expected + 1) + s2 + b
           /\ r2 + 1 <= r => cyc' + r2 <= 3 * expected + s + b
      BY <2>10, Paid
    <2>3. CASE fifo = <<>> /\ ~pending_q
      <3>1. busy_q
        BY <1>2, <1>7, <2>3
      <3>2. pending_q'
        BY <1>11, <2>3, <3>1 DEF FsmEdge, AwaitFresh
      <3>3. s = 0 /\ s2 \in 1 .. 2
        BY <2>3, <3>2 DEF Spent, s, s2
      <3>4. expected' = expected
        BY <1>9, <2>3 DEF pop, m_axis_tvalid
      <3>5. cyc' + r2 <= 3 * expected + s2 + b
        <4>1. s < s2
          BY <3>3
        <4> QED BY <2>12, <4>1
      <3> QED BY <2>10, <3>4, <3>5, Zenon DEF b, r2, s2
    <2>4. CASE fifo = <<>> /\ pending_q
      <3>1. busy_q
        BY <1>2, <1>7, <2>4
      <3>2. push /\ ~pop(ready)
        BY <1>7, <2>4, <3>1, ReaderAssumption
        DEF push, pop, fifo_tvalid, fifo_s_ready, m_axis_tvalid
      <3>3. fifo' # <<>>
        BY <1>6, <1>7, <1>8, <2>4, <3>2
      <3>4. s = 1 /\ s2 = 2
        BY <2>4, <3>3 DEF Spent, s, s2
      <3>5. expected' = expected
        BY <1>9, <3>2
      <3>6. cyc' + r2 <= 3 * expected + s2 + b
        <4>1. s < s2
          BY <3>4
        <4> QED BY <2>12, <4>1
      <3> QED BY <2>10, <3>5, <3>6, Zenon DEF b, r2, s2
    <2>5. CASE fifo # <<>> /\ ready
      <3>1. expected' = expected + 1
        BY <1>9, <2>5 DEF pop, m_axis_tvalid
      <3> QED BY <2>10, <2>12, <3>1 DEF b, r2, s2
    <2>6. CASE fifo # <<>> /\ ~ready
      <3>1. expected' = expected /\ ~pop(ready) /\ m_axis_tvalid
        BY <1>9, <2>6 DEF pop, m_axis_tvalid
      <3>2. fifo' # <<>>
        BY <1>6, <1>7, <1>8, <2>6, <3>1
      <3>3. s = 2 /\ s2 = 2
        BY <2>6, <3>2 DEF Spent, s, s2
      <3> QED BY <2>6, <2>10, <2>11, <2>12, <3>1, <3>3 DEF b, r2, s2
    <2> QED BY <2>3, <2>4, <2>5, <2>6
  <1>16. cyc' <= LoopLimit'
    BY <1>2, <1>14
  <1>17. table' = mem'
    BY <1>2, <1>5 DEF Streaming
  <1>18. Streaming'
    BY <1>12, <1>13, <1>15, <1>16, <1>17 DEF Streaming
  <1>19. expected' \in Nat /\ cyc' \in Nat /\ table' \in [Rows -> Row \cup {Blank}]
    BY <1>2, <1>9 DEF RunInv
  <1> QED BY <1>2, <1>4, <1>10, <1>18, <1>19 DEF BenchInv, RunInv

\* The loop is not cut short: when it is left, every row of the bound came,
\* and the last of them left a reader that is done.
LEMMA AllReceived ==
  ASSUME BenchInv, pc = "stream", expected >= Expect \/ cyc = LoopLimit
  PROVE  expected = Expect /\ done_q /\ Quiet
  <1>1. IInv /\ Streaming /\ expected \in Nat /\ cyc \in Nat /\ run \in RunWord
    BY DEF BenchInv, RunInv
  <1>2. /\ Expect \in 1 .. NUM_ROWS
        /\ Len(fifo) \in Nat /\ (fifo = <<>> <=> Len(fifo) = 0)
        /\ busy_q => expected + Len(fifo) < Expect
        /\ ~busy_q => expected + Len(fifo) = Expect
    BY <1>1, StreamCounts
  <1>3. Remaining \in Nat
    BY <1>1, ReaderBenchAssumption, ReaderAssumption DEF Remaining, RunWord
  <1>4. cyc + Remaining <= 3 * expected + Spent + Budget /\ Spent \in 0 .. 2
    BY <1>1 DEF Streaming, Spent
  <1>5. expected < Expect => cyc < LoopLimit
    <2> SUFFICES ASSUME expected < Expect PROVE cyc < LoopLimit
      OBVIOUS
    <2>1. NUM_ROWS \in Nat /\ expected + 1 <= NUM_ROWS
      BY <1>1, <1>2, ReaderAssumption
    <2>2. CASE run.kind = "stress"
      <3>1. Budget = 13 * NUM_ROWS + 512 /\ LoopLimit = 16 * NUM_ROWS + 512
        BY <2>2 DEF Budget, LoopLimit
      <3> QED BY <1>1, <1>3, <1>4, <2>1, <3>1
    <2>3. CASE run.kind # "stress"
      <3>1. Budget = 5 * NUM_ROWS + 64 /\ LoopLimit = 8 * NUM_ROWS + 64
        BY <2>3 DEF Budget, LoopLimit
      <3> QED BY <1>1, <1>3, <1>4, <2>1, <3>1
    <2> QED BY <2>2, <2>3
  <1>6. expected = Expect /\ ~busy_q /\ fifo = <<>>
    <2>1. LoopLimit \in Nat
      BY ReaderAssumption DEF LoopLimit
    <2> QED BY <1>1, <1>2, <1>5, <2>1
  <1> QED BY <1>1, <1>6 DEF Streaming, Quiet

LEMMA ReceivedStep == BenchInv /\ Received => BenchInv'
  <1> SUFFICES ASSUME BenchInv, Received PROVE BenchInv'
    OBVIOUS
  <1>1. /\ pc = "stream" /\ pc' = "received" /\ cyc' = 0
        /\ UNCHANGED <<vars, table, run, expected>>
        /\ RunInv /\ IInv
    BY DEF Received, BenchInv, RunInv
  <1>2. expected = Expect /\ done_q /\ Quiet
    <2>1. Expect \in Nat /\ expected \in Nat
      BY <1>1, StreamCounts DEF RunInv
    <2> QED BY <1>1, <2>1, AllReceived DEF Received
  <1>3. IInv'
    BY <1>1, IInvStep
  <1>4. expected' = Expect' /\ done_q' /\ Quiet'
    BY <1>1, <1>2 DEF vars, readerVars, fsmVars, Quiet, Expect
  <1>5. /\ run' \in RunWord /\ table' \in [Rows -> Row \cup {Blank}]
        /\ expected' \in Nat /\ cyc' \in Nat
    BY <1>1 DEF RunInv
  <1> QED BY <1>1, <1>3, <1>4, <1>5 DEF BenchInv, RunInv

\* The FIFO is already empty when the bench begins to drain it.
LEMMA DrainFifoStep == BenchInv /\ DrainFifo => BenchInv'
  <1> SUFFICES ASSUME BenchInv, DrainFifo PROVE BenchInv'
    OBVIOUS
  <1>1. /\ pc = "received" /\ Clock(FALSE, NoLoad, TRUE) /\ cyc' = cyc + 1
        /\ UNCHANGED <<table, run, expected>>
        /\ RunInv /\ IInv /\ Quiet
    BY DEF DrainFifo, BenchInv, RunInv
  <1>2. Tick(TRUE)
    BY <1>1 DEF Tick, Clock
  <1>3. IInv'
    BY <1>1, <1>2, TickStep
  <1>4. fifo' = <<>> /\ ~busy_q'
    <2>1. Quiet /\ \E load, ready : ReaderEdge(FALSE, scan_bound, load, ready)
      BY <1>1 DEF Clock
    <2>2. fifo' = <<>>
      BY <2>1, QuietFifo
    <2>3. ~busy_q'
      BY <2>1 DEF ReaderEdge, FsmEdge, Quiet, fsmVars
    <2> QED BY <2>2, <2>3 DEF Quiet
  <1>5. pc' = "checked"
    BY <1>4 DEF DrainFifo
  <1>6. /\ run' \in RunWord /\ table' \in [Rows -> Row \cup {Blank}]
        /\ expected' \in Nat /\ cyc' \in Nat
    BY <1>1 DEF RunInv
  <1> QED BY <1>3, <1>4, <1>5, <1>6 DEF BenchInv, RunInv, Quiet

\* Every step of the bench, and every one of a reader without a bench.
LEMMA BenchInvStep == BenchInv /\ [BenchNext]_benchVars => BenchInv'
  <1> SUFFICES ASSUME BenchInv, [BenchNext]_benchVars PROVE BenchInv'
    OBVIOUS
  <1>1. CASE BenchStep
    BY <1>1, CallStep, LoadRowStep, LoadDoneStep, PulseStep, ReceiveStep,
       ReceivedStep, DrainFifoStep DEF BenchStep
  <1>2. CASE FreeStep \/ \E ready \in BOOLEAN : FreeTick(ready)
    <2>1. Next /\ pc = "free" /\ pc' = pc
      BY <1>2 DEF FreeStep, FreeTick, Next, bench
    <2> QED BY <2>1, IInvStep DEF BenchInv
  <1>3. CASE UNCHANGED benchVars
    <2>1. UNCHANGED <<vars, pc, table, run, cyc, expected>>
      BY <1>3 DEF benchVars, bench
    <2>2. IInv'
      BY <2>1, IInvStep DEF BenchInv
    <2>3. RunInv => RunInv'
      BY <2>1
      DEF RunInv, Streaming, vars, readerVars, fsmVars, Quiet, Remaining, Budget,
          Spent, Pushed, LoopLimit, Expect
    <2> QED BY <2>1, <2>2, <2>3 DEF BenchInv
  <1> QED BY <1>1, <1>2, <1>3 DEF BenchNext

\* The checks of run_query, run_bounded_query and run_stress, for every table
\* size, FIFO depth, bound and stall profile within the cycles of their loops:
\* a beat seen while receiving is the next row of the loaded table, with tlast
\* on the final row of the bound; all rows come before the loop gives up; with
\* the last of them the reader is done and its FIFO is empty.
THEOREM RunsCheck == BenchSpec => []RunChecks
  <1>1. ASSUME BenchInv PROVE RunChecks
    <2>1. ASSUME pc = "stream", expected < Expect, m_axis_tvalid
          PROVE  /\ Head(fifo).columns = table[expected]
                 /\ Head(fifo).pass
                 /\ Head(fifo).last = (expected = Expect - 1)
      <3>1. IInv /\ Streaming /\ expected \in Nat
        BY <1>1, <2>1 DEF BenchInv, RunInv
      <3>2. /\ Expect \in Nat /\ Len(fifo) \in Nat /\ Len(fifo) > 0
            /\ Expect = last_row(scan_bound) + 1
        BY <2>1, <3>1, StreamCounts DEF m_axis_tvalid
      <3>3. Pushed - Len(fifo) + 1 - 1 = expected
        BY <3>1, <3>2 DEF Streaming
      <3>4. fifo[1] = Scan!RowBeat(expected)
        BY <3>1, <3>2, <3>3 DEF IInv, Window
      <3>5. Scan!ScanLength = Expect
        BY DEF Scan!ScanLength, Expect
      <3>6. Head(fifo) = fifo[1]
        BY <3>1 DEF IInv, TypeOK
      <3>7. (expected + 1 = Expect) = (expected = Expect - 1)
        BY <3>1, <3>2
      <3> QED BY <3>1, <3>4, <3>5, <3>6, <3>7 DEF Scan!RowBeat, Streaming
    <2>2. pc = "received" => expected = Expect /\ done_q /\ ~busy_q
      BY <1>1 DEF BenchInv, RunInv, Quiet
    <2>3. pc = "checked" => fifo = <<>>
      BY <1>1 DEF BenchInv, RunInv, Quiet
    <2> QED BY <2>1, <2>2, <2>3 DEF RunChecks
  <1> QED BY BenchInitInv, BenchInvStep, <1>1, PTL DEF BenchSpec
=============================================================================
