----------------------------- MODULE QueryProofs -----------------------------
(***************************************************************************)
(* Proofs about the composed core for every table, FIFO depth, number of   *)
(* buckets and configuration.  The argument follows the end marker, the    *)
(* beat with tlast: while a query runs it is in exactly one place, stages  *)
(* before it are empty and stages behind it still expect it.  The          *)
(* aggregation is done only after it took the marker, so nothing is left.  *)
(*                                                                         *)
(* That the core implements QueryService needs the rows counted as well:   *)
(* at any cycle of a query the rows 0 .. Consumed - 1 are in the           *)
(* accumulators or in the groups, the next ones are in the skids and in    *)
(* the FIFO, each in the form its stage gives it, and the reader is at row *)
(* Pushed.  When the end marker is taken Consumed is the length of the     *)
(* scan, so what the aggregation holds is the answer of the whole query.   *)
(***************************************************************************)
EXTENDS QuerySystem, FiniteSetsExt, FiniteSetTheorems, FunctionTheorems,
        SequenceTheorems, WellFoundedInduction, TLAPS

-----------------------------------------------------------------------------
(* The inductive invariant *)

\* What the reader and the skids hold.
Held(valid, reg) ==
  valid => DOMAIN reg = {"pass", "columns", "last"} /\ reg.last \in BOOLEAN
Types ==
  /\ mem \in [Reader!Rows -> Row] /\ bank_rdata \in Row
  /\ raddr_q \in Reader!Rows
  /\ reader_busy \in BOOLEAN /\ pending_q \in BOOLEAN
  /\ fifo \in Seq(Reader!RowStream)
  /\ pred_valid \in BOOLEAN /\ Held(pred_valid, pred_reg)
  /\ proj_valid \in BOOLEAN /\ Held(proj_valid, proj_reg)
  /\ cl_busy \in [Classic!Engines -> BOOLEAN]
  /\ cl_done \in [Classic!Engines -> BOOLEAN]
  /\ gb_busy \in BOOLEAN /\ gb_done \in BOOLEAN /\ row_last_q \in BOOLEAN

\* The flags of the engines: the classic ones move in lock step, an engine
\* that is done is idle, and an idle GROUP BY engine holds no group.
Flags ==
  /\ \A e \in Classic!Engines : cl_busy[e] = cl_busy["COUNT"]
  /\ cl_done["COUNT"] => ~cl_busy["COUNT"]
  /\ gb_done => ~gb_busy
  /\ ~gb_busy => ~present_hold_q

\* The aggregation still expects the end marker.
GbExpects ==
  /\ gb_busy
  /\ \/ gb_state \in {"CLEAR", "AGG_IDLE"}
     \/ gb_state \in {"AGG_RD", "AGG_WRITE"} /\ ~row_last_q
Expects == IF cfg.groupby THEN GbExpects ELSE cl_busy["COUNT"]

\* No beat of a stage is the marker; its newest beat is.
FifoBefore == \A i \in 1 .. Len(fifo) : ~fifo[i].last
FifoEnds ==
  /\ Len(fifo) > 0 /\ fifo[Len(fifo)].last
  /\ \A i \in 1 .. Len(fifo) - 1 : ~fifo[i].last
PredBefore == pred_valid => ~pred_reg.last
ProjBefore == proj_valid => ~proj_reg.last

\* The five places where the marker can be.
InReader == reader_busy /\ FifoBefore /\ PredBefore /\ ProjBefore /\ Expects
InFifo == ~reader_busy /\ FifoEnds /\ PredBefore /\ ProjBefore /\ Expects
InPred ==
  /\ ~reader_busy /\ fifo = <<>>
  /\ pred_valid /\ pred_reg.last /\ ProjBefore /\ Expects
InProj ==
  /\ ~reader_busy /\ fifo = <<>> /\ ~pred_valid
  /\ proj_valid /\ proj_reg.last /\ Expects
Taken ==
  ~reader_busy /\ fifo = <<>> /\ ~pred_valid /\ ~proj_valid /\ ~Expects

\* A query: the marker is somewhere, and the side that is not configured rests.
SideIdle == IF cfg.groupby THEN ~cl_busy["COUNT"] ELSE ~gb_busy
OneMarker ==
  state_q = "SCAN" =>
    (InReader \/ InFifo \/ InPred \/ InProj \/ Taken) /\ SideIdle

IInv ==
  Types /\ Flags /\ OneMarker /\ (state_q # "SCAN" => Drained)

-----------------------------------------------------------------------------
(* What one clock edge does at each stage, in terms of the wires. *)

\* Loads of a step write rows of the table.
LoadTypes(load) == \A a \in DOMAIN load : load[a] \in Row

\* The contents of a queue after an append, a removal, or both.
LEMMA AppendTail ==
  ASSUME NEW S, NEW s \in Seq(S), NEW b \in S
  PROVE  /\ Append(s, b) \in Seq(S)
         /\ Len(Append(s, b)) = Len(s) + 1
         /\ \A i \in 1 .. Len(s) : Append(s, b)[i] = s[i]
         /\ Append(s, b)[Len(s) + 1] = b
         /\ Tail(Append(s, b)) \in Seq(S)
         /\ Len(Tail(Append(s, b))) = Len(s)
         /\ \A i \in 1 .. Len(s) : Tail(Append(s, b))[i] = Append(s, b)[i + 1]
  <1> DEFINE t == Append(s, b)
  <1>1. /\ t \in Seq(S) /\ Len(t) = Len(s) + 1 /\ t # <<>> /\ Len(s) \in Nat
        /\ \A i \in 1 .. Len(s) : t[i] = s[i]
        /\ t[Len(s) + 1] = b
    BY AppendProperties
  <1> HIDE DEF t
  <1>2. /\ Tail(t) \in Seq(S) /\ Len(Tail(t)) = Len(t) - 1
        /\ \A i \in 1 .. Len(t) - 1 : Tail(t)[i] = t[i + 1]
    BY <1>1, HeadTailProperties
  <1> QED BY <1>1, <1>2 DEF t

\* The reader hands a row to its FIFO, and the skid takes one out of it.
push == Reader!fifo_tvalid /\ Reader!fifo_s_ready
pop == rd_tvalid /\ pred_s_ready
pushed == Reader!ReaderBeat(cfg.num_rows)

\* The contents of the FIFO after an edge.
LEMMA FifoStep ==
  ASSUME Types, NEW start, NEW load,
         Reader!ReaderEdge(start, cfg.num_rows, load, pred_s_ready)
  PROVE  /\ fifo' \in Seq(Reader!RowStream)
         /\ Len(fifo') = Len(fifo) + (IF push THEN 1 ELSE 0)
                                   - (IF pop THEN 1 ELSE 0)
         /\ pop => Len(fifo) > 0
         /\ \A i \in 1 .. Len(fifo') :
              LET j == IF pop THEN i + 1 ELSE i
              IN  IF j <= Len(fifo) THEN fifo'[i] = fifo[j]
                  ELSE push /\ j = Len(fifo) + 1 /\ fifo'[i] = pushed
         /\ pushed \in Reader!RowStream
  <1>0. /\ fifo \in Seq(Reader!RowStream) /\ Len(fifo) \in Nat
        /\ pushed \in Reader!RowStream
    BY LenProperties
    DEF Types, pushed, Reader!ReaderBeat, Reader!RowStream
  <1>1. Reader!FifoEdge(cfg.num_rows, pred_s_ready)
    BY DEF Reader!ReaderEdge
  <1> HIDE DEF pushed
  <1>2. CASE push /\ pop
    <2>1. fifo' = Tail(Append(fifo, pushed))
      BY <1>1, <1>2
      DEF Reader!FifoEdge, push, pop, pushed, rd_tvalid, Reader!Fifo!AcceptAndHandOver
    <2>2. Len(fifo) > 0
      BY <1>0, <1>2, EmptySeq DEF pop, rd_tvalid, Reader!m_axis_tvalid
    <2> QED BY <1>0, <1>2, <2>1, <2>2, AppendTail
  <1>3. CASE push /\ ~pop
    <2>1. fifo' = Append(fifo, pushed)
      BY <1>1, <1>3
      DEF Reader!FifoEdge, push, pop, pushed, rd_tvalid, Reader!Fifo!Accept
    <2> QED BY <1>0, <1>3, <2>1, AppendTail
  <1>4. CASE ~push /\ pop
    <2>1. fifo' = Tail(fifo) /\ fifo # <<>>
      BY <1>1, <1>4
      DEF Reader!FifoEdge, push, pop, rd_tvalid, Reader!Fifo!HandOver
    <2>2. Len(fifo) > 0
      BY <1>0, <2>1, EmptySeq
    <2> QED BY <1>0, <1>4, <2>1, <2>2, HeadTailProperties
  <1>5. CASE ~push /\ ~pop
    <2>1. fifo' = fifo
      BY <1>1, <1>5 DEF Reader!FifoEdge, push, pop, rd_tvalid
    <2> QED BY <1>0, <1>5, <2>1
  <1> QED BY <1>2, <1>3, <1>4, <1>5

\* The reader's registers keep their types.
LEMMA ReaderTypes ==
  ASSUME Types, NEW start \in BOOLEAN, NEW load, LoadTypes(load),
         Reader!ReaderEdge(start, cfg.num_rows, load, pred_s_ready)
  PROVE  /\ mem' \in [Reader!Rows -> Row] /\ bank_rdata' \in Row
         /\ raddr_q' \in Reader!Rows
         /\ reader_busy' \in BOOLEAN /\ pending_q' \in BOOLEAN
  <1>1. mem' \in [Reader!Rows -> Row] /\ bank_rdata' \in Row
    BY DEF Types, Reader!ReaderEdge, Reader!BankEdge, LoadTypes
  <1>2. /\ raddr_q' \in Reader!Rows
        /\ reader_busy' \in BOOLEAN /\ pending_q' \in BOOLEAN
    <2> USE TableAssumption DEF Types, Reader!Rows
    <2>1. Reader!FsmEdge(start, cfg.num_rows)
      BY DEF Reader!ReaderEdge
    <2>2. CASE start /\ Reader!Begin
      BY <2>2 DEF Reader!Begin
    <2>3. CASE ~start /\ reader_busy
      <3>1. Reader!Finish \/ Reader!FetchNext \/ Reader!AwaitFresh
        BY <2>1, <2>3 DEF Reader!FsmEdge
      <3>2. Reader!AddrSucc(raddr_q) \in 0 .. NUM_ROWS - 1
        BY DEF Reader!AddrSucc
      <3>3. /\ raddr_q' \in {0, raddr_q, Reader!AddrSucc(raddr_q)}
        BY <3>1 DEF Reader!Finish, Reader!FetchNext, Reader!AwaitFresh
      <3>4. /\ reader_busy' = FALSE \/ reader_busy' = reader_busy
            /\ pending_q' \in BOOLEAN
        BY <3>1 DEF Reader!Finish, Reader!FetchNext, Reader!AwaitFresh
      <3>5. raddr_q' \in Reader!Rows
        BY <3>2, <3>3
      <3>6. reader_busy' \in BOOLEAN
        BY <3>4, Zenon
      <3> QED BY <3>4, <3>5, <3>6
    <2>4. CASE ~start /\ ~reader_busy
      BY <2>1, <2>4 DEF Reader!FsmEdge, Reader!fsmVars
    <2> QED BY <2>1, <2>2, <2>3, <2>4 DEF Reader!FsmEdge
  <1> QED BY <1>1, <1>2

\* The reader is idle exactly from the edge at which it hands over the beat
\* with the marker.
LEMMA ReaderMarks ==
  ASSUME Types, NEW load,
         Reader!ReaderEdge(FALSE, cfg.num_rows, load, pred_s_ready)
  PROVE  /\ push => reader_busy
         /\ reader_busy' <=> reader_busy /\ ~(push /\ pushed.last)
  <1>1. Reader!FsmEdge(FALSE, cfg.num_rows)
    BY DEF Reader!ReaderEdge
  <1>2. push => reader_busy /\ pending_q
    BY DEF push, Reader!fifo_tvalid
  <1>3. pushed.last <=> ret_row_q = Reader!last_row(cfg.num_rows)
    BY DEF pushed, Reader!ReaderBeat
  <1>4. CASE ~reader_busy
    BY <1>1, <1>2, <1>4 DEF Reader!FsmEdge, Reader!fsmVars
  <1>5. CASE reader_busy /\ ~push
    <2>1. Reader!AwaitFresh
      BY <1>1, <1>5 DEF Reader!FsmEdge, push, Reader!fifo_tvalid
    <2> QED BY <1>5, <2>1 DEF Reader!AwaitFresh
  <1>6. CASE reader_busy /\ push /\ pushed.last
    <2>1. Reader!Finish
      BY <1>1, <1>3, <1>6 DEF Reader!FsmEdge, push, Reader!fifo_tvalid
    <2> QED BY <1>6, <2>1 DEF Reader!Finish
  <1>7. CASE reader_busy /\ push /\ ~pushed.last
    <2>1. Reader!FetchNext
      BY <1>1, <1>3, <1>7 DEF Reader!FsmEdge, push, Reader!fifo_tvalid
    <2> QED BY <1>7, <2>1 DEF Reader!FetchNext
  <1> QED BY <1>2, <1>4, <1>5, <1>6, <1>7

\* The beat on the wires behind the reader is the oldest of the FIFO.
LEMMA ReaderWires ==
  ASSUME Types
  PROVE  /\ rd_tvalid <=> Len(fifo) > 0
         /\ rd_tvalid => rd_beat = fifo[1]
         /\ DOMAIN rd_beat = {"pass", "columns", "last"}
         /\ rd_beat.last \in BOOLEAN
  <1>1. fifo \in Seq(Reader!RowStream) /\ Len(fifo) \in Nat
    BY LenProperties DEF Types
  <1>2. rd_tvalid <=> Len(fifo) > 0
    BY <1>1, EmptySeq DEF rd_tvalid, Reader!m_axis_tvalid
  <1>3. ASSUME rd_tvalid
        PROVE  rd_beat = fifo[1] /\ fifo[1] \in Reader!RowStream
    BY <1>1, <1>2, <1>3, HeadTailProperties, ElementOfSeq
    DEF rd_beat, rd_tvalid, Reader!m_axis_tvalid
  <1>4. ASSUME ~rd_tvalid PROVE rd_beat = NoBeat
    BY <1>4 DEF rd_beat
  <1>5. CASE rd_tvalid
    BY <1>2, <1>3, <1>5 DEF Reader!RowStream
  <1>6. CASE ~rd_tvalid
    <2>1. DOMAIN NoBeat = {"pass", "columns", "last"} /\ NoBeat.last = FALSE
      BY DEF NoBeat
    <2> QED BY <1>2, <1>4, <1>6, <2>1
  <1> QED BY <1>5, <1>6

\* A skid delivers its beat or the one that comes in, and holds what cannot
\* leave.
LEMMA PredStep ==
  ASSUME Types, PredReg!RegisterEdge(rd_tvalid, pred_in, pred_tready)
  PROVE  /\ pred_tvalid <=> pred_valid \/ rd_tvalid
         /\ pred_out.last = IF pred_valid THEN pred_reg.last ELSE rd_beat.last
         /\ DOMAIN pred_out = {"pass", "columns", "last"}
         /\ pred_out.last \in BOOLEAN
         /\ pred_valid' \in BOOLEAN /\ Held(pred_valid, pred_reg)'
         /\ pred_valid' <=> pred_tvalid /\ ~pred_tready
         /\ pred_valid' => pred_reg' = pred_out
         /\ pred_valid' => pred_reg'.last = pred_out.last
  <1>1. /\ DOMAIN pred_in = {"pass", "columns", "last"}
        /\ pred_in.last = rd_beat.last /\ rd_beat.last \in BOOLEAN
    BY ReaderWires DEF pred_in
  <1>2. /\ pred_out = IF pred_valid THEN pred_reg ELSE pred_in
        /\ pred_tvalid <=> pred_valid \/ rd_tvalid
    BY DEF pred_out, PredReg!m_axis_beat, pred_tvalid, PredReg!m_axis_tvalid
  <1>3. /\ pred_valid \in BOOLEAN
        /\ pred_valid => DOMAIN pred_reg = {"pass", "columns", "last"}
        /\ pred_valid => pred_reg.last \in BOOLEAN
    BY DEF Types, Held
  <1>4. \/ /\ rd_tvalid /\ ~pred_valid
           /\ pred_reg' = pred_in /\ pred_valid' = ~pred_tready
        \/ pred_tready /\ pred_valid /\ pred_valid' = FALSE
        \/ /\ IF pred_valid THEN ~pred_tready ELSE ~rd_tvalid
           /\ pred_valid' = pred_valid /\ pred_reg' = pred_reg
    BY DEF PredReg!RegisterEdge, PredReg!Capture, PredReg!Drain,
           PredReg!registerVars
  <1>5. pred_valid' \in BOOLEAN /\ (pred_valid' <=> pred_tvalid /\ ~pred_tready)
    <2>1. CASE rd_tvalid /\ ~pred_valid /\ pred_valid' = ~pred_tready
      BY <1>2, <2>1, Zenon
    <2>2. CASE pred_tready /\ pred_valid /\ pred_valid' = FALSE
      BY <1>2, <2>2, Zenon
    <2>3. CASE /\ IF pred_valid THEN ~pred_tready ELSE ~rd_tvalid
               /\ pred_valid' = pred_valid
      BY <1>2, <1>3, <2>3, Zenon
    <2> QED BY <1>4, <2>1, <2>2, <2>3
  <1>6. pred_valid' => pred_reg' = pred_out
    BY <1>2, <1>3, <1>4
  <1> HIDE DEF pred_out, pred_in, rd_beat, pred_tvalid, pred_tready, rd_tvalid
  <1>7. /\ DOMAIN pred_out = {"pass", "columns", "last"}
        /\ pred_out.last \in BOOLEAN
        /\ pred_out.last = IF pred_valid THEN pred_reg.last ELSE rd_beat.last
    BY <1>1, <1>2, <1>3
  <1>8. Held(pred_valid, pred_reg)'
    BY <1>6, <1>7 DEF Held
  <1> QED BY <1>2, <1>5, <1>6, <1>7, <1>8

LEMMA ProjStep ==
  ASSUME Types, DOMAIN pred_out = {"pass", "columns", "last"},
         pred_out.last \in BOOLEAN,
         ProjReg!RegisterEdge(pred_tvalid, proj_in, proj_tready)
  PROVE  /\ proj_tvalid <=> proj_valid \/ pred_tvalid
         /\ proj_out.last = IF proj_valid THEN proj_reg.last ELSE pred_out.last
         /\ proj_out.last \in BOOLEAN
         /\ proj_valid' \in BOOLEAN /\ Held(proj_valid, proj_reg)'
         /\ proj_valid' <=> proj_tvalid /\ ~proj_tready
         /\ proj_valid' => proj_reg' = proj_out
         /\ proj_valid' => proj_reg'.last = proj_out.last
  <1>1. /\ DOMAIN proj_in = {"pass", "columns", "last"}
        /\ proj_in.last = pred_out.last
    BY DEF proj_in
  <1>2. /\ proj_out = IF proj_valid THEN proj_reg ELSE proj_in
        /\ proj_tvalid <=> proj_valid \/ pred_tvalid
    BY DEF proj_out, ProjReg!m_axis_beat, proj_tvalid, ProjReg!m_axis_tvalid
  <1>3. /\ proj_valid \in BOOLEAN
        /\ proj_valid => DOMAIN proj_reg = {"pass", "columns", "last"}
        /\ proj_valid => proj_reg.last \in BOOLEAN
    BY DEF Types, Held
  <1>4. \/ /\ pred_tvalid /\ ~proj_valid
           /\ proj_reg' = proj_in /\ proj_valid' = ~proj_tready
        \/ proj_tready /\ proj_valid /\ proj_valid' = FALSE
        \/ /\ IF proj_valid THEN ~proj_tready ELSE ~pred_tvalid
           /\ proj_valid' = proj_valid /\ proj_reg' = proj_reg
    BY DEF ProjReg!RegisterEdge, ProjReg!Capture, ProjReg!Drain,
           ProjReg!registerVars
  <1> HIDE DEF proj_out, proj_in, pred_out, proj_tvalid, proj_tready, pred_tvalid
  <1>5. proj_valid' \in BOOLEAN /\ (proj_valid' <=> proj_tvalid /\ ~proj_tready)
    <2>1. CASE pred_tvalid /\ ~proj_valid /\ proj_valid' = ~proj_tready
      BY <1>2, <2>1, Zenon
    <2>2. CASE proj_tready /\ proj_valid /\ proj_valid' = FALSE
      BY <1>2, <2>2, Zenon
    <2>3. CASE /\ IF proj_valid THEN ~proj_tready ELSE ~pred_tvalid
               /\ proj_valid' = proj_valid
      BY <1>2, <1>3, <2>3, Zenon
    <2> QED BY <1>4, <2>1, <2>2, <2>3
  <1>6. proj_valid' => proj_reg' = proj_out
    BY <1>2, <1>3, <1>4
  <1>7. /\ DOMAIN proj_out = {"pass", "columns", "last"}
        /\ proj_out.last \in BOOLEAN
        /\ proj_out.last = IF proj_valid THEN proj_reg.last ELSE pred_out.last
    BY <1>1, <1>2, <1>3
  <1>8. Held(proj_valid, proj_reg)'
    BY <1>6, <1>7 DEF Held
  <1> QED BY <1>2, <1>5, <1>6, <1>7, <1>8

\* The aggregation takes a beat.
take == proj_tvalid /\ proj_tready

\* The classic engines under an edge without a start.
LEMMA ClassicStep ==
  ASSUME Types, Flags, NEW sValid, NEW pass, NEW v, NEW last \in BOOLEAN,
         Classic!EnginesEdge(FALSE, sValid, pass, v, last)
  PROVE  /\ cl_busy' \in [Classic!Engines -> BOOLEAN]
         /\ cl_done' \in [Classic!Engines -> BOOLEAN]
         /\ \A e \in Classic!Engines : cl_busy'[e] = cl_busy'["COUNT"]
         /\ cl_done'["COUNT"] => ~cl_busy'["COUNT"]
         /\ cl_busy'["COUNT"] <=> cl_busy["COUNT"] /\ ~(sValid /\ last)
  <1> DEFINE E == Classic!Engines
  <1>1. /\ cl_busy \in [E -> BOOLEAN] /\ cl_done \in [E -> BOOLEAN]
        /\ "COUNT" \in E
    BY DEF Types, Classic!Engines
  <1> HIDE DEF E
  <1>2. CASE sValid
    <2>1. Classic!Consume(pass, v, last)
      BY <1>2 DEF Classic!EnginesEdge
    <2>2. /\ cl_busy' = [e \in E |-> cl_busy[e] /\ ~last]
          /\ cl_done' = [e \in E |-> cl_done[e] \/ (cl_busy[e] /\ last)]
      BY <2>1 DEF Classic!Consume, E
    <2>3. \A e \in E : /\ cl_busy'[e] = (cl_busy[e] /\ ~last)
                       /\ cl_done'[e] = (cl_done[e] \/ (cl_busy[e] /\ last))
      BY <2>2
    <2>4. cl_busy' \in [E -> BOOLEAN] /\ cl_done' \in [E -> BOOLEAN]
      BY <2>2
    <2>5. \A e \in E : cl_busy[e] = cl_busy["COUNT"]
      BY DEF Flags, E
    <2>6. \A e \in E : cl_busy'[e] = cl_busy'["COUNT"]
      BY <1>1, <2>3, <2>5
    <2>7. /\ cl_busy'["COUNT"] <=> cl_busy["COUNT"] /\ ~last
          /\ cl_done'["COUNT"] <=> cl_done["COUNT"] \/ (cl_busy["COUNT"] /\ last)
      BY <1>1, <2>3
    <2>8. cl_done["COUNT"] => ~cl_busy["COUNT"]
      BY DEF Flags
    <2> QED BY <1>2, <2>4, <2>6, <2>7, <2>8 DEF E
  <1>3. CASE ~sValid
    <2>1. cl_busy' = cl_busy /\ cl_done' = cl_done
      BY <1>3 DEF Classic!EnginesEdge, Classic!engineVars
    <2> QED BY <1>1, <1>3, <2>1 DEF Flags, E
  <1> QED BY <1>2, <1>3

\* The GROUP BY engine under an edge without a start.
LEMMA GroupByStep ==
  ASSUME Types, Flags, NEW sValid, NEW pass, NEW key, NEW v,
         NEW last \in BOOLEAN, NEW mReady,
         GroupBy!GbEdge(FALSE, sValid, pass, key, v, last, mReady)
  PROVE  /\ gb_busy' \in BOOLEAN /\ gb_done' \in BOOLEAN
         /\ row_last_q' \in BOOLEAN
         /\ gb_done' => ~gb_busy'
         /\ ~gb_busy' => ~present_hold_q'
         /\ ~gb_busy => ~gb_busy'
         /\ GbExpects' <=>
              GbExpects /\ ~(sValid /\ GroupBy!s_axis_tready /\ last)
  <1>0. /\ gb_busy \in BOOLEAN /\ gb_done \in BOOLEAN /\ row_last_q \in BOOLEAN
        /\ gb_done => ~gb_busy
        /\ ~gb_busy => ~present_hold_q
    BY DEF Types, Flags
  <1> USE DEF GbExpects, GroupBy!s_axis_tready
  <1>1. CASE ~gb_busy
    <2>1. /\ gb_busy' = gb_busy /\ gb_done' = gb_done /\ row_last_q' = row_last_q
          /\ present_hold_q' = present_hold_q
      BY <1>1 DEF GroupBy!GbEdge, GroupBy!rowVars, GroupBy!presentVars
    <2> QED BY <1>0, <1>1, <2>1
  <1>2. CASE gb_busy
    <2>0. ~gb_done
      BY <1>0, <1>2
    <2>1. CASE GroupBy!Clear
      <3>1. /\ gb_busy' = gb_busy /\ gb_done' = gb_done /\ row_last_q' = row_last_q
            /\ gb_state = "CLEAR" /\ gb_state' \in {"CLEAR", "AGG_IDLE"}
        BY <2>1 DEF GroupBy!Clear, GroupBy!rowVars
      <3> QED BY <1>0, <1>2, <2>0, <3>1
    <2>2. CASE GroupBy!AcceptRow(sValid, pass, key, v, last)
      <3>1. /\ gb_busy' = gb_busy /\ gb_done' = gb_done /\ gb_state = "AGG_IDLE"
            /\ row_last_q' = IF sValid THEN last ELSE row_last_q
        BY <2>2 DEF GroupBy!AcceptRow
      <3>2. \/ sValid /\ gb_state' = "AGG_RD"
            \/ sValid /\ last /\ gb_state' = "SCAN"
            \/ (~sValid \/ ~last) /\ gb_state' = "AGG_IDLE"
        BY <2>2, <3>1 DEF GroupBy!AcceptRow, GroupBy!BeginDump
      <3>3. row_last_q' \in BOOLEAN
        BY <1>0, <3>1
      <3>4. sValid => (row_last_q' <=> last)
        BY <3>1
      <3> HIDE DEF GbExpects
      <3>5. GbExpects
        BY <1>2, <3>1 DEF GbExpects
      <3>6. GbExpects' <=> ~(sValid /\ last)
        BY <1>2, <3>1, <3>2, <3>4 DEF GbExpects
      <3> QED BY <1>0, <1>2, <2>0, <3>1, <3>3, <3>5, <3>6
    <2>3. CASE GroupBy!AwaitBucket
      <3>1. /\ gb_busy' = gb_busy /\ gb_done' = gb_done /\ row_last_q' = row_last_q
            /\ gb_state = "AGG_RD" /\ gb_state' = gb_state
        BY <2>3 DEF GroupBy!AwaitBucket, GroupBy!rowVars
      <3> QED BY <1>0, <1>2, <2>0, <3>1
    <2>4. CASE GroupBy!Probe \/ GroupBy!WriteDone
      <3>1. /\ gb_busy' = gb_busy /\ gb_done' = gb_done /\ row_last_q' = row_last_q
            /\ gb_state \in {"AGG_RD", "AGG_WRITE"}
        BY <2>4 DEF GroupBy!Probe, GroupBy!WriteDone, GroupBy!rowVars
      <3>2. \/ gb_state' = gb_state
            \/ gb_state' = IF row_last_q THEN "SCAN" ELSE "AGG_IDLE"
        BY <2>4 DEF GroupBy!Probe, GroupBy!WriteDone, GroupBy!AfterRow,
                    GroupBy!BeginDump
      <3> QED BY <1>0, <1>2, <2>0, <3>1, <3>2
    <2>5. CASE GroupBy!Update
      <3>1. /\ gb_busy' = gb_busy /\ gb_done' = gb_done /\ row_last_q' = row_last_q
            /\ gb_state = "AGG_RD" /\ gb_state' = "AGG_WRITE"
        BY <2>5 DEF GroupBy!Update, GroupBy!rowVars
      <3> QED BY <1>0, <1>2, <2>0, <3>1
    <2>6. CASE GroupBy!ScanPass
      <3>1. /\ gb_busy' = gb_busy /\ gb_done' = gb_done /\ row_last_q' = row_last_q
            /\ gb_state = "SCAN" /\ gb_state' \in {"SCAN", "PRESENT"}
        BY <2>6 DEF GroupBy!ScanPass, GroupBy!AwaitDump, GroupBy!rowVars
      <3> QED BY <1>0, <1>2, <2>0, <3>1
    <2>7. CASE GroupBy!Hold(mReady) \/ GroupBy!PresentPass
      <3>1. /\ row_last_q' = row_last_q
            /\ gb_state = "PRESENT" /\ gb_state' = "PRESENT"
        BY <2>7 DEF GroupBy!Hold, GroupBy!PresentPass, GroupBy!AwaitDump,
                    GroupBy!rowVars
      <3>2. \/ gb_busy' = gb_busy /\ gb_done' = gb_done
            \/ gb_busy' = FALSE /\ gb_done' = TRUE /\ ~present_hold_q'
        BY <2>7 DEF GroupBy!Hold, GroupBy!PresentPass, GroupBy!AwaitDump,
                    GroupBy!AdvanceOrEnd, GroupBy!presentVars
      <3>3. ~GbExpects /\ ~GbExpects'
        BY <3>1
      <3>4. gb_busy' \in BOOLEAN /\ gb_done' \in BOOLEAN /\ row_last_q' \in BOOLEAN
        BY <1>0, <3>1, <3>2
      <3> HIDE DEF GbExpects
      <3>5. CASE gb_busy' = gb_busy /\ gb_done' = gb_done
        BY <1>2, <2>0, <3>3, <3>4, <3>5
      <3>6. CASE gb_busy' = FALSE /\ gb_done' = TRUE /\ ~present_hold_q'
        BY <1>2, <3>3, <3>4, <3>6
      <3> QED BY <3>2, <3>5, <3>6
    <2> QED BY <1>2, <2>1, <2>2, <2>3, <2>4, <2>5, <2>6, <2>7 DEF GroupBy!GbEdge
  <1> QED BY <1>1, <1>2

\* The aggregation under an edge of a running query.
LEMMA AggregationStep ==
  ASSUME NEW gReady, Types, Flags, SideIdle, proj_out.last \in BOOLEAN,
         cfg' = cfg, AggregationEdge(FALSE, gReady)
  PROVE  /\ cl_busy' \in [Classic!Engines -> BOOLEAN]
         /\ cl_done' \in [Classic!Engines -> BOOLEAN]
         /\ gb_busy' \in BOOLEAN /\ gb_done' \in BOOLEAN
         /\ row_last_q' \in BOOLEAN
         /\ Flags'
         /\ SideIdle'
         /\ Expects' <=> Expects /\ ~(take /\ proj_out.last)
  <1> DEFINE last == proj_out.last
             pass == proj_out.pass
             val == proj_out.columns[cfg.column]
             key == proj_out.columns[cfg.gby_key]
             clValid == proj_tvalid /\ ~cfg.groupby
             gbValid == proj_tvalid /\ cfg.groupby
  <1>1. /\ Classic!EnginesEdge(FALSE, clValid, pass, val, last)
        /\ GroupBy!GbEdge(FALSE, gbValid, pass, key, val, last, gReady)
    BY DEF AggregationEdge
  <1> HIDE DEF last, pass, val, key, clValid, gbValid
  <1>2. /\ cl_busy' \in [Classic!Engines -> BOOLEAN]
        /\ cl_done' \in [Classic!Engines -> BOOLEAN]
        /\ \A e \in Classic!Engines : cl_busy'[e] = cl_busy'["COUNT"]
        /\ cl_done'["COUNT"] => ~cl_busy'["COUNT"]
        /\ cl_busy'["COUNT"] <=> cl_busy["COUNT"] /\ ~(clValid /\ last)
    BY <1>1, ClassicStep DEF last
  <1>3. /\ gb_busy' \in BOOLEAN /\ gb_done' \in BOOLEAN
        /\ row_last_q' \in BOOLEAN
        /\ gb_done' => ~gb_busy'
        /\ ~gb_busy' => ~present_hold_q'
        /\ ~gb_busy => ~gb_busy'
        /\ GbExpects' <=>
             GbExpects /\ ~(gbValid /\ GroupBy!s_axis_tready /\ last)
    BY <1>1, GroupByStep DEF last
  <1>4. Flags'
    BY <1>2, <1>3 DEF Flags
  <1>5. SideIdle'
    BY <1>2, <1>3 DEF SideIdle
  <1>6. Expects' <=> Expects /\ ~(take /\ proj_out.last)
    <2>1. CASE cfg.groupby
      <3>1. (Expects <=> GbExpects) /\ (Expects' <=> GbExpects')
        BY <2>1 DEF Expects
      <3>2. take /\ proj_out.last <=> gbValid /\ GroupBy!s_axis_tready /\ last
        BY <2>1 DEF take, proj_tready, gbValid, last
      <3> QED BY <1>3, <3>1, <3>2
    <2>2. CASE ~cfg.groupby
      <3>1. (Expects <=> cl_busy["COUNT"]) /\ (Expects' <=> cl_busy'["COUNT"])
        BY <2>2 DEF Expects
      <3>2. take /\ proj_out.last <=> clValid /\ cl_busy["COUNT"] /\ last
        BY <2>2 DEF take, proj_tready, Classic!classic_tready, clValid, last
      <3> QED BY <1>2, <3>1, <3>2
    <2> QED BY <2>1, <2>2
  <1> QED BY <1>2, <1>3, <1>4, <1>5, <1>6

-----------------------------------------------------------------------------
(* The steps *)

\* The marker in the FIFO after an edge.
LEMMA FifoMarker ==
  ASSUME Types, NEW load,
         Reader!ReaderEdge(FALSE, cfg.num_rows, load, pred_s_ready)
  PROVE  /\ reader_busy /\ FifoBefore =>
              /\ rd_tvalid => ~rd_beat.last
              /\ reader_busy' => FifoBefore'
              /\ ~reader_busy' => FifoEnds'
         /\ ~reader_busy /\ FifoEnds =>
              /\ rd_tvalid /\ ~reader_busy'
              /\ pop /\ rd_beat.last => fifo' = <<>>
              /\ ~(pop /\ rd_beat.last) => FifoEnds'
         /\ ~reader_busy /\ fifo = <<>> =>
              ~rd_tvalid /\ ~reader_busy' /\ fifo' = <<>>
  <1> DEFINE n == Len(fifo)
             m == Len(fifo')
  <1>1. /\ fifo \in Seq(Reader!RowStream) /\ n \in Nat
        /\ fifo' \in Seq(Reader!RowStream) /\ m \in Nat
    BY FifoStep, LenProperties DEF Types
  <1>2. /\ m = n + (IF push THEN 1 ELSE 0) - (IF pop THEN 1 ELSE 0)
        /\ pop => n > 0
        /\ \A i \in 1 .. m :
             LET j == IF pop THEN i + 1 ELSE i
             IN  IF j <= n THEN fifo'[i] = fifo[j]
                 ELSE push /\ j = n + 1 /\ fifo'[i] = pushed
    BY FifoStep
  <1>3. /\ push => reader_busy
        /\ reader_busy' <=> reader_busy /\ ~(push /\ pushed.last)
    BY ReaderMarks
  <1>4. (rd_tvalid <=> n > 0) /\ (rd_tvalid => rd_beat = fifo[1])
    BY ReaderWires
  <1>5. m = 0 => fifo' = <<>>
    BY <1>1, EmptySeq
  <1>6. ASSUME reader_busy, FifoBefore
        PROVE  /\ rd_tvalid => ~rd_beat.last
               /\ reader_busy' => FifoBefore'
               /\ ~reader_busy' => FifoEnds'
    <2>1. rd_tvalid => ~rd_beat.last
      BY <1>1, <1>4, <1>6 DEF FifoBefore
    <2>2. \A i \in 1 .. m : ~fifo'[i].last \/ (push /\ pushed.last /\ i = m)
      BY <1>1, <1>2, <1>6 DEF FifoBefore
    <2>3. reader_busy' => FifoBefore'
      BY <1>3, <1>6, <2>2 DEF FifoBefore
    <2>4. ASSUME ~reader_busy' PROVE FifoEnds'
      <3>1. push /\ pushed.last
        BY <1>3, <1>6, <2>4
      <3>2. m > 0 /\ fifo'[m] = pushed
        BY <1>1, <1>2, <3>1
      <3> QED BY <1>1, <2>2, <3>1, <3>2 DEF FifoEnds
    <2> QED BY <2>1, <2>3, <2>4
  <1>7. ASSUME ~reader_busy, FifoEnds
        PROVE  /\ rd_tvalid /\ ~reader_busy'
               /\ pop /\ rd_beat.last => fifo' = <<>>
               /\ ~(pop /\ rd_beat.last) => FifoEnds'
    <2>1. n > 0 /\ ~push /\ rd_tvalid /\ ~reader_busy'
      BY <1>3, <1>4, <1>7 DEF FifoEnds
    <2>2. ASSUME pop, rd_beat.last PROVE fifo' = <<>>
      <3>1. n = 1
        <4>1. fifo[1].last /\ \A i \in 1 .. n - 1 : ~fifo[i].last
          BY <1>4, <1>7, <2>1, <2>2 DEF FifoEnds
        <4>2. n > 1 => 1 \in 1 .. n - 1
          BY <1>1
        <4>3. n > 1 => ~fifo[1].last
          BY <4>1, <4>2, Zenon
        <4>4. ~(n > 1)
          BY <4>1, <4>3, Zenon
        <4>5. n \in Nat /\ n > 0
          BY <1>1, <2>1
        <4> HIDE DEF n
        <4> QED BY <4>4, <4>5
      <3>2. m = 0
        BY <1>1, <1>2, <2>1, <2>2, <3>1
      <3> QED BY <1>5, <3>2
    <2>3. ASSUME pop, ~rd_beat.last PROVE FifoEnds'
      <3>1. n > 1 /\ m = n - 1
        BY <1>1, <1>2, <1>4, <1>7, <2>1, <2>3 DEF FifoEnds
      <3>2. \A i \in 1 .. m : fifo'[i] = fifo[i + 1]
        BY <1>1, <1>2, <2>1, <2>3, <3>1
      <3>3. fifo'[m].last /\ \A i \in 1 .. m - 1 : ~fifo'[i].last
        BY <1>1, <1>7, <3>1, <3>2 DEF FifoEnds
      <3> QED BY <1>1, <3>1, <3>3 DEF FifoEnds
    <2>4. ASSUME ~pop PROVE FifoEnds'
      <3>1. m = n /\ \A i \in 1 .. m : fifo'[i] = fifo[i]
        BY <1>1, <1>2, <2>1, <2>4
      <3>2. fifo'[m].last /\ \A i \in 1 .. m - 1 : ~fifo'[i].last
        BY <1>1, <1>7, <3>1 DEF FifoEnds
      <3> QED BY <1>1, <1>7, <3>1, <3>2 DEF FifoEnds
    <2> QED BY <2>1, <2>2, <2>3, <2>4
  <1>8. ASSUME ~reader_busy, fifo = <<>>
        PROVE  ~rd_tvalid /\ ~reader_busy' /\ fifo' = <<>>
    <2>1. n = 0
      BY <1>8, EmptySeq
    <2>2. ~push /\ ~pop /\ ~rd_tvalid /\ ~reader_busy'
      BY <1>1, <1>2, <1>3, <1>4, <1>8, <2>1
    <2>3. m = 0
      BY <1>1, <1>2, <2>1, <2>2
    <2> QED BY <1>5, <2>2, <2>3
  <1> QED BY <1>6, <1>7, <1>8

\* The places of the marker after an edge of a running query.
LEMMA MarkerMoves ==
  ASSUME Types, InReader \/ InFifo \/ InPred \/ InProj \/ Taken, NEW load,
         Reader!ReaderEdge(FALSE, cfg.num_rows, load, pred_s_ready),
         PredReg!RegisterEdge(rd_tvalid, pred_in, pred_tready),
         ProjReg!RegisterEdge(pred_tvalid, proj_in, proj_tready),
         Expects' <=> Expects /\ ~(take /\ proj_out.last)
  PROVE  (InReader \/ InFifo \/ InPred \/ InProj \/ Taken)'
  <1>1. /\ pred_tvalid <=> pred_valid \/ rd_tvalid
        /\ pred_out.last = IF pred_valid THEN pred_reg.last ELSE rd_beat.last
        /\ DOMAIN pred_out = {"pass", "columns", "last"}
        /\ pred_out.last \in BOOLEAN
        /\ pred_valid' <=> pred_tvalid /\ ~pred_tready
        /\ pred_valid' => pred_reg'.last = pred_out.last
    BY PredStep
  <1>2. /\ proj_tvalid <=> proj_valid \/ pred_tvalid
        /\ proj_out.last = IF proj_valid THEN proj_reg.last ELSE pred_out.last
        /\ proj_valid' <=> proj_tvalid /\ ~proj_tready
        /\ proj_valid' => proj_reg'.last = proj_out.last
    BY <1>1, ProjStep
  <1>3. /\ pred_s_ready <=> ~pred_valid
        /\ pred_tready <=> ~proj_valid
        /\ take <=> proj_tvalid /\ proj_tready
        /\ pop <=> rd_tvalid /\ pred_s_ready
    BY DEF pred_s_ready, PredReg!s_axis_tready, pred_tready,
           ProjReg!s_axis_tready, take, pop
  <1> DEFINE readerSide ==
               /\ reader_busy /\ FifoBefore =>
                    /\ rd_tvalid => ~rd_beat.last
                    /\ reader_busy' => FifoBefore'
                    /\ ~reader_busy' => FifoEnds'
               /\ ~reader_busy /\ FifoEnds =>
                    /\ rd_tvalid /\ ~reader_busy'
                    /\ pop /\ rd_beat.last => fifo' = <<>>
                    /\ ~(pop /\ rd_beat.last) => FifoEnds'
               /\ ~reader_busy /\ fifo = <<>> =>
                    ~rd_tvalid /\ ~reader_busy' /\ fifo' = <<>>
  <1>4. readerSide
    BY FifoMarker
  \* Behind the place of the marker only other beats pass.
  <1>5. ASSUME ProjBefore, pred_tvalid => ~pred_out.last
        PROVE  ProjBefore' /\ (Expects => Expects')
    BY <1>2, <1>3, <1>5 DEF ProjBefore
  <1>6. ASSUME PredBefore, rd_tvalid => ~rd_beat.last
        PROVE  PredBefore' /\ (pred_tvalid => ~pred_out.last)
    BY <1>1, <1>6 DEF PredBefore
  \* The marker on the wires of the last stage.
  <1>7. ASSUME Expects, ~reader_busy', fifo' = <<>>, ~pred_valid',
               proj_tvalid, proj_out.last
        PROVE  (InProj \/ Taken)'
    BY <1>2, <1>3, <1>7 DEF InProj, Taken
  <1>8. ASSUME Expects, ProjBefore, ~reader_busy', fifo' = <<>>,
               pred_tvalid, pred_out.last
        PROVE  (InPred \/ InProj \/ Taken)'
    <2>1. CASE proj_valid
      <3>1. pred_valid' /\ pred_reg'.last
        BY <1>1, <1>3, <1>8, <2>1
      <3>2. ~proj_out.last
        BY <1>2, <1>8, <2>1 DEF ProjBefore
      <3>3. ProjBefore' /\ Expects'
        BY <1>2, <1>8, <3>2 DEF ProjBefore
      <3> QED BY <1>8, <3>1, <3>3 DEF InPred
    <2>2. CASE ~proj_valid
      <3>1. ~pred_valid' /\ proj_tvalid /\ proj_out.last
        BY <1>1, <1>2, <1>3, <1>8, <2>2
      <3> QED BY <1>7, <1>8, <3>1
    <2> QED BY <2>1, <2>2
  <1> HIDE DEF readerSide
  <1>9. CASE InReader
    <2>1. /\ rd_tvalid => ~rd_beat.last
          /\ reader_busy' => FifoBefore'
          /\ ~reader_busy' => FifoEnds'
      BY <1>4, <1>9 DEF InReader, readerSide
    <2>2. PredBefore' /\ ProjBefore' /\ Expects'
      BY <1>5, <1>6, <1>9, <2>1 DEF InReader
    <2> QED BY <2>1, <2>2 DEF InReader, InFifo
  <1>10. CASE InFifo
    <2>1. /\ rd_tvalid /\ ~reader_busy'
          /\ pop /\ rd_beat.last => fifo' = <<>>
          /\ ~(pop /\ rd_beat.last) => FifoEnds'
      BY <1>4, <1>10 DEF InFifo, readerSide
    <2>2. CASE pop /\ rd_beat.last
      <3>1. ~pred_valid /\ pred_tvalid /\ pred_out.last
        BY <1>1, <1>3, <2>1, <2>2
      <3> QED BY <1>8, <1>10, <2>1, <2>2, <3>1 DEF InFifo
    <2>3. CASE ~(pop /\ rd_beat.last)
      <3>1. ~pred_out.last
        BY <1>1, <1>3, <1>10, <2>1, <2>3 DEF InFifo, PredBefore
      <3>2. PredBefore'
        BY <1>1, <3>1 DEF PredBefore
      <3>3. ProjBefore' /\ Expects'
        BY <1>5, <1>10, <3>1 DEF InFifo
      <3> QED BY <2>1, <2>3, <3>2, <3>3 DEF InFifo
    <2> QED BY <2>2, <2>3
  <1>11. CASE InPred
    <2>1. ~rd_tvalid /\ ~reader_busy' /\ fifo' = <<>>
      BY <1>4, <1>11 DEF InPred, readerSide
    <2>2. pred_tvalid /\ pred_out.last
      BY <1>1, <1>11 DEF InPred
    <2> QED BY <1>8, <1>11, <2>1, <2>2 DEF InPred
  <1>12. CASE InProj
    <2>1. ~rd_tvalid /\ ~reader_busy' /\ fifo' = <<>>
      BY <1>4, <1>12 DEF InProj, readerSide
    <2>2. ~pred_valid' /\ proj_tvalid /\ proj_out.last
      BY <1>1, <1>2, <1>12, <2>1 DEF InProj
    <2> QED BY <1>7, <1>12, <2>1, <2>2 DEF InProj
  <1>13. CASE Taken
    <2>1. ~rd_tvalid /\ ~reader_busy' /\ fifo' = <<>>
      BY <1>4, <1>13 DEF Taken, readerSide
    <2>2. ~pred_valid' /\ ~proj_valid'
      BY <1>1, <1>2, <1>13, <2>1 DEF Taken
    <2> QED BY <1>13, <2>1, <2>2 DEF Taken
  <1> QED BY <1>9, <1>10, <1>11, <1>12, <1>13

\* An edge of a running query.
LEMMA ScanStep ==
  ASSUME IInv, state_q = "SCAN", cfg' = cfg,
         NEW start \in BOOLEAN, NEW load, LoadTypes(load), NEW gReady,
         Edge(start, load, gReady)
  PROVE  IInv'
  <1> DEFINE InQuery == InReader \/ InFifo \/ InPred \/ InProj \/ Taken
  <1>0. Types /\ Flags /\ InQuery /\ SideIdle
    BY DEF IInv, OneMarker
  <1>1. qstart(start) = FALSE
    BY DEF qstart
  <1>2. /\ Reader!ReaderEdge(FALSE, cfg.num_rows, load, pred_s_ready)
        /\ PredReg!RegisterEdge(rd_tvalid, pred_in, pred_tready)
        /\ ProjReg!RegisterEdge(pred_tvalid, proj_in, proj_tready)
        /\ AggregationEdge(FALSE, gReady)
        /\ FsmScan(start)
    BY <1>1 DEF Edge, FsmIdle, FsmDone
  <1>3. /\ pred_tvalid <=> pred_valid \/ rd_tvalid
        /\ DOMAIN pred_out = {"pass", "columns", "last"}
        /\ pred_out.last \in BOOLEAN
        /\ pred_valid' \in BOOLEAN /\ Held(pred_valid, pred_reg)'
    BY <1>0, <1>2, PredStep
  <1>4. /\ proj_tvalid <=> proj_valid \/ pred_tvalid
        /\ proj_out.last \in BOOLEAN
        /\ proj_valid' \in BOOLEAN /\ Held(proj_valid, proj_reg)'
    BY <1>0, <1>2, <1>3, ProjStep
  <1> HIDE DEF InQuery
  <1>6. /\ cl_busy' \in [Classic!Engines -> BOOLEAN]
        /\ cl_done' \in [Classic!Engines -> BOOLEAN]
        /\ gb_busy' \in BOOLEAN /\ gb_done' \in BOOLEAN
        /\ row_last_q' \in BOOLEAN
        /\ Flags' /\ SideIdle'
        /\ Expects' <=> Expects /\ ~(take /\ proj_out.last)
    <2>1. Types /\ Flags /\ SideIdle
      BY <1>0
    <2>2. proj_out.last \in BOOLEAN /\ AggregationEdge(FALSE, gReady)
      BY <1>2, <1>4
    <2> QED BY <2>1, <2>2, AggregationStep, Zenon
  <1>7. InQuery'
    BY <1>0, <1>2, <1>6, MarkerMoves DEF InQuery
  <1>8. Types'
    <2>1. /\ mem' \in [Reader!Rows -> Row] /\ bank_rdata' \in Row
          /\ raddr_q' \in Reader!Rows
          /\ reader_busy' \in BOOLEAN /\ pending_q' \in BOOLEAN
          /\ fifo' \in Seq(Reader!RowStream)
      BY <1>0, <1>2, ReaderTypes, FifoStep
    <2> QED BY <1>3, <1>4, <1>6, <2>1 DEF Types, Reader!Rows, Reader!RowStream
  <1>9. OneMarker'
    BY <1>6, <1>7 DEF OneMarker, InQuery
  \* The query completes only when the aggregation has taken the marker.
  <1>10. ASSUME state_q' # "SCAN" PROVE Drained'
    <2>1. agg_done
      BY <1>2, <1>10 DEF FsmScan, Completed
    <2>2. ~Expects /\ ~gb_busy /\ ~cl_busy["COUNT"]
      <3>1. CASE cfg.groupby
        BY <1>0, <2>1, <3>1 DEF agg_done, Flags, Expects, GbExpects, SideIdle
      <3>2. CASE ~cfg.groupby
        BY <1>0, <2>1, <3>2 DEF agg_done, Flags, Expects, SideIdle
      <3> QED BY <3>1, <3>2
    <2>3. ~Expects'
      BY <1>6, <2>2
    <2>4. Taken'
      BY <1>7, <2>3 DEF InQuery, InReader, InFifo, InPred, InProj
    <2>5. ~cl_busy'["COUNT"] /\ ~gb_busy'
      <3>1. /\ Classic!EnginesEdge(FALSE, proj_tvalid /\ ~cfg.groupby,
                  proj_out.pass, proj_out.columns[cfg.column], proj_out.last)
            /\ GroupBy!GbEdge(FALSE, proj_tvalid /\ cfg.groupby, proj_out.pass,
                  proj_out.columns[cfg.gby_key], proj_out.columns[cfg.column],
                  proj_out.last, gReady)
        BY <1>2 DEF AggregationEdge
      <3>2. ~cl_busy'["COUNT"]
        BY <1>0, <1>4, <2>2, <3>1, ClassicStep
      <3>3. ~gb_busy'
        BY <1>0, <1>4, <2>2, <3>1, GroupByStep
      <3> QED BY <3>2, <3>3
    <2>6. \A e \in Classic!Engines : ~cl_busy'[e]
      BY <1>6, <2>5 DEF Flags
    <2>7. ~GroupBy!m_axis_tvalid'
      BY <1>6, <2>5 DEF Flags, GroupBy!m_axis_tvalid
    <2> QED BY <2>4, <2>5, <2>6, <2>7 DEF Taken, Drained
  <1> QED BY <1>6, <1>8, <1>9, <1>10 DEF IInv

\* An edge between queries, with or without a start.
LEMMA QuietStep ==
  ASSUME IInv, state_q # "SCAN", NEW start \in BOOLEAN, start => cfg' = cfg,
         NEW load, LoadTypes(load), NEW gReady, Edge(start, load, gReady)
  PROVE  IInv'
  <1>0. Types /\ Flags
    BY DEF IInv
  <1>1. /\ fifo = <<>> /\ ~pred_valid /\ ~proj_valid
        /\ ~reader_busy /\ ~gb_busy /\ \A e \in Classic!Engines : ~cl_busy[e]
    BY DEF IInv, Drained
  <1>2. /\ qstart(start) = start
        /\ state_q' = IF start THEN "SCAN" ELSE state_q
    <2>1. FsmIdle(start) \/ FsmDone(start)
      BY DEF Edge, FsmScan
    <2>2. state_q \in {"IDLE", "DONE"}
      BY <2>1 DEF FsmIdle, FsmDone
    <2> QED BY <2>1, <2>2 DEF FsmIdle, FsmDone, qstart
  <1>3. /\ Reader!ReaderEdge(start, cfg.num_rows, load, pred_s_ready)
        /\ PredReg!RegisterEdge(rd_tvalid, pred_in, pred_tready)
        /\ ProjReg!RegisterEdge(pred_tvalid, proj_in, proj_tready)
        /\ AggregationEdge(start, gReady)
    BY <1>2 DEF Edge
  <1>4. /\ fifo' = <<>> /\ ~pred_valid' /\ ~proj_valid' /\ ~proj_tvalid
        /\ proj_out.last \in BOOLEAN
    <2>1. ~rd_tvalid /\ ~push /\ ~pop
      BY <1>1 DEF rd_tvalid, Reader!m_axis_tvalid, push, pop, Reader!fifo_tvalid
    <2>2. fifo' = <<>>
      BY <1>1, <1>3, <2>1
      DEF Reader!ReaderEdge, Reader!FifoEdge, push, pop, rd_tvalid
    <2>3. /\ ~pred_tvalid /\ ~pred_valid'
          /\ DOMAIN pred_out = {"pass", "columns", "last"}
          /\ pred_out.last \in BOOLEAN
      BY <1>0, <1>1, <1>3, <2>1, PredStep
    <2>4. ~proj_tvalid /\ ~proj_valid' /\ proj_out.last \in BOOLEAN
      BY <1>0, <1>1, <1>3, <2>3, ProjStep
    <2> QED BY <2>2, <2>3, <2>4
  <1>5. /\ mem' \in [Reader!Rows -> Row] /\ bank_rdata' \in Row
        /\ raddr_q' \in Reader!Rows
        /\ reader_busy' \in BOOLEAN /\ pending_q' \in BOOLEAN
        /\ fifo' \in Seq(Reader!RowStream)
    BY <1>0, <1>3, ReaderTypes, FifoStep
  <1>6. /\ pred_valid' \in BOOLEAN /\ Held(pred_valid, pred_reg)'
        /\ proj_valid' \in BOOLEAN /\ Held(proj_valid, proj_reg)'
    <2>1. /\ pred_valid' \in BOOLEAN /\ Held(pred_valid, pred_reg)'
          /\ DOMAIN pred_out = {"pass", "columns", "last"}
          /\ pred_out.last \in BOOLEAN
      BY <1>0, <1>3, PredStep
    <2> QED BY <1>0, <1>3, <2>1, ProjStep
  <1> DEFINE last == proj_out.last
             pass == proj_out.pass
             val == proj_out.columns[cfg.column]
             key == proj_out.columns[cfg.gby_key]
             clStart == start /\ ~cfg.groupby
             gbStart == start /\ cfg.groupby
             clValid == proj_tvalid /\ ~cfg.groupby
             gbValid == proj_tvalid /\ cfg.groupby
  <1>7. /\ Classic!EnginesEdge(clStart, clValid, pass, val, last)
        /\ GroupBy!GbEdge(gbStart, gbValid, pass, key, val, last, gReady)
    BY <1>3 DEF AggregationEdge
  <1>8. ~clValid /\ ~gbValid
    BY <1>4
  <1> HIDE DEF last, pass, val, key, clValid, gbValid
  \* The classic engines start or keep still.
  <1>9. /\ cl_busy' \in [Classic!Engines -> BOOLEAN]
        /\ cl_done' \in [Classic!Engines -> BOOLEAN]
        /\ \A e \in Classic!Engines : cl_busy'[e] = cl_busy'["COUNT"]
        /\ cl_done'["COUNT"] => ~cl_busy'["COUNT"]
        /\ cl_busy'["COUNT"] <=> clStart
    <2>0. "COUNT" \in Classic!Engines
      BY DEF Classic!Engines
    <2>1. CASE clStart
      <3>1. /\ cl_busy' = [e \in Classic!Engines |-> TRUE]
            /\ cl_done' = [e \in Classic!Engines |-> FALSE]
        BY <1>7, <2>1 DEF Classic!EnginesEdge, Classic!EnginesStart
      <3> QED BY <2>0, <2>1, <3>1
    <2>2. CASE ~clStart
      <3>1. cl_busy' = cl_busy /\ cl_done' = cl_done
        BY <1>7, <1>8, <2>2 DEF Classic!EnginesEdge, Classic!engineVars
      <3> QED BY <1>0, <1>1, <2>0, <2>2, <3>1 DEF Types, Flags
    <2> QED BY <2>1, <2>2
  \* So does the GROUP BY engine.
  <1>10. /\ gb_busy' \in BOOLEAN /\ gb_done' \in BOOLEAN
         /\ row_last_q' \in BOOLEAN
         /\ gb_done' => ~gb_busy'
         /\ ~gb_busy' => ~present_hold_q'
         /\ gb_busy' <=> gbStart
         /\ gbStart => GbExpects'
    <2>0. /\ gb_busy \in BOOLEAN /\ gb_done \in BOOLEAN /\ row_last_q \in BOOLEAN
          /\ gb_done => ~gb_busy
          /\ ~gb_busy => ~present_hold_q
      BY <1>0 DEF Types, Flags
    <2>1. CASE gbStart
      <3>1. /\ gb_state' = "CLEAR" /\ gb_busy' = TRUE /\ gb_done' = FALSE
            /\ row_last_q' = row_last_q
        BY <1>7, <2>1 DEF GroupBy!GbEdge, GroupBy!GbStart, GroupBy!rowVars
      <3> QED BY <2>0, <2>1, <3>1 DEF GbExpects
    <2>2. CASE ~gbStart
      <3>1. /\ gb_busy' = gb_busy /\ gb_done' = gb_done /\ row_last_q' = row_last_q
            /\ present_hold_q' = present_hold_q
        BY <1>1, <1>7, <2>2
        DEF GroupBy!GbEdge, GroupBy!rowVars, GroupBy!presentVars
      <3> QED BY <1>1, <2>0, <2>2, <3>1
    <2> QED BY <2>1, <2>2
  <1>11. Types' /\ Flags'
    BY <1>5, <1>6, <1>9, <1>10
    DEF Types, Flags, Reader!Rows, Reader!RowStream
  <1>12. CASE start
    <2>1. reader_busy'
      BY <1>3, <1>12 DEF Reader!ReaderEdge, Reader!FsmEdge, Reader!Begin
    <2>2. FifoBefore' /\ PredBefore' /\ ProjBefore'
      BY <1>4, EmptySeq DEF FifoBefore, PredBefore, ProjBefore
    <2>3. Expects' /\ SideIdle'
      BY <1>9, <1>10, <1>12 DEF Expects, SideIdle
    <2>4. state_q' = "SCAN"
      BY <1>2, <1>12
    <2> QED BY <1>11, <2>1, <2>2, <2>3, <2>4 DEF IInv, OneMarker, InReader
  <1>13. CASE ~start
    <2>1. ~reader_busy'
      BY <1>1, <1>3, <1>13 DEF Reader!ReaderEdge, Reader!FsmEdge, Reader!fsmVars
    <2>2. ~gb_busy' /\ ~GroupBy!m_axis_tvalid'
      BY <1>10, <1>13 DEF GroupBy!m_axis_tvalid
    <2>3. \A e \in Classic!Engines : ~cl_busy'[e]
      BY <1>9, <1>13
    <2>4. Drained'
      BY <1>4, <2>1, <2>2, <2>3 DEF Drained
    <2>5. state_q' # "SCAN"
      BY <1>2, <1>13
    <2> QED BY <1>11, <2>4, <2>5 DEF IInv, OneMarker
  <1> QED BY <1>12, <1>13

\* The reset state, at the beginning and after an abort.
LEMMA InitIInv == HostInit => IInv
  <1> SUFFICES ASSUME HostInit PROVE IInv
    OBVIOUS
  <1>1. /\ mem \in [Reader!Rows -> Row] /\ bank_rdata \in Row
        /\ raddr_q \in Reader!Rows
    BY TableAssumption
    DEF HostInit, Init, Reader!ReaderInit, Reader!Rows
  <1>2. fifo = <<>> /\ fifo \in Seq(Reader!RowStream)
    BY EmptySeq DEF HostInit, Init, Reader!ReaderInit
  <1>3. /\ reader_busy = FALSE /\ pending_q = FALSE
        /\ pred_valid = FALSE /\ proj_valid = FALSE
        /\ cl_busy = [e \in Classic!Engines |-> FALSE]
        /\ cl_done = [e \in Classic!Engines |-> FALSE]
        /\ gb_busy = FALSE /\ gb_done = FALSE /\ row_last_q = FALSE
        /\ present_hold_q = FALSE /\ state_q = "IDLE"
    BY DEF HostInit, Init, Reader!ReaderInit, PredReg!RegisterInit,
           ProjReg!RegisterInit, Classic!EnginesInit, GroupBy!GbInit
  <1>4. "COUNT" \in Classic!Engines
    BY DEF Classic!Engines
  <1>5. Types /\ Flags
    BY <1>1, <1>2, <1>3, <1>4 DEF Types, Flags, Held
  <1>6. Drained
    BY <1>2, <1>3 DEF Drained, GroupBy!m_axis_tvalid
  <1> QED BY <1>3, <1>5, <1>6 DEF IInv, OneMarker

LEMMA AbortStep == IInv /\ CoreReset => IInv'
  <1> SUFFICES ASSUME IInv, CoreReset PROVE IInv'
    OBVIOUS
  <1>1. /\ mem' \in [Reader!Rows -> Row] /\ bank_rdata' \in Row
        /\ raddr_q' \in Reader!Rows
    <2>1. mem' = [a \in Reader!Rows |-> mem[a]] /\ bank_rdata' = mem[raddr_q]
      BY DEF CoreReset, Reader!ReaderReset, Reader!BankEdge, NoLoad
    <2>2. raddr_q' = 0
      BY DEF CoreReset, Reader!ReaderReset
    <2> QED BY <2>1, <2>2, TableAssumption DEF IInv, Types, Reader!Rows
  <1>2. fifo' = <<>> /\ fifo' \in Seq(Reader!RowStream)
    BY EmptySeq DEF CoreReset, Reader!ReaderReset, Reader!Fifo!Discard
  <1>3. /\ reader_busy' = FALSE /\ pending_q' = FALSE
        /\ pred_valid' = FALSE /\ proj_valid' = FALSE
        /\ cl_busy' = [e \in Classic!Engines |-> FALSE]
        /\ cl_done' = [e \in Classic!Engines |-> FALSE]
        /\ gb_busy' = FALSE /\ gb_done' = FALSE /\ row_last_q' = FALSE
        /\ present_hold_q' = FALSE /\ state_q' = "IDLE"
    BY DEF CoreReset, Reader!ReaderReset, PredReg!RegisterReset,
           ProjReg!RegisterReset, Classic!EnginesReset, GroupBy!GbReset
  <1>4. "COUNT" \in Classic!Engines
    BY DEF Classic!Engines
  <1>5. Types' /\ Flags'
    BY <1>1, <1>2, <1>3, <1>4 DEF Types, Flags, Held, Reader!Rows, Reader!RowStream
  <1>6. Drained'
    BY <1>2, <1>3 DEF Drained, GroupBy!m_axis_tvalid
  <1> QED BY <1>3, <1>5, <1>6 DEF IInv, OneMarker

LEMMA NextIInv == IInv /\ [Next]_vars => IInv'
  <1> SUFFICES ASSUME IInv, [Next]_vars PROVE IInv'
    OBVIOUS
  <1>1. LoadTypes(NoLoad) /\ \A load \in Loads : LoadTypes(load)
    BY TableAssumption DEF LoadTypes, NoLoad
  <1>2. CASE Abort
    BY <1>2, AbortStep DEF Abort
  <1>3. ASSUME NEW start \in BOOLEAN, NEW gReady, Edge(start, NoLoad, gReady),
               UNCHANGED cfg
        PROVE  IInv'
    BY <1>1, <1>3, ScanStep, QuietStep
  <1>4. CASE Load
    <2> PICK load \in Loads : Edge(FALSE, load, FALSE)
      BY <1>4 DEF Load
    <2>1. state_q # "SCAN" /\ LoadTypes(load)
      BY <1>1, <1>4 DEF Load
    <2> QED BY <2>1, QuietStep
  <1>5. CASE Configure
    BY <1>1, <1>5, QuietStep DEF Configure
  <1>6. CASE UNCHANGED vars
    BY <1>6 DEF vars, readerVars, skidVars, classicVars, gbVars, fsmVars, IInv,
         Types, Held, Flags, OneMarker, InReader, InFifo, InPred, InProj, Taken,
         FifoBefore, FifoEnds, PredBefore, ProjBefore, Expects, GbExpects,
         SideIdle, Drained, Reader!Rows, Reader!RowStream, GroupBy!m_axis_tvalid
  <1> QED BY <1>2, <1>3, <1>4, <1>5, <1>6 DEF Next, Start, Tick

-----------------------------------------------------------------------------
(* The theorem *)

\* "Guarantees no stale rows in the reader FIFO when a new query starts"
\* (scheduler.sv): when a query is done, and whenever the core is idle, no
\* beat is left in the FIFO or a skid and no stage works, for every table,
\* configuration, FIFO depth and hash, however the group consumer stalls and
\* whatever was aborted before.
THEOREM NothingLeftBehind == Spec => []Drained
  <1>1. IInv => Drained
    BY DEF IInv, Drained
  <1> QED BY InitIInv, NextIInv, <1>1, PTL DEF Spec

-----------------------------------------------------------------------------
(* The aggregate of the first n rows of a sequence rs of rows [pass, key,  *)
(* val], as a value: QueryService's answer is the case of all the rows.    *)

Passed(rs, n) == {r \in 0 .. n - 1 : rs[r].pass}
KeysOf(rs, n) == {rs[r].key : r \in Passed(rs, n)}

\* The keys that find room: when their first row comes, fewer than BUCKETS
\* others are known.
FindsRoom(rs, r) == Cardinality(KeysOf(rs, r) \ {rs[r].key}) < BUCKETS
Kept(rs, n) == {rs[r].key : r \in {s \in Passed(rs, n) : FindsRoom(rs, s)}}

RowsOf(rs, n, k) == {r \in Passed(rs, n) : rs[r].key = k}
ValsOf(rs, S) == {rs[r].val : r \in S}
SumOf(rs, S) == MapThenSumSet(LAMBDA r : rs[r].val, S)

GroupFrom(rs, S, k) ==
  [key |-> k, count |-> Cardinality(S), sum |-> Service!Clip(SumOf(rs, S)),
   min |-> Min(ValsOf(rs, S)), max |-> Max(ValsOf(rs, S))]
Table(rs, n) == [k \in Kept(rs, n) |-> GroupFrom(rs, RowsOf(rs, n, k), k)]

\* While there is room every key has its group; once there is none, a key
\* without a group will not get one.
RoomLeft(rs, n) ==
  \/ Cardinality(Kept(rs, n)) < BUCKETS /\ Kept(rs, n) = KeysOf(rs, n)
  \/ Cardinality(Kept(rs, n)) = BUCKETS /\ Kept(rs, n) \subseteq KeysOf(rs, n)

-----------------------------------------------------------------------------
(* Where the rows of a query are *)

\* The rows of the table as the configured query sees them.
Seen ==
  [r \in 0 .. NUM_ROWS - 1 |->
     [pass |-> Where(cfg.pred, mem[r]),
      key |-> Service!KeyOf(r), val |-> Service!Val(r)]]

\* How many rows have left the reader, the FIFO, the predicate stage and the
\* projection stage.
Bit(b) == IF b THEN 1 ELSE 0
Pushed == IF reader_busy THEN raddr_q ELSE Service!ScanLength
AtPred == Pushed - Len(fifo)
AtProj == AtPred - Bit(pred_valid)
Consumed == AtProj - Bit(proj_valid)

\* A row in the form that the reader, the predicate stage and the projection
\* stage give it.
RawBeat(r) ==
  [pass |-> TRUE, columns |-> mem[r], last |-> r + 1 = Service!ScanLength]
PredBeat(r) == [RawBeat(r) EXCEPT !.pass = Where(cfg.pred, mem[r])]
ProjBeat(r) ==
  [PredBeat(r) EXCEPT !.columns = [c \in Cols |-> Service!Cell(r, c)]]

\* The reader is within the scan, and fresh data is that of its row.
ReaderAt ==
  reader_busy =>
    /\ raddr_q < Service!ScanLength
    /\ pending_q => ret_row_q = raddr_q /\ bank_rdata = mem[raddr_q]

\* Every row between the reader and the aggregation is in its place.
InFlight ==
  /\ \A i \in 1 .. Len(fifo) : fifo[i] = RawBeat(AtPred + i - 1)
  /\ pred_valid => pred_reg = PredBeat(AtProj)
  /\ proj_valid => proj_reg = ProjBeat(Consumed)
  /\ Consumed >= 0
  /\ Expects <=> Consumed < Service!ScanLength

\* The classic engines hold the aggregates of the first n rows.
ClassicAre(rs, n) ==
  LET S == Passed(rs, n)
      V == ValsOf(rs, S)
      sum == SumOf(rs, S)
  IN  /\ acc_q["COUNT"] = Cardinality(S)
      /\ acc_q["SUM"] = Service!Clip(sum) /\ acc_q["AVG"] = Service!Clip(sum)
      /\ of_q["SUM"] \in BOOLEAN /\ (of_q["SUM"] <=> sum > AccMax)
      /\ acc_q["MIN"] \in V \cup {ColMax} /\ \A v \in V : acc_q["MIN"] <= v
      /\ acc_q["MAX"] \in V \cup {0} /\ \A v \in V : v <= acc_q["MAX"]
      /\ cl_done["COUNT"] => \A e \in Classic!Engines : res_q[e] = acc_q[e]
ClassicFolds == ClassicAre(Seen, Consumed)

\* The GROUP BY engine as GroupBySystem closes it: its rows are those of the
\* scan, and the groups of its history are the table of the rows it took.
GB == INSTANCE GroupByProofs
  WITH GbAccMax <- AccMax, Keys <- 0 .. ColMax, Vals <- 0 .. ColMax,
       RowLimit <- NUM_ROWS, raddr_q <- gb_raddr, state_q <- gb_state,
       busy_q <- gb_busy, done_q <- gb_done, sent <- Consumed, rows <- <<>>,
       groups <- Table(Seen, Consumed)

GroupFolds == GB!IInv /\ RoomLeft(Seen, Consumed)

\* The registers of the GROUP BY engine are in their ranges, also when no
\* query uses it.
EngineTypes ==
  /\ GB!RamTypes /\ GB!AddressTypes /\ GB!ControlTypes /\ GB!FlagTypes
  /\ GB!DataTypes

\* The invariant that carries the refinement.
Scanning ==
  ReaderAt /\ InFlight /\ IF cfg.groupby THEN GroupFolds ELSE ClassicFolds
ServiceInv ==
  /\ IInv
  /\ cfg \in Configs
  /\ ~reader_busy => raddr_q = 0
  /\ state_q = "IDLE" => error_q = "NONE"
  /\ EngineTypes
  /\ state_q = "SCAN" => Scanning

-----------------------------------------------------------------------------
(* The aggregate of one row more *)

\* The operators that the engine's module and the service name for themselves.
LEMMA CoreAssumed ==
  /\ BUCKETS \in Nat \ {0, 1}
  /\ AccMax \in Nat
  /\ 0 .. ColMax \subseteq Nat /\ 0 .. ColMax \subseteq 0 .. AccMax
  /\ \A k \in 0 .. ColMax : hash_key(k) \in GB!Bucket
  /\ RamPowerUp \subseteq GB!BucketWord
  /\ NUM_ROWS \in Nat \ {0} /\ NUM_ROWS <= AccMax
  BY TableAssumption, WidthsAssumption
  DEF GB!Bucket, GB!BucketWord, GB!Acc, GroupBy!Bucket

LEMMA SameSize == \A S : GB!Cardinality(S) = Cardinality(S)
  BY DEF GB!Cardinality, Cardinality

\* Rows as the aggregation sees them.
SeenRow == [pass : BOOLEAN, key : 0 .. ColMax, val : 0 .. ColMax]
SeenRows == [0 .. NUM_ROWS - 1 -> SeenRow]

LEMMA RowsTyped ==
  ASSUME NEW rs \in SeenRows, NEW n \in 0 .. NUM_ROWS, NEW r \in 0 .. n - 1
  PROVE  /\ r \in 0 .. NUM_ROWS - 1 /\ rs[r].pass \in BOOLEAN
         /\ rs[r].key \in 0 .. ColMax /\ rs[r].val \in 0 .. ColMax
  <1>1. r \in 0 .. NUM_ROWS - 1
    BY TableAssumption
  <1> QED BY <1>1 DEF SeenRows, SeenRow

\* The least and the largest of a set of column values.
LEMMA MinIs ==
  ASSUME NEW S, S \subseteq Nat, NEW m \in S, \A v \in S : m <= v
  PROVE  Min(S) = m
  <1>1. \A x \in S : (\A y \in S : x <= y) => x = m
    OBVIOUS
  <1> QED BY <1>1 DEF Min

LEMMA MaxIs ==
  ASSUME NEW S, S \subseteq Nat, NEW m \in S, \A v \in S : v <= m
  PROVE  Max(S) = m
  <1>1. \A x \in S : (\A y \in S : x >= y) => x = m
    OBVIOUS
  <1>2. \A y \in S : m >= y
    OBVIOUS
  <1> QED BY <1>1, <1>2 DEF Max

LEMMA Extrema ==
  ASSUME NEW S, S \subseteq 0 .. ColMax, S # {}
  PROVE  /\ Min(S) \in S /\ \A v \in S : Min(S) <= v
         /\ Max(S) \in S /\ \A v \in S : v <= Max(S)
  <1>0. ColMax \in Nat /\ S \subseteq Nat
    BY TableAssumption
  <1>1. PICK m \in S : \A v \in S : m <= v
    BY <1>0, GB!LeastNat, CoreAssumed
  <1> DEFINE T == {ColMax - v : v \in S}
  <1>2. T \subseteq Nat /\ T # {}
    BY <1>0
  <1>3. PICK d \in T : \A e \in T : d <= e
    BY <1>2, GB!LeastNat, CoreAssumed
  <1>4. PICK x \in S : d = ColMax - x
    BY <1>3
  <1>5. ASSUME NEW v \in S PROVE v <= x
    <2>1. ColMax - x <= ColMax - v
      BY <1>3, <1>4
    <2>2. ColMax \in Nat /\ x \in Nat /\ v \in Nat
      BY <1>0
    <2> QED BY <2>1, <2>2
  <1>6. Min(S) = m /\ Max(S) = x
    BY <1>0, <1>1, <1>5, MinIs, MaxIs
  <1> QED BY <1>1, <1>5, <1>6

\* The sum over a set of rows grows by the value of a row that joins it.
LEMMA SumOfNone == \A rs : SumOf(rs, {}) = 0
  <1>1. \A rs : SumOf(rs, {}) = GB!Total(rs, {})
    BY DEF SumOf, GB!Total, MapThenSumSet, MapThenFoldSet, GB!MapThenSumSet,
           GB!MapThenFoldSet
  <1> QED BY <1>1, GB!TotalOfNone, CoreAssumed

LEMMA SumOfMore ==
  ASSUME NEW rs, NEW S, IsFiniteSet(S), NEW a, a \notin S,
         \A i \in S : rs[i].val \in Nat, rs[a].val \in Nat
  PROVE  /\ SumOf(rs, S) \in Nat
         /\ SumOf(rs, S \cup {a}) = SumOf(rs, S) + rs[a].val
  <1>1. \A R : SumOf(rs, R) = GB!Total(rs, R)
    BY DEF SumOf, GB!Total, MapThenSumSet, MapThenFoldSet, GB!MapThenSumSet,
           GB!MapThenFoldSet
  <1>2. GB!IsFiniteSet(S)
    BY DEF GB!IsFiniteSet, IsFiniteSet
  <1>3. GB!NatValues(rs, S) /\ GB!SameValues(rs, rs, S)
    BY DEF GB!NatValues, GB!SameValues
  <1>4. /\ GB!Total(rs, S) \in Nat
        /\ GB!Total(rs, S \cup {a}) = GB!Total(rs, S) + rs[a].val
    BY <1>2, <1>3, GB!TotalOfMore, CoreAssumed
  <1> QED BY <1>1, <1>4

\* The rows, keys and kept keys after one row more.
LEMMA PassedFinite ==
  ASSUME NEW rs \in SeenRows, NEW n \in 0 .. NUM_ROWS
  PROVE  /\ IsFiniteSet(Passed(rs, n)) /\ Passed(rs, n) \subseteq 0 .. n - 1
         /\ \A r \in Passed(rs, n) : rs[r].val \in 0 .. ColMax /\ rs[r].val \in Nat
         /\ IsFiniteSet(KeysOf(rs, n)) /\ KeysOf(rs, n) \subseteq 0 .. ColMax
         /\ Kept(rs, n) \subseteq KeysOf(rs, n)
         /\ Cardinality(Passed(rs, n)) \in 0 .. n
  <1>0. n \in Nat /\ NUM_ROWS \in Nat /\ ColMax \in Nat
    BY TableAssumption
  <1>1. IsFiniteSet(0 .. n - 1) /\ Cardinality(0 .. n - 1) = n
    BY <1>0, FS_Interval
  <1>2. IsFiniteSet(Passed(rs, n)) /\ Passed(rs, n) \subseteq 0 .. n - 1
    BY <1>1, FS_Subset DEF Passed
  <1>3. Cardinality(Passed(rs, n)) \in 0 .. n
    BY <1>0, <1>1, <1>2, FS_Subset, FS_CardinalityType
  <1>4. \A r \in Passed(rs, n) : /\ rs[r].key \in 0 .. ColMax
                                 /\ rs[r].val \in 0 .. ColMax
    BY <1>2, RowsTyped
  <1>5. KeysOf(rs, n) \subseteq 0 .. ColMax
    BY <1>4 DEF KeysOf
  <1>6. IsFiniteSet(KeysOf(rs, n))
    <2>1. IsFiniteSet(0 .. ColMax)
      BY <1>0, FS_Interval
    <2> QED BY <2>1, <1>5, FS_Subset
  <1>7. Kept(rs, n) \subseteq KeysOf(rs, n)
    BY DEF Kept, KeysOf
  <1> QED BY <1>2, <1>3, <1>4, <1>5, <1>6, <1>7

LEMMA RowAdded ==
  ASSUME NEW rs \in SeenRows, NEW n \in 0 .. NUM_ROWS - 1
  PROVE  /\ n \notin Passed(rs, n)
         /\ Passed(rs, n + 1) = Passed(rs, n) \cup (IF rs[n].pass THEN {n} ELSE {})
         /\ \A k : RowsOf(rs, n + 1, k) =
              RowsOf(rs, n, k) \cup (IF rs[n].pass /\ rs[n].key = k THEN {n} ELSE {})
         /\ KeysOf(rs, n + 1) =
              KeysOf(rs, n) \cup (IF rs[n].pass THEN {rs[n].key} ELSE {})
         /\ Kept(rs, n + 1) =
              Kept(rs, n) \cup
                (IF rs[n].pass /\ FindsRoom(rs, n) THEN {rs[n].key} ELSE {})
  <1>1. /\ n \in Nat /\ 0 .. (n + 1) - 1 = (0 .. n - 1) \cup {n}
        /\ n \notin 0 .. n - 1
    BY TableAssumption
  <1>2. /\ n \notin Passed(rs, n)
        /\ Passed(rs, n + 1) = Passed(rs, n) \cup (IF rs[n].pass THEN {n} ELSE {})
    BY <1>1 DEF Passed
  <1>3. \A k : RowsOf(rs, n + 1, k) =
          RowsOf(rs, n, k) \cup (IF rs[n].pass /\ rs[n].key = k THEN {n} ELSE {})
    BY <1>2 DEF RowsOf
  <1>4. KeysOf(rs, n + 1) =
          KeysOf(rs, n) \cup (IF rs[n].pass THEN {rs[n].key} ELSE {})
    BY <1>2 DEF KeysOf
  <1>5. Kept(rs, n + 1) =
              Kept(rs, n) \cup
                (IF rs[n].pass /\ FindsRoom(rs, n) THEN {rs[n].key} ELSE {})
    <2> HIDE DEF Passed, FindsRoom
    <2>1. {s \in Passed(rs, n + 1) : FindsRoom(rs, s)} =
            {s \in Passed(rs, n) : FindsRoom(rs, s)} \cup
              (IF rs[n].pass /\ FindsRoom(rs, n) THEN {n} ELSE {})
      BY <1>2
    <2> QED BY <2>1 DEF Kept
  <1> QED BY <1>2, <1>3, <1>4, <1>5

\* A row joins the rows of its group, or is the first of them.
LEMMA GroupMore ==
  ASSUME NEW rs \in SeenRows, NEW S, IsFiniteSet(S), S \subseteq 0 .. NUM_ROWS - 1,
         NEW n \in 0 .. NUM_ROWS - 1, n \notin S, NEW k
  PROVE  /\ S # {} => GroupFrom(rs, S \cup {n}, k) =
                        GB!Joined(GroupFrom(rs, S, k), rs[n].val)
         /\ GroupFrom(rs, {n}, k) = GB!Opened(k, rs[n].val)
  <1> DEFINE v == rs[n].val
             V == ValsOf(rs, S)
             t == SumOf(rs, S)
  <1>0. /\ AccMax \in Nat /\ ColMax \in Nat /\ ColMax <= AccMax
        /\ \A r \in 0 .. NUM_ROWS - 1 : rs[r].val \in 0 .. ColMax /\ rs[r].val \in Nat
        /\ \A m : GB!Clip(m) = Service!Clip(m)
    BY TableAssumption, WidthsAssumption
    DEF SeenRows, SeenRow, GB!Clip, Service!Clip
  <1>1. /\ t \in Nat /\ SumOf(rs, S \cup {n}) = t + v
        /\ Cardinality(S) \in Nat /\ Cardinality(S \cup {n}) = Cardinality(S) + 1
    <2>1. (\A i \in S : rs[i].val \in Nat) /\ rs[n].val \in Nat
      BY <1>0
    <2> QED BY <2>1, SumOfMore, FS_AddElement, FS_CardinalityType
  <1>2. SumOf(rs, {n}) = v /\ Cardinality({n}) = 1 /\ ValsOf(rs, {n}) = {v}
    <2>1. /\ IsFiniteSet({}) /\ n \notin {} /\ \A i \in {} : rs[i].val \in Nat
          /\ rs[n].val \in Nat
      BY <1>0, FS_EmptySet
    <2>2. SumOf(rs, {} \cup {n}) = SumOf(rs, {}) + rs[n].val
      BY <2>1, SumOfMore
    <2>3. {} \cup {n} = {n}
      OBVIOUS
    <2>4. SumOf(rs, {n}) = 0 + rs[n].val
      BY <2>2, <2>3, SumOfNone
    <2>5. SumOf(rs, {n}) = v
      BY <2>1, <2>4
    <2>6. Cardinality({n}) = 1
      BY FS_Singleton
    <2> QED BY <2>5, <2>6 DEF ValsOf
  <1>3. /\ v \in 0 .. ColMax /\ v \in Nat /\ V \subseteq 0 .. ColMax
        /\ ValsOf(rs, S \cup {n}) = V \cup {v}
    BY <1>0 DEF ValsOf
  <1> HIDE DEF v, V, t
  <1>4. GroupFrom(rs, {n}, k) = GB!Opened(k, v)
    <2>1. Min({v}) = v /\ Max({v}) = v
      BY <1>3, MinIs, MaxIs
    <2>2. Service!Clip(v) = v
      BY <1>0, <1>3 DEF Service!Clip
    <2> QED BY <1>2, <2>1, <2>2 DEF GroupFrom, GB!Opened
  <1>5. ASSUME S # {}
        PROVE  GroupFrom(rs, S \cup {n}, k) = GB!Joined(GroupFrom(rs, S, k), v)
    <2>1. V # {}
      BY <1>5 DEF V, ValsOf
    <2>2. /\ Min(V) \in V /\ \A x \in V : Min(V) <= x
          /\ Max(V) \in V /\ \A x \in V : x <= Max(V)
      BY <1>3, <2>1, Extrema
    <2> DEFINE lo == IF v < Min(V) THEN v ELSE Min(V)
               hi == IF v > Max(V) THEN v ELSE Max(V)
    <2>3. Min(V) \in Nat /\ Max(V) \in Nat /\ V \cup {v} \subseteq Nat
      <3>1. V \cup {v} \subseteq 0 .. ColMax /\ 0 .. ColMax \subseteq Nat
        BY <1>0, <1>3
      <3>2. V \cup {v} \subseteq Nat
        BY <3>1, Zenon
      <3>3. Min(V) \in V \cup {v} /\ Max(V) \in V \cup {v}
        BY <2>2, Zenon
      <3> QED BY <3>2, <3>3, Zenon
    <2>4. /\ lo \in V \cup {v} /\ \A x \in V \cup {v} : lo <= x
          /\ hi \in V \cup {v} /\ \A x \in V \cup {v} : x <= hi
      BY <1>3, <2>2, <2>3
    <2> HIDE DEF lo, hi
    <2>5. Min(V \cup {v}) = lo /\ Max(V \cup {v}) = hi
      BY <2>3, <2>4, MinIs, MaxIs
    <2>6. Service!Clip(t + v) = Service!Clip(Service!Clip(t) + v)
      BY <1>0, <1>1, <1>3 DEF Service!Clip
    <2>7. GroupFrom(rs, S \cup {n}, k) =
            [key |-> k, count |-> Cardinality(S) + 1,
             sum |-> Service!Clip(Service!Clip(t) + v), min |-> lo, max |-> hi]
      BY <1>1, <1>3, <2>5, <2>6 DEF GroupFrom, v
    <2>8. GroupFrom(rs, S, k) =
            [key |-> k, count |-> Cardinality(S), sum |-> Service!Clip(t),
             min |-> Min(V), max |-> Max(V)]
      BY DEF GroupFrom, t, V
    <2> QED BY <1>0, <2>7, <2>8 DEF GB!Joined, lo, hi
  <1> QED BY <1>4, <1>5 DEF v

\* A row more in the table of groups: it joins its group, opens one while
\* there is room, or is dropped, as the engine absorbs it.
LEMMA TableMore ==
  ASSUME NEW rs \in SeenRows, NEW n \in 0 .. NUM_ROWS - 1, RoomLeft(rs, n)
  PROVE  /\ RoomLeft(rs, n + 1)
         /\ Table(rs, n + 1) =
              IF rs[n].pass THEN GB!Absorbed(Table(rs, n), rs[n].key, rs[n].val)
              ELSE Table(rs, n)
  <1> DEFINE k0 == rs[n].key
             v0 == rs[n].val
             D == Kept(rs, n)
             K == KeysOf(rs, n)
             R(k) == RowsOf(rs, n, k)
  <1>0. n \in 0 .. NUM_ROWS /\ n \in Nat /\ BUCKETS \in Nat
    BY TableAssumption, WidthsAssumption
  <1>1. /\ n \notin Passed(rs, n) /\ IsFiniteSet(Passed(rs, n))
        /\ Passed(rs, n) \subseteq 0 .. NUM_ROWS - 1
        /\ IsFiniteSet(K) /\ D \subseteq K
    <2>1. n \notin Passed(rs, n)
      BY RowAdded
    <2>2. /\ IsFiniteSet(Passed(rs, n)) /\ Passed(rs, n) \subseteq 0 .. n - 1
          /\ IsFiniteSet(K) /\ D \subseteq K
      BY <1>0, PassedFinite
    <2>3. 0 .. n - 1 \subseteq 0 .. NUM_ROWS - 1
      BY TableAssumption
    <2> QED BY <2>1, <2>2, <2>3
  <1>2. /\ \A k : RowsOf(rs, n + 1, k) =
              R(k) \cup (IF rs[n].pass /\ k0 = k THEN {n} ELSE {})
        /\ KeysOf(rs, n + 1) = K \cup (IF rs[n].pass THEN {k0} ELSE {})
        /\ Kept(rs, n + 1) =
             D \cup (IF rs[n].pass /\ FindsRoom(rs, n) THEN {k0} ELSE {})
    BY RowAdded
  <1>3. FindsRoom(rs, n) <=> Cardinality(K \ {k0}) < BUCKETS
    BY DEF FindsRoom
  <1>4. /\ \A k : IsFiniteSet(R(k)) /\ R(k) \subseteq 0 .. NUM_ROWS - 1 /\ n \notin R(k)
        /\ \A k : R(k) # {} <=> k \in K
    <2>1. \A k : R(k) \subseteq Passed(rs, n)
      BY DEF RowsOf
    <2>2. \A k : R(k) # {} <=> k \in K
      BY DEF RowsOf, KeysOf
    <2> QED BY <2>1, <2>2, <1>1, FS_Subset
  <1>5. /\ IsFiniteSet(D) /\ Cardinality(D) \in Nat /\ Cardinality(K) \in Nat
    BY <1>1, FS_Subset, FS_CardinalityType
  <1>6. /\ Table(rs, n) = [k \in D |-> GroupFrom(rs, R(k), k)]
        /\ Table(rs, n + 1) = [k \in Kept(rs, n + 1) |->
                                 GroupFrom(rs, RowsOf(rs, n + 1, k), k)]
        /\ DOMAIN Table(rs, n) = D
    BY DEF Table
  <1>7. \/ Cardinality(D) < BUCKETS /\ D = K
        \/ Cardinality(D) = BUCKETS /\ D \subseteq K
    BY DEF RoomLeft
  <1>8. RoomLeft(rs, n + 1) <=>
          \/ /\ Cardinality(Kept(rs, n + 1)) < BUCKETS
             /\ Kept(rs, n + 1) = KeysOf(rs, n + 1)
          \/ /\ Cardinality(Kept(rs, n + 1)) = BUCKETS
             /\ Kept(rs, n + 1) \subseteq KeysOf(rs, n + 1)
    BY DEF RoomLeft
  <1>9. /\ \A k : R(k) # {} => GroupFrom(rs, R(k) \cup {n}, k) =
                                 GB!Joined(GroupFrom(rs, R(k), k), v0)
        /\ GroupFrom(rs, {n}, k0) = GB!Opened(k0, v0)
    BY <1>4, GroupMore
  <1>10. /\ \A d : GB!Absorbed(Table(rs, n), d, v0) =
             IF d \in D THEN [Table(rs, n) EXCEPT ![d] = GB!Joined(@, v0)]
             ELSE IF Cardinality(D) < BUCKETS
             THEN [k \in D \cup {d} |->
                     IF k = d THEN GB!Opened(d, v0) ELSE Table(rs, n)[k]]
             ELSE Table(rs, n)
    BY <1>6, SameSize DEF GB!Absorbed
  <1> HIDE DEF D, K, R, k0, v0
  <1>11. CASE ~rs[n].pass
    <2>1. /\ KeysOf(rs, n + 1) = K /\ Kept(rs, n + 1) = D
          /\ \A k : RowsOf(rs, n + 1, k) = R(k)
      BY <1>2, <1>11
    <2> QED BY <1>6, <1>7, <1>8, <1>11, <2>1
  <1>12. CASE rs[n].pass /\ k0 \in D
    <2>1. KeysOf(rs, n + 1) = K /\ Kept(rs, n + 1) = D
      BY <1>1, <1>2, <1>12
    <2>2. RoomLeft(rs, n + 1)
      BY <1>7, <1>8, <2>1
    <2>3. \A k \in D : GroupFrom(rs, RowsOf(rs, n + 1, k), k) =
            IF k = k0 THEN GB!Joined(GroupFrom(rs, R(k), k), v0)
            ELSE GroupFrom(rs, R(k), k)
      <3>1. \A k \in D : k # k0 => RowsOf(rs, n + 1, k) = R(k)
        BY <1>2
      <3>2. RowsOf(rs, n + 1, k0) = R(k0) \cup {n} /\ R(k0) # {}
        BY <1>1, <1>2, <1>4, <1>12
      <3>3. GroupFrom(rs, RowsOf(rs, n + 1, k0), k0) =
              GB!Joined(GroupFrom(rs, R(k0), k0), v0)
        BY <1>9, <3>2
      <3> QED BY <3>1, <3>3
    <2>4. Table(rs, n + 1) = [Table(rs, n) EXCEPT ![k0] = GB!Joined(@, v0)]
      BY <1>6, <1>12, <2>1, <2>3
    <2> QED BY <1>10, <1>12, <2>2, <2>4 DEF k0, v0
  <1>13. CASE rs[n].pass /\ k0 \notin D /\ Cardinality(D) < BUCKETS
    <2>1. D = K /\ K \ {k0} = D /\ R(k0) = {}
      BY <1>4, <1>5, <1>7, <1>13
    <2>2. KeysOf(rs, n + 1) = D \cup {k0} /\ Kept(rs, n + 1) = D \cup {k0}
      BY <1>2, <1>3, <1>13, <2>1
    <2>3. Cardinality(D \cup {k0}) = Cardinality(D) + 1
      BY <1>5, <1>13, FS_AddElement
    <2>4. RoomLeft(rs, n + 1)
      <3> DEFINE m == Cardinality(D \cup {k0})
      <3>1. m < BUCKETS \/ m = BUCKETS
        BY <1>0, <1>5, <1>13, <2>3
      <3> QED BY <1>8, <2>2, <3>1
    <2>5. \A k \in D : GroupFrom(rs, RowsOf(rs, n + 1, k), k) = Table(rs, n)[k]
      <3>1. \A k \in D : RowsOf(rs, n + 1, k) = R(k)
        BY <1>2, <1>13
      <3> QED BY <3>1, <1>6
    <2>6. GroupFrom(rs, RowsOf(rs, n + 1, k0), k0) = GB!Opened(k0, v0)
      <3>1. RowsOf(rs, n + 1, k0) = {n}
        BY <1>2, <1>13, <2>1
      <3> QED BY <3>1, <1>9
    <2>7. Table(rs, n + 1) = [k \in D \cup {k0} |->
              IF k = k0 THEN GB!Opened(k0, v0) ELSE Table(rs, n)[k]]
      <3>1. \A k \in D \cup {k0} : GroupFrom(rs, RowsOf(rs, n + 1, k), k) =
              IF k = k0 THEN GB!Opened(k0, v0) ELSE Table(rs, n)[k]
        BY <2>5, <2>6, <1>13
      <3> QED BY <1>6, <2>2, <3>1
    <2> QED BY <1>10, <1>13, <2>4, <2>7 DEF k0, v0
  <1>14. CASE rs[n].pass /\ k0 \notin D /\ ~(Cardinality(D) < BUCKETS)
    <2>1. Cardinality(D) = BUCKETS
      BY <1>7, <1>14
    <2>2. ~FindsRoom(rs, n)
      <3>1. D \subseteq K \ {k0} /\ IsFiniteSet(K \ {k0})
        BY <1>1, <1>14, FS_Subset
      <3>2. Cardinality(D) <= Cardinality(K \ {k0}) /\ Cardinality(K \ {k0}) \in Nat
        BY <3>1, FS_Subset, FS_CardinalityType
      <3> QED BY <1>0, <1>3, <2>1, <3>2
    <2>3. Kept(rs, n + 1) = D /\ D \subseteq KeysOf(rs, n + 1)
      BY <1>1, <1>2, <2>2
    <2>4. \A k \in D : RowsOf(rs, n + 1, k) = R(k)
      BY <1>2, <1>14
    <2>5. Table(rs, n + 1) = Table(rs, n)
      BY <1>6, <2>3, <2>4
    <2> QED BY <1>8, <1>10, <1>14, <2>1, <2>3, <2>5 DEF k0, v0
  <1> QED BY <1>11, <1>12, <1>13, <1>14

\* Before the first row.
LEMMA TableOfNone ==
  ASSUME NEW rs
  PROVE  /\ Passed(rs, 0) = {} /\ Table(rs, 0) = <<>> /\ RoomLeft(rs, 0)
  <1>1. Passed(rs, 0) = {}
    BY DEF Passed
  <1>2. KeysOf(rs, 0) = {} /\ Kept(rs, 0) = {}
    BY <1>1 DEF KeysOf, Kept
  <1>3. Table(rs, 0) = <<>>
    BY <1>2 DEF Table
  <1>4. Cardinality({}) = 0 /\ 0 < BUCKETS
    BY FS_EmptySet, WidthsAssumption
  <1>5. RoomLeft(rs, 0)
    BY <1>2, <1>4 DEF RoomLeft
  <1> QED BY <1>1, <1>3, <1>5

-----------------------------------------------------------------------------
(* The fold over the predicate slots computes the WHERE clause *)

Slot == [enable : BOOLEAN, op : STRING, combine : {"AND", "OR"}, column : Cols,
         imm : 0 .. ColMax]

\* The clause that the first n slots make up.
EnabledTo(slots, n) == {i \in 1 .. n : slots[i].enable}
WhereTo(slots, columns, n) ==
  LET E == EnabledTo(slots, n)
      opens(i) == slots[i].combine = "OR" \/ \A j \in E : i <= j
  IN  E # {} =>
        \E i \in E :
          /\ opens(i) /\ slot_result(slots[i], columns)
          /\ \A j \in E : j > i /\ slots[j].combine = "AND"
                            => slot_result(slots[j], columns)

\* f is the fold of PassBit.
FoldsSlots(f, slots, columns) ==
  f = [i \in 0 .. Len(slots) |->
        IF i = 0 THEN [found |-> FALSE, pass |-> TRUE]
        ELSE LET before == f[i - 1]
                 here == slot_result(slots[i], columns)
             IN  CASE ~slots[i].enable -> before
                   [] slots[i].enable /\ ~before.found ->
                        [found |-> TRUE, pass |-> here]
                   [] slots[i].enable /\ before.found ->
                        [found |-> TRUE,
                         pass |-> pred_combine(before.pass, slots[i].combine, here)]]

LEMMA PassBitUnfolds ==
  ASSUME NEW slots, NEW columns
  PROVE  PassBit(slots, columns) =
           (CHOOSE f : FoldsSlots(f, slots, columns))[Len(slots)].pass
  BY DEF PassBit, FoldsSlots

\* A slot more in the clause.
LEMMA WhereMore ==
  ASSUME NEW slots \in Seq(Slot), NEW columns, NEW n \in 1 .. Len(slots)
  PROVE  /\ slots[n].enable \in BOOLEAN
         /\ ~slots[n].enable =>
              /\ EnabledTo(slots, n) = EnabledTo(slots, n - 1)
              /\ WhereTo(slots, columns, n) <=> WhereTo(slots, columns, n - 1)
         /\ slots[n].enable => EnabledTo(slots, n) # {}
         /\ slots[n].enable /\ EnabledTo(slots, n - 1) = {} =>
              (WhereTo(slots, columns, n) <=> slot_result(slots[n], columns))
         /\ slots[n].enable /\ EnabledTo(slots, n - 1) # {} =>
              (WhereTo(slots, columns, n) <=>
                 pred_combine(WhereTo(slots, columns, n - 1), slots[n].combine,
                              slot_result(slots[n], columns)))
  <1> DEFINE E == EnabledTo(slots, n)
             D == EnabledTo(slots, n - 1)
             holds(i) == slot_result(slots[i], columns)
             isAnd(i) == slots[i].combine = "AND"
             isOr(i) == slots[i].combine = "OR"
  <1>0. Len(slots) \in Nat /\ n \in Nat /\ n > 0
    OBVIOUS
  <1>1. slots[n] \in Slot
    <2>1. ASSUME NEW T, NEW s \in Seq(T), NEW i \in 1 .. Len(s) PROVE s[i] \in T
      OBVIOUS
    <2> QED BY <2>1
  <1>2. /\ slots[n].enable \in BOOLEAN
        /\ ~(isAnd(n) /\ isOr(n))
        /\ isAnd(n) \/ isOr(n)
    BY <1>1 DEF Slot
  <1>3. E = D \cup (IF slots[n].enable THEN {n} ELSE {})
    BY <1>0 DEF EnabledTo
  <1>4. \A i \in D : i \in Nat /\ i < n
    BY <1>0 DEF EnabledTo
  <1>5. /\ WhereTo(slots, columns, n) <=>
             (E # {} => \E i \in E :
                /\ isOr(i) \/ \A j \in E : i <= j
                /\ holds(i)
                /\ \A j \in E : j > i /\ isAnd(j) => holds(j))
        /\ WhereTo(slots, columns, n - 1) <=>
             (D # {} => \E i \in D :
                /\ isOr(i) \/ \A j \in D : i <= j
                /\ holds(i)
                /\ \A j \in D : j > i /\ isAnd(j) => holds(j))
    BY DEF WhereTo
  <1>6. /\ pred_combine(WhereTo(slots, columns, n - 1), slots[n].combine, holds(n))
             = IF isAnd(n) THEN WhereTo(slots, columns, n - 1) /\ holds(n)
               ELSE WhereTo(slots, columns, n - 1) \/ holds(n)
    BY DEF pred_combine
  <1> HIDE DEF E, D, holds, isAnd, isOr
  <1>7. ASSUME ~slots[n].enable
        PROVE  E = D /\ (WhereTo(slots, columns, n) <=> WhereTo(slots, columns, n - 1))
    <2>1. E = D
      BY <1>3, <1>7
    <2> QED BY <1>5, <2>1
  <1>8. ASSUME slots[n].enable, D = {}
        PROVE  WhereTo(slots, columns, n) <=> holds(n)
    <2>1. E = {n}
      BY <1>3, <1>8
    <2> QED BY <1>0, <1>5, <2>1
  <1>9. ASSUME slots[n].enable, D # {}, isAnd(n)
        PROVE  WhereTo(slots, columns, n) <=> WhereTo(slots, columns, n - 1) /\ holds(n)
    <2>1. E = D \cup {n} /\ ~isOr(n)
      BY <1>2, <1>3, <1>9
    <2>2. ~(\A j \in E : n <= j)
      BY <1>0, <1>4, <1>9, <2>1
    <2>3. \A i \in D : (\A j \in E : i <= j) <=> (\A j \in D : i <= j)
      BY <1>0, <1>4, <2>1
    <2>4. \A i \in D : (\A j \in E : j > i /\ isAnd(j) => holds(j)) <=>
            holds(n) /\ (\A j \in D : j > i /\ isAnd(j) => holds(j))
      BY <1>0, <1>4, <1>9, <2>1
    <2> QED BY <1>5, <1>9, <2>1, <2>2, <2>3, <2>4
  <1>10. ASSUME slots[n].enable, D # {}, ~isAnd(n)
         PROVE  WhereTo(slots, columns, n) <=> WhereTo(slots, columns, n - 1) \/ holds(n)
    <2>1. E = D \cup {n} /\ isOr(n)
      BY <1>2, <1>3, <1>10
    <2>2. \A i \in D : (\A j \in E : i <= j) <=> (\A j \in D : i <= j)
      BY <1>0, <1>4, <2>1
    <2>3. \A i \in D : (\A j \in E : j > i /\ isAnd(j) => holds(j)) <=>
            (\A j \in D : j > i /\ isAnd(j) => holds(j))
      BY <1>0, <1>4, <1>10, <2>1
    <2>4. \A j \in E : ~(j > n)
      BY <1>0, <1>4, <2>1
    <2> QED BY <1>5, <1>10, <2>1, <2>2, <2>3, <2>4
  <1>11. slots[n].enable => E # {}
    BY <1>3
  <1>12. ASSUME slots[n].enable, D # {}
         PROVE  WhereTo(slots, columns, n) <=>
                  pred_combine(WhereTo(slots, columns, n - 1), slots[n].combine, holds(n))
    <2>1. CASE isAnd(n)
      BY <1>6, <1>9, <1>12, <2>1, Zenon
    <2>2. CASE ~isAnd(n)
      BY <1>6, <1>10, <1>12, <2>2, Zenon
    <2> QED BY <2>1, <2>2
  <1> QED BY <1>2, <1>7, <1>8, <1>11, <1>12 DEF E, D, holds

LEMMA SlotResultBoolean ==
  ASSUME NEW slot \in Slot, NEW columns \in Row
  PROVE  slot_result(slot, columns) \in BOOLEAN
  <1>1. ASSUME NEW op, NEW a \in Nat, NEW b \in Nat PROVE pred_apply(op, a, b) \in BOOLEAN
    <2>1. /\ (a = b) \in BOOLEAN /\ (a # b) \in BOOLEAN
          /\ (a < b) \in BOOLEAN /\ (a > b) \in BOOLEAN
          /\ (a <= b) \in BOOLEAN /\ (a >= b) \in BOOLEAN
      OBVIOUS
    <2> QED BY <2>1, Zenon DEF pred_apply
  <1>2. columns[slot.column] \in Nat /\ slot.imm \in Nat
    BY TableAssumption DEF Slot, Row
  <1> QED BY <1>1, <1>2 DEF slot_result

\* "A predicate is the WHERE clause": the fold of predicate_engine.sv, slot by
\* slot, says of every row what the clause says.
LEMMA PassBitIsWhere ==
  ASSUME NEW slots \in Seq(Slot), NEW columns \in Row
  PROVE  PassBit(slots, columns) = Where(slots, columns)
  <1> DEFINE L == Len(slots)
             w == [i \in 0 .. L |-> [found |-> EnabledTo(slots, i) # {},
                                     pass |-> WhereTo(slots, columns, i)]]
             F(f, i) ==
               IF i = 0 THEN [found |-> FALSE, pass |-> TRUE]
               ELSE LET before == f[i - 1]
                        here == slot_result(slots[i], columns)
                    IN  CASE ~slots[i].enable -> before
                          [] slots[i].enable /\ ~before.found ->
                               [found |-> TRUE, pass |-> here]
                          [] slots[i].enable /\ before.found ->
                               [found |-> TRUE,
                                pass |-> pred_combine(before.pass, slots[i].combine, here)]
  <1>0. L \in Nat
    OBVIOUS
  <1>1. \A f : FoldsSlots(f, slots, columns) <=> f = [i \in 0 .. L |-> F(f, i)]
    BY Zenon DEF FoldsSlots
  <1>2. /\ \A i \in 0 .. L : w[i] = [found |-> EnabledTo(slots, i) # {},
                                     pass |-> WhereTo(slots, columns, i)]
        /\ w = [i \in 0 .. L |-> w[i]]
    OBVIOUS
  <1>3. \A i : WhereTo(slots, columns, i) \in BOOLEAN
    BY Zenon DEF WhereTo
  <1> HIDE DEF w, L
  \* The clauses of the first slots satisfy the recursion of the fold.
  <1>4. w = [i \in 0 .. L |-> F(w, i)]
    <2>1. ASSUME NEW i \in 0 .. L PROVE w[i] = F(w, i)
      <3>1. CASE i = 0
        <4>1. EnabledTo(slots, 0) = {}
          BY DEF EnabledTo
        <4>2. WhereTo(slots, columns, 0) = TRUE
          BY <4>1, Zenon DEF WhereTo
        <4>3. w[0] = [found |-> FALSE, pass |-> TRUE]
          <5>1. w[0] = [found |-> EnabledTo(slots, 0) # {},
                        pass |-> WhereTo(slots, columns, 0)]
            BY <1>0, <1>2
          <5>2. (EnabledTo(slots, 0) # {}) = FALSE
            BY <4>1, Zenon
          <5> QED BY <5>1, <5>2, <4>2, Zenon
        <4> QED BY <3>1, <4>3, Zenon
      <3>2. CASE i # 0
        <4> DEFINE b == w[i - 1]
                   h == slot_result(slots[i], columns)
        <4>1. i \in 1 .. Len(slots) /\ i - 1 \in 0 .. L
          BY <1>0, <3>2 DEF L
        <4>2. /\ slots[i].enable \in BOOLEAN
              /\ ~slots[i].enable =>
                   /\ EnabledTo(slots, i) = EnabledTo(slots, i - 1)
                   /\ WhereTo(slots, columns, i) <=> WhereTo(slots, columns, i - 1)
              /\ slots[i].enable => EnabledTo(slots, i) # {}
              /\ slots[i].enable /\ EnabledTo(slots, i - 1) = {} =>
                   (WhereTo(slots, columns, i) <=> h)
              /\ slots[i].enable /\ EnabledTo(slots, i - 1) # {} =>
                   (WhereTo(slots, columns, i) <=>
                      pred_combine(WhereTo(slots, columns, i - 1), slots[i].combine, h))
          BY <4>1, WhereMore
        <4>3. h \in BOOLEAN
          <5>1. ASSUME NEW T, NEW s \in Seq(T), NEW j \in 1 .. Len(s) PROVE s[j] \in T
            OBVIOUS
          <5>2. slots[i] \in Slot
            BY <4>1, <5>1
          <5> QED BY <5>2, SlotResultBoolean
        <4>4. /\ w[i] = [found |-> EnabledTo(slots, i) # {},
                         pass |-> WhereTo(slots, columns, i)]
              /\ b = [found |-> EnabledTo(slots, i - 1) # {},
                      pass |-> WhereTo(slots, columns, i - 1)]
          BY <1>2, <4>1
        <4>5. /\ b.found = (EnabledTo(slots, i - 1) # {})
              /\ b.pass = WhereTo(slots, columns, i - 1)
          <5>1. ASSUME NEW x, NEW y, NEW r, r = [found |-> x, pass |-> y]
                PROVE  r.found = x /\ r.pass = y
            BY <5>1
          <5> HIDE DEF b
          <5> QED BY <4>4, <5>1, Zenon
        <4>6. F(w, i) = CASE ~slots[i].enable -> b
                          [] slots[i].enable /\ ~b.found ->
                               [found |-> TRUE, pass |-> h]
                          [] slots[i].enable /\ b.found ->
                               [found |-> TRUE,
                                pass |-> pred_combine(b.pass, slots[i].combine, h)]
          BY <3>2, Zenon
        <4> HIDE DEF b, h, F
        <4>7. CASE ~slots[i].enable
          <5>1. F(w, i) = b
            BY <4>6, <4>7, Zenon
          <5>2. /\ (EnabledTo(slots, i) # {}) = (EnabledTo(slots, i - 1) # {})
                /\ WhereTo(slots, columns, i) = WhereTo(slots, columns, i - 1)
            BY <4>2, <4>7, <1>3, Zenon
          <5> QED BY <4>4, <5>1, <5>2, Zenon
        <4>8. CASE slots[i].enable /\ EnabledTo(slots, i - 1) = {}
          <5>1. ~b.found
            BY <4>5, <4>8, Zenon
          <5>2. F(w, i) = [found |-> TRUE, pass |-> h]
            BY <4>6, <4>8, <5>1, Zenon
          <5>3. (EnabledTo(slots, i) # {}) = TRUE /\ WhereTo(slots, columns, i) = h
            BY <4>2, <4>3, <4>8, <1>3, Zenon
          <5> QED BY <4>4, <5>2, <5>3, Zenon
        <4>9. CASE slots[i].enable /\ EnabledTo(slots, i - 1) # {}
          <5>1. b.found
            BY <4>5, <4>9, Zenon
          <5>2. F(w, i) = [found |-> TRUE,
                           pass |-> pred_combine(b.pass, slots[i].combine, h)]
            BY <4>6, <4>9, <5>1, Zenon
          <5>3. pred_combine(b.pass, slots[i].combine, h) \in BOOLEAN
            BY Zenon DEF pred_combine
          <5>4. (EnabledTo(slots, i) # {}) = TRUE
            BY <4>2, <4>9, Zenon
          <5>5. WhereTo(slots, columns, i) = pred_combine(b.pass, slots[i].combine, h)
            <6>1. WhereTo(slots, columns, i) <=>
                    pred_combine(b.pass, slots[i].combine, h)
              <7>1. PICK p : p = WhereTo(slots, columns, i - 1) /\ p = b.pass
                BY <4>5
              <7>2. WhereTo(slots, columns, i) <=>
                      pred_combine(p, slots[i].combine, h)
                BY <4>2, <4>9, <7>1
              <7> QED BY <7>1, <7>2
            <6> QED BY <1>3, <5>3, <6>1, Zenon
          <5> QED BY <4>4, <5>2, <5>4, <5>5, Zenon
        <4> QED BY <4>2, <4>7, <4>8, <4>9
      <3> QED BY <3>1, <3>2
    <2> HIDE DEF F
    <2> QED BY <1>2, <2>1
  \* There is one such function.
  <1>5. ASSUME NEW f, FoldsSlots(f, slots, columns) PROVE f = w
    <2>1. f = [i \in 0 .. L |-> F(f, i)]
      BY <1>1, <1>5
    <2> DEFINE B == {i \in 0 .. L : f[i] # w[i]}
    <2>2. ASSUME B # {} PROVE FALSE
      <3>1. B \subseteq Nat
        BY <1>0
      <3>2. PICK n \in B : \A m \in B : n <= m
        BY <2>2, <3>1, GB!LeastNat, CoreAssumed
      <3>3. n \in 0 .. L /\ f[n] # w[n] /\ f[n] = F(f, n) /\ w[n] = F(w, n)
        <4>1. n \in 0 .. L /\ f[n] # w[n]
          OBVIOUS
        <4> HIDE DEF F, B
        <4> QED BY <2>1, <1>4, <4>1
      <3>4. n # 0
        BY <3>3, Zenon
      <3>5. f[n - 1] = w[n - 1]
        <4>1. n - 1 \in 0 .. L /\ ~(n <= n - 1)
          BY <1>0, <3>3, <3>4
        <4> QED BY <3>2, <4>1
      <3>6. F(f, n) = F(w, n)
        BY <3>4, <3>5, Zenon
      <3> HIDE DEF F
      <3> QED BY <3>3, <3>6, Zenon
    <2> HIDE DEF F
    <2>3. \A i \in 0 .. L : f[i] = w[i]
      BY <2>2
    <2>4. f = [i \in 0 .. L |-> f[i]]
      BY <2>1
    <2> QED BY <2>3, <2>4, <1>2
  <1>6. FoldsSlots(w, slots, columns)
    BY <1>1, <1>4, Zenon
  <1>7. (CHOOSE f : FoldsSlots(f, slots, columns)) = w
    BY <1>5, <1>6, Zenon
  <1>8. PassBit(slots, columns) = w[L].pass
    BY <1>7, PassBitUnfolds, Zenon DEF L
  <1>9. w[L].pass = WhereTo(slots, columns, L)
    BY <1>0, <1>2
  <1>10. WhereTo(slots, columns, L) = Where(slots, columns)
    BY DEF WhereTo, Where, EnabledTo, EnabledSlots, L
  <1> QED BY <1>8, <1>9, <1>10, Zenon

-----------------------------------------------------------------------------
(* Rows in flight *)

\* The configured query: its fields and the length of its scan.
LEMMA ConfigIs ==
  ASSUME cfg \in Configs
  PROVE  /\ cfg.groupby \in BOOLEAN /\ cfg.column \in Cols /\ cfg.gby_key \in Cols
         /\ cfg.proj \in [Cols -> BOOLEAN] /\ cfg.pred \in Seq(Slot)
         /\ Service!ScanLength \in 1 .. NUM_ROWS
         /\ Reader!last_row(cfg.num_rows) = Service!ScanLength - 1
  <1>1. /\ cfg.groupby \in BOOLEAN /\ cfg.column \in Cols /\ cfg.gby_key \in Cols
        /\ cfg.proj \in [Cols -> BOOLEAN] /\ cfg.pred \in Seq(Slot)
        /\ cfg.num_rows \in 0 .. NUM_ROWS
    BY ConfigAssumption DEF Slot
  <1>2. NUM_ROWS \in Nat /\ NUM_ROWS > 0
    BY TableAssumption
  <1>3. /\ Service!ScanLength \in 1 .. NUM_ROWS
        /\ Reader!last_row(cfg.num_rows) = Service!ScanLength - 1
    BY <1>1, <1>2 DEF Service!ScanLength, Reader!last_row, Reader!LADDR
  <1> QED BY <1>1, <1>3

LEMMA WhereBoolean == \A slots, columns : Where(slots, columns) \in BOOLEAN
  BY Zenon DEF Where

LEMMA SeenIs ==
  ASSUME Types, cfg \in Configs
  PROVE  /\ Seen \in SeenRows
         /\ \A r \in 0 .. NUM_ROWS - 1 :
              /\ Seen[r].pass = Where(cfg.pred, mem[r])
              /\ Seen[r].key = Service!KeyOf(r) /\ Seen[r].val = Service!Val(r)
              /\ mem[r] \in Row
  <1>1. ASSUME NEW r \in 0 .. NUM_ROWS - 1, NEW c \in Cols
        PROVE  Service!Cell(r, c) \in 0 .. ColMax /\ mem[r] \in Row
    <2>1. mem[r] \in Row
      BY DEF Types, Reader!Rows
    <2>2. mem[r][c] \in 0 .. ColMax /\ 0 \in 0 .. ColMax
      BY <2>1, TableAssumption DEF Row
    <2> QED BY <2>1, <2>2 DEF Service!Cell
  <1>2. \A r \in 0 .. NUM_ROWS - 1 :
          /\ Service!KeyOf(r) \in 0 .. ColMax /\ Service!Val(r) \in 0 .. ColMax
          /\ mem[r] \in Row
    BY <1>1, ConfigIs DEF Service!KeyOf, Service!Val
  <1>3. \A r \in 0 .. NUM_ROWS - 1 :
          Seen[r] = [pass |-> Where(cfg.pred, mem[r]),
                     key |-> Service!KeyOf(r), val |-> Service!Val(r)]
    BY DEF Seen
  <1>4. ASSUME NEW p \in BOOLEAN, NEW k \in 0 .. ColMax, NEW v \in 0 .. ColMax
        PROVE  [pass |-> p, key |-> k, val |-> v] \in SeenRow
    BY DEF SeenRow
  <1>5. \A r \in 0 .. NUM_ROWS - 1 : Seen[r] \in SeenRow
    BY <1>2, <1>3, <1>4, WhereBoolean, Zenon
  <1>6. Seen = [r \in 0 .. NUM_ROWS - 1 |-> Seen[r]]
    BY DEF Seen
  <1>7. Seen \in SeenRows
    BY <1>5, <1>6 DEF SeenRows
  <1>8. ASSUME NEW p, NEW k, NEW v, NEW s, s = [pass |-> p, key |-> k, val |-> v]
        PROVE  s.pass = p /\ s.key = k /\ s.val = v
    BY <1>8
  <1>9. ASSUME NEW r \in 0 .. NUM_ROWS - 1
        PROVE  /\ Seen[r].pass = Where(cfg.pred, mem[r])
               /\ Seen[r].key = Service!KeyOf(r) /\ Seen[r].val = Service!Val(r)
    <2>1. PICK p, k, v, s :
            /\ p = Where(cfg.pred, mem[r]) /\ k = Service!KeyOf(r)
            /\ v = Service!Val(r) /\ s = Seen[r]
      OBVIOUS
    <2>2. s = [pass |-> p, key |-> k, val |-> v]
      BY <1>3, <2>1, Zenon
    <2>3. s.pass = p /\ s.key = k /\ s.val = v
      BY <2>2, <1>8
    <2> QED BY <2>1, <2>3, Zenon
  <1> QED BY <1>2, <1>7, <1>9

\* The reader hands over the rows of the scan in order, each with the data of
\* its address, and marks the last one.
LEMMA ReaderPushes ==
  ASSUME Types, cfg \in Configs, ReaderAt, cfg' = cfg,
         Reader!ReaderEdge(FALSE, cfg.num_rows, NoLoad, pred_s_ready)
  PROVE  /\ mem' = mem /\ ReaderAt'
         /\ Pushed \in 0 .. Service!ScanLength /\ Pushed' = Pushed + Bit(push)
         /\ push => Pushed < Service!ScanLength /\ pushed = RawBeat(Pushed)
  <1> DEFINE L == Service!ScanLength
  <1>0. L \in 1 .. NUM_ROWS /\ Reader!last_row(cfg.num_rows) = L - 1 /\ NUM_ROWS \in Nat
    BY ConfigIs, TableAssumption
  <1>1. L' = L
    BY DEF Service!ScanLength
  <1>2. /\ mem' = mem /\ bank_rdata' = mem[raddr_q]
        /\ mem \in [0 .. NUM_ROWS - 1 -> Row] /\ raddr_q \in 0 .. NUM_ROWS - 1
    BY DEF Types, Reader!ReaderEdge, Reader!BankEdge, NoLoad, Reader!Rows
  <1>3. Reader!FsmEdge(FALSE, cfg.num_rows)
    BY DEF Reader!ReaderEdge
  <1>4. push <=> pending_q /\ reader_busy /\ Reader!fifo_s_ready
    BY DEF push, Reader!fifo_tvalid
  <1>5. reader_busy => raddr_q < L /\ (pending_q => ret_row_q = raddr_q /\ bank_rdata = mem[raddr_q])
    BY DEF ReaderAt
  <1> HIDE DEF L
  <1>6. /\ reader_busy => Pushed = raddr_q
        /\ ~reader_busy => Pushed = L
        /\ reader_busy' => Pushed' = raddr_q'
        /\ ~reader_busy' => Pushed' = L
        /\ Bit(TRUE) = 1 /\ Bit(FALSE) = 0
        /\ push => Bit(push) = 1
        /\ ~push => Bit(push) = 0
    BY <1>1 DEF Pushed, Bit, L
  <1>7. Pushed \in 0 .. L
    BY <1>0, <1>2, <1>5, <1>6
  <1>8. ASSUME push PROVE pushed = RawBeat(Pushed)
    <2>1. /\ Pushed = raddr_q /\ ret_row_q = raddr_q /\ bank_rdata = mem[raddr_q]
      BY <1>4, <1>5, <1>6, <1>8
    <2>2. (ret_row_q = L - 1) <=> (raddr_q + 1 = L)
      BY <1>0, <1>2, <2>1
    <2>3. (ret_row_q = Reader!last_row(cfg.num_rows)) = (raddr_q + 1 = L)
      BY <1>0, <2>2, Zenon
    <2>4. pushed = [pass |-> TRUE, columns |-> mem[raddr_q], last |-> raddr_q + 1 = L]
      BY <2>1, <2>3, Zenon DEF pushed, Reader!ReaderBeat
    <2> QED BY <2>1, <2>4, Zenon DEF RawBeat, L
  <1>9. ASSUME ~reader_busy
        PROVE  ReaderAt' /\ Pushed' = Pushed + Bit(push)
    <2>1. ~reader_busy' /\ ~push
      BY <1>3, <1>4, <1>9 DEF Reader!FsmEdge, Reader!fsmVars
    <2> QED BY <1>0, <1>6, <1>9, <2>1 DEF ReaderAt
  <1>10. ASSUME reader_busy, ~push
         PROVE  ReaderAt' /\ Pushed' = Pushed + Bit(push)
    <2>1. Reader!AwaitFresh
      BY <1>3, <1>4, <1>10 DEF Reader!FsmEdge
    <2>2. reader_busy' /\ raddr_q' = raddr_q /\ ret_row_q' = raddr_q
      BY <1>10, <2>1 DEF Reader!AwaitFresh
    <2> QED BY <1>1, <1>2, <1>5, <1>6, <1>10, <2>2 DEF ReaderAt, L
  <1>11. ASSUME push, ret_row_q = Reader!last_row(cfg.num_rows)
         PROVE  ReaderAt' /\ Pushed' = Pushed + Bit(push)
    <2>1. Reader!Finish
      BY <1>3, <1>4, <1>11 DEF Reader!FsmEdge
    <2>2. ~reader_busy'
      BY <2>1 DEF Reader!Finish
    <2>3. raddr_q = L - 1 /\ Pushed = raddr_q
      BY <1>0, <1>4, <1>5, <1>6, <1>11
    <2>4. Pushed' = L /\ Bit(push) = 1
      BY <1>6, <1>11, <2>2
    <2>5. L = L - 1 + 1
      BY <1>0
    <2> QED BY <2>2, <2>3, <2>4, <2>5 DEF ReaderAt
  <1>12. ASSUME push, ret_row_q # Reader!last_row(cfg.num_rows)
         PROVE  ReaderAt' /\ Pushed' = Pushed + Bit(push)
    <2>1. Reader!FetchNext
      BY <1>3, <1>4, <1>12 DEF Reader!FsmEdge
    <2>2. raddr_q # L - 1 /\ raddr_q < L /\ Pushed = raddr_q
      BY <1>0, <1>4, <1>5, <1>6, <1>12
    <2>3. /\ reader_busy' /\ ~pending_q' /\ raddr_q' = raddr_q + 1
      BY <1>0, <1>2, <1>4, <1>12, <2>1, <2>2 DEF Reader!FetchNext, Reader!AddrSucc
    <2>4. raddr_q + 1 < L
      BY <1>0, <1>2, <2>2
    <2> QED BY <1>1, <1>6, <1>12, <2>2, <2>3, <2>4 DEF ReaderAt, L
  <1>13. push => Pushed < L
    BY <1>4, <1>5, <1>6
  <1> QED BY <1>2, <1>7, <1>8, <1>9, <1>10, <1>11, <1>12, <1>13 DEF L

\* A row's form depends on the table and the configuration only.
LEMMA FormsStay ==
  ASSUME mem' = mem, cfg' = cfg
  PROVE  /\ Service!ScanLength' = Service!ScanLength
         /\ \A r : /\ RawBeat(r)' = RawBeat(r) /\ PredBeat(r)' = PredBeat(r)
                   /\ ProjBeat(r)' = ProjBeat(r)
         /\ Seen' = Seen
  BY DEF Service!ScanLength, RawBeat, PredBeat, ProjBeat, Service!Cell, Seen,
         Service!KeyOf, Service!Val

LEMMA BitIs == /\ Bit(TRUE) = 1 /\ Bit(FALSE) = 0
               /\ \A b : (b => Bit(b) = 1) /\ (~b => Bit(b) = 0)
  BY DEF Bit

\* The rows in the FIFO.
LEMMA FifoRows ==
  ASSUME Types, cfg \in Configs, ReaderAt, cfg' = cfg,
         \A i \in 1 .. Len(fifo) : fifo[i] = RawBeat(AtPred + i - 1),
         Reader!ReaderEdge(FALSE, cfg.num_rows, NoLoad, pred_s_ready)
  PROVE  /\ AtPred' = AtPred + Bit(pop) /\ AtPred \in Int
         /\ AtPred <= Service!ScanLength
         /\ \A i \in 1 .. Len(fifo') : fifo'[i] = RawBeat(AtPred' + i - 1)
         /\ rd_tvalid => rd_beat = RawBeat(AtPred) /\ AtPred < Service!ScanLength
  <1> DEFINE n == Len(fifo)
             m == Len(fifo')
             L == Service!ScanLength
  <1>1. /\ n \in Nat /\ m \in Nat
        /\ m = n + (IF push THEN 1 ELSE 0) - (IF pop THEN 1 ELSE 0)
        /\ pop => n > 0
        /\ \A i \in 1 .. m :
             LET j == IF pop THEN i + 1 ELSE i
             IN  IF j <= n THEN fifo'[i] = fifo[j]
                 ELSE push /\ j = n + 1 /\ fifo'[i] = pushed
    BY FifoStep, LenProperties DEF Types
  <1>2. /\ Pushed \in 0 .. L /\ Pushed' = Pushed + Bit(push)
        /\ push => pushed = RawBeat(Pushed)
    BY ReaderPushes
  <1>3. AtPred = Pushed - n /\ AtPred' = Pushed' - m
    BY DEF AtPred
  <1>4. (rd_tvalid <=> n > 0) /\ (rd_tvalid => rd_beat = fifo[1])
    BY ReaderWires
  <1>5. L \in Nat
    BY ConfigIs
  <1> HIDE DEF n, m, L
  <1>6. PICK x, a, b, p, q :
          /\ x = AtPred /\ a = Pushed /\ p = Bit(push) /\ q = Bit(pop) /\ b = AtPred'
    OBVIOUS
  <1>7. /\ p = (IF push THEN 1 ELSE 0) /\ q = (IF pop THEN 1 ELSE 0)
        /\ a \in Nat /\ a <= L /\ x = a - n /\ b = a + p - m /\ b = x + q
    BY <1>1, <1>2, <1>3, <1>5, <1>6, BitIs
  <1>8. ASSUME NEW i \in 1 .. m PROVE fifo'[i] = RawBeat(b + i - 1)
    <2> DEFINE j == IF pop THEN i + 1 ELSE i
    <2>1. b + i - 1 = x + j - 1
      BY <1>1, <1>7
    <2>2. CASE j <= n
      <3>1. fifo'[i] = fifo[j] /\ j \in 1 .. n
        BY <1>1, <2>2
      <3>2. fifo[j] = RawBeat(x + j - 1)
        BY <3>1, <1>6 DEF n
      <3> QED BY <2>1, <3>1, <3>2
    <2>3. CASE ~(j <= n)
      <3>1. push /\ j = n + 1 /\ fifo'[i] = pushed
        BY <1>1, <2>3
      <3>2. fifo'[i] = RawBeat(a)
        BY <1>2, <1>6, <3>1
      <3>3. x + j - 1 = a
        BY <1>1, <1>7, <3>1
      <3> QED BY <2>1, <3>2, <3>3
    <2> QED BY <2>2, <2>3
  <1>9. ASSUME rd_tvalid PROVE rd_beat = RawBeat(x) /\ x < L
    <2>1. rd_beat = fifo[1] /\ 1 \in 1 .. n
      BY <1>1, <1>4, <1>9
    <2>2. fifo[1] = RawBeat(x + 1 - 1) /\ x + 1 - 1 = x /\ x < L
      BY <1>1, <1>5, <1>6, <1>7, <2>1 DEF n
    <2> QED BY <2>1, <2>2
  <1>10. x \in Int /\ x <= L
    BY <1>1, <1>5, <1>7
  <1> QED BY <1>6, <1>7, <1>8, <1>9, <1>10 DEF m, L

\* The predicate stage delivers the next row with its pass bit.
LEMMA PredRow ==
  ASSUME Types, cfg \in Configs,
         rd_tvalid => rd_beat = RawBeat(AtPred) /\ AtPred \in 0 .. NUM_ROWS - 1,
         pred_valid => pred_reg = PredBeat(AtProj),
         AtPred \in Int,
         PredReg!RegisterEdge(rd_tvalid, pred_in, pred_tready)
  PROVE  /\ pred_tvalid => pred_out = PredBeat(AtProj)
         /\ pred_valid' => pred_reg' = PredBeat(AtProj)
         /\ pred_tvalid <=> pred_valid \/ rd_tvalid
  <1>1. /\ pred_tvalid <=> pred_valid \/ rd_tvalid
        /\ pred_valid' => pred_tvalid /\ pred_reg' = pred_out
    BY PredStep
  <1>2. pred_out = IF pred_valid THEN pred_reg ELSE pred_in
    BY DEF pred_out, PredReg!m_axis_beat
  <1>3. CASE pred_valid
    BY <1>1, <1>2, <1>3
  <1>4. CASE ~pred_valid /\ rd_tvalid
    <2>1. PICK x : x = AtPred
      OBVIOUS
    <2>2. AtProj = x
      BY <1>4, <2>1, BitIs DEF AtProj
    <2>3. x \in 0 .. NUM_ROWS - 1 /\ rd_beat = RawBeat(x)
      BY <1>4, <2>1
    <2>4. mem[x] \in Row /\ cfg.pred \in Seq(Slot)
      BY <2>3, SeenIs, ConfigIs
    <2>5. rd_beat.columns = mem[x]
      BY <2>3 DEF RawBeat
    <2>6. PassBit(cfg.pred, rd_beat.columns) = Where(cfg.pred, mem[x])
      BY <2>4, <2>5, PassBitIsWhere
    <2>7. pred_in = PredBeat(x)
      BY <2>3, <2>6, Zenon DEF pred_in, PredBeat
    <2> QED BY <1>1, <1>2, <1>4, <2>2, <2>7
  <1> QED BY <1>1, <1>3, <1>4

\* The projection stage delivers it with the columns that are selected.
LEMMA ProjRow ==
  ASSUME Types, cfg \in Configs,
         pred_tvalid => pred_out = PredBeat(AtProj) /\ AtProj \in 0 .. NUM_ROWS - 1,
         DOMAIN pred_out = {"pass", "columns", "last"},
         pred_out.last \in BOOLEAN,
         proj_valid => proj_reg = ProjBeat(Consumed),
         AtProj \in Int,
         ProjReg!RegisterEdge(pred_tvalid, proj_in, proj_tready)
  PROVE  /\ proj_tvalid => proj_out = ProjBeat(Consumed)
         /\ proj_valid' => proj_reg' = ProjBeat(Consumed)
         /\ proj_tvalid <=> proj_valid \/ pred_tvalid
  <1>1. /\ proj_tvalid <=> proj_valid \/ pred_tvalid
        /\ proj_valid' => proj_tvalid /\ proj_reg' = proj_out
    BY ProjStep
  <1>2. proj_out = IF proj_valid THEN proj_reg ELSE proj_in
    BY DEF proj_out, ProjReg!m_axis_beat
  <1>3. CASE proj_valid
    BY <1>1, <1>2, <1>3
  <1>4. CASE ~proj_valid /\ pred_tvalid
    <2>1. PICK x : x = AtProj
      OBVIOUS
    <2>2. Consumed = x
      BY <1>4, <2>1, BitIs DEF Consumed
    <2>3. x \in 0 .. NUM_ROWS - 1 /\ pred_out = PredBeat(x)
      BY <1>4, <2>1
    <2>4. mem[x] \in Row
      BY <2>3, SeenIs
    <2>5. pred_out.columns = mem[x]
      BY <2>3 DEF PredBeat, RawBeat
    <2>6. Masked(pred_out.columns, cfg.proj) = [c \in Cols |-> Service!Cell(x, c)]
      BY <2>4, <2>5 DEF Masked, Service!Cell, Row
    <2>7. proj_in = ProjBeat(x)
      BY <2>3, <2>6, Zenon DEF proj_in, ProjBeat
    <2> QED BY <1>1, <1>2, <1>4, <2>2, <2>7
  <1> QED BY <1>1, <1>3, <1>4

\* The beat of a row as the aggregation sees it.
LEMMA BeatOfRow ==
  ASSUME Types, cfg \in Configs, NEW r \in 0 .. NUM_ROWS - 1
  PROVE  /\ ProjBeat(r).pass = Seen[r].pass
         /\ ProjBeat(r).columns[cfg.column] = Seen[r].val
         /\ ProjBeat(r).columns[cfg.gby_key] = Seen[r].key
         /\ ProjBeat(r).last = (r + 1 = Service!ScanLength)
  <1>1. /\ Seen[r].pass = Where(cfg.pred, mem[r])
        /\ Seen[r].key = Service!KeyOf(r) /\ Seen[r].val = Service!Val(r)
        /\ cfg.column \in Cols /\ cfg.gby_key \in Cols
    BY SeenIs, ConfigIs
  <1>2. PICK p, q, l, m, z :
          /\ p = Where(cfg.pred, mem[r]) /\ q = [c \in Cols |-> Service!Cell(r, c)]
          /\ l = (r + 1 = Service!ScanLength) /\ m = mem[r] /\ z = ProjBeat(r)
    OBVIOUS
  <1>3. z = [[[pass |-> TRUE, columns |-> m, last |-> l] EXCEPT !.pass = p]
               EXCEPT !.columns = q]
    BY <1>2, Zenon DEF ProjBeat, PredBeat, RawBeat
  <1>4. z.pass = p /\ z.columns = q /\ z.last = l
    BY <1>3
  <1>5. q[cfg.column] = Service!Val(r) /\ q[cfg.gby_key] = Service!KeyOf(r)
    BY <1>1, <1>2 DEF Service!Val, Service!KeyOf
  <1> QED BY <1>1, <1>2, <1>4, <1>5, Zenon

\* An edge of a running query moves the rows through the stages: none is
\* lost, doubled or changed, and the aggregation takes the next row.
LEMMA RowsMove ==
  ASSUME Types, cfg \in Configs, ReaderAt, InFlight, cfg' = cfg,
         Reader!ReaderEdge(FALSE, cfg.num_rows, NoLoad, pred_s_ready),
         PredReg!RegisterEdge(rd_tvalid, pred_in, pred_tready),
         ProjReg!RegisterEdge(pred_tvalid, proj_in, proj_tready),
         take => Expects,
         Expects' <=> Expects /\ ~(take /\ proj_out.last)
  PROVE  /\ mem' = mem /\ ReaderAt' /\ InFlight'
         /\ Consumed \in 0 .. Service!ScanLength
         /\ Consumed' = Consumed + Bit(take)
         /\ take => Consumed < Service!ScanLength /\ proj_out = ProjBeat(Consumed)
  <1> DEFINE L == Service!ScanLength
  <1>0. L \in 1 .. NUM_ROWS /\ NUM_ROWS \in Nat
    BY ConfigIs, TableAssumption
  <1>1. /\ \A i \in 1 .. Len(fifo) : fifo[i] = RawBeat(AtPred + i - 1)
        /\ pred_valid => pred_reg = PredBeat(AtProj)
        /\ proj_valid => proj_reg = ProjBeat(Consumed)
        /\ Consumed >= 0
        /\ Expects <=> Consumed < L
    BY DEF InFlight
  <1>2. mem' = mem /\ ReaderAt'
    BY ReaderPushes
  <1>3. /\ L' = L
        /\ \A r : /\ RawBeat(r)' = RawBeat(r) /\ PredBeat(r)' = PredBeat(r)
                  /\ ProjBeat(r)' = ProjBeat(r)
    BY <1>2, FormsStay
  <1>4. /\ AtPred' = AtPred + Bit(pop) /\ AtPred \in Int /\ AtPred <= L
        /\ \A i \in 1 .. Len(fifo') : fifo'[i] = RawBeat(AtPred' + i - 1)
        /\ rd_tvalid => rd_beat = RawBeat(AtPred) /\ AtPred < L
    BY <1>1, FifoRows
  <1> HIDE DEF L
  <1>5. /\ AtProj = AtPred - Bit(pred_valid) /\ Consumed = AtProj - Bit(proj_valid)
        /\ AtProj' = AtPred' - Bit(pred_valid') /\ Consumed' = AtProj' - Bit(proj_valid')
    BY DEF AtProj, Consumed, Bit
  <1>6. /\ Bit(pred_valid) = (IF pred_valid THEN 1 ELSE 0)
        /\ Bit(proj_valid) = (IF proj_valid THEN 1 ELSE 0)
        /\ Bit(pred_valid') = (IF pred_valid' THEN 1 ELSE 0)
        /\ Bit(proj_valid') = (IF proj_valid' THEN 1 ELSE 0)
        /\ Bit(pop) = (IF pop THEN 1 ELSE 0)
        /\ Bit(take) = (IF take THEN 1 ELSE 0)
    BY Zenon DEF Bit
  <1>7. /\ AtProj \in Int /\ Consumed \in Int /\ AtPred >= AtProj /\ AtProj >= Consumed
        /\ Consumed \in 0 .. L
    BY <1>0, <1>1, <1>4, <1>5, <1>6
  \* The predicate stage.
  <1>8. /\ pred_tvalid => pred_out = PredBeat(AtProj)
        /\ pred_valid' => pred_reg' = PredBeat(AtProj)
        /\ pred_tvalid <=> pred_valid \/ rd_tvalid
    <2>1. rd_tvalid => AtPred \in 0 .. NUM_ROWS - 1
      BY <1>0, <1>1, <1>4, <1>7
    <2> QED BY <1>1, <1>4, <2>1, PredRow
  <1>9. /\ DOMAIN pred_out = {"pass", "columns", "last"}
        /\ pred_out.last \in BOOLEAN
        /\ pred_valid' <=> pred_tvalid /\ ~pred_tready
    BY PredStep
  <1>10. pred_tvalid => AtProj \in 0 .. NUM_ROWS - 1 /\ AtProj < L
    BY <1>0, <1>1, <1>4, <1>5, <1>6, <1>7, <1>8
  \* The projection stage.
  <1>11. /\ proj_tvalid => proj_out = ProjBeat(Consumed)
         /\ proj_valid' => proj_reg' = ProjBeat(Consumed)
         /\ proj_tvalid <=> proj_valid \/ pred_tvalid
    BY <1>1, <1>7, <1>8, <1>9, <1>10, ProjRow
  <1>12. proj_valid' <=> proj_tvalid /\ ~proj_tready
    BY <1>9, ProjStep
  <1>13. proj_tvalid => Consumed \in 0 .. NUM_ROWS - 1 /\ Consumed < L
    BY <1>0, <1>1, <1>4, <1>5, <1>6, <1>7, <1>10, <1>11
  <1>14. /\ pop <=> rd_tvalid /\ ~pred_valid
         /\ pred_tready <=> ~proj_valid
         /\ take <=> proj_tvalid /\ proj_tready
    BY DEF pop, pred_s_ready, PredReg!s_axis_tready, pred_tready,
           ProjReg!s_axis_tready, take
  <1>15. /\ Consumed' = Consumed + Bit(take)
         /\ pred_valid' => AtProj' = AtProj
         /\ proj_valid' => Consumed' = Consumed
    BY <1>4, <1>5, <1>6, <1>7, <1>8, <1>9, <1>11, <1>12, <1>14
  <1>16. proj_tvalid => (proj_out.last <=> Consumed + 1 = L)
    <2>1. ASSUME proj_tvalid PROVE proj_out.last <=> Consumed + 1 = L
      <3>1. PICK r, l : r = Consumed /\ l = L
        OBVIOUS
      <3>2. r \in 0 .. NUM_ROWS - 1 /\ proj_out = ProjBeat(r)
        BY <1>11, <1>13, <2>1, <3>1
      <3>3. ProjBeat(r).last = (r + 1 = l)
        BY <3>1, <3>2, BeatOfRow DEF L
      <3> QED BY <3>1, <3>2, <3>3, Zenon
    <2> QED BY <2>1
  <1>17. Expects' <=> Consumed' < L'
    <2>1. CASE take
      <3>1. proj_out.last <=> Consumed + 1 = L
        BY <1>14, <1>16, <2>1
      <3>2. Consumed' = Consumed + 1 /\ Expects
        BY <1>6, <1>15, <2>1
      <3>3. Consumed + 1 = L <=> ~(Consumed + 1 < L)
        BY <1>0, <1>1, <1>7, <3>2
      <3>4. Expects' <=> Consumed + 1 < L
        BY <2>1, <3>1, <3>2, <3>3
      <3> QED BY <1>3, <3>2, <3>4
    <2>2. CASE ~take
      <3>1. Consumed' = Consumed
        BY <1>6, <1>7, <1>15, <2>2
      <3>2. Expects' <=> Expects
        BY <2>2
      <3> QED BY <1>1, <1>3, <3>1, <3>2
    <2> QED BY <2>1, <2>2
  <1>18. InFlight'
    <2>1. PICK a, b, c : a = AtPred' /\ b = AtProj' /\ c = Consumed'
      OBVIOUS
    <2>2. \A i \in 1 .. Len(fifo') : fifo'[i] = RawBeat(a + i - 1)'
      BY <1>3, <1>4, <2>1
    <2>3. pred_valid' => pred_reg' = PredBeat(b)'
      BY <1>3, <1>8, <1>15, <2>1
    <2>4. proj_valid' => proj_reg' = ProjBeat(c)'
      BY <1>3, <1>11, <1>15, <2>1
    <2>5. c >= 0 /\ (Expects' <=> Consumed' < L')
      BY <1>1, <1>6, <1>7, <1>15, <1>17, <2>1
    <2> QED BY <2>1, <2>2, <2>3, <2>4, <2>5 DEF InFlight, L, RawBeat, PredBeat,
             ProjBeat, Service!Cell, Service!ScanLength
  <1> QED BY <1>2, <1>7, <1>11, <1>13, <1>14, <1>15, <1>18 DEF L

-----------------------------------------------------------------------------
(* The classic engines *)

\* A row taken by the engines.
LEMMA ClassicTake ==
  ASSUME Types, Flags, NEW rs \in SeenRows, NEW n \in 0 .. NUM_ROWS - 1,
         ClassicAre(rs, n), cl_busy["COUNT"], NEW last \in BOOLEAN,
         Classic!Consume(rs[n].pass, rs[n].val, last)
  PROVE  ClassicAre(rs, n + 1)'
  <1> DEFINE E == Classic!Engines
             p == rs[n].pass
             v == rs[n].val
             S == Passed(rs, n)
             V == ValsOf(rs, S)
             t == SumOf(rs, S)
             T == Passed(rs, n + 1)
             W == ValsOf(rs, T)
             u == SumOf(rs, T)
  <1>0. /\ NUM_ROWS \in Nat /\ AccMax \in Nat /\ ColMax \in Nat
        /\ ColMax <= AccMax /\ NUM_ROWS <= AccMax
        /\ n \in 0 .. NUM_ROWS
    BY TableAssumption, WidthsAssumption
  <1>1. p \in BOOLEAN /\ v \in 0 .. ColMax /\ v \in Nat
    BY <1>0, RowsTyped DEF SeenRows, SeenRow
  <1>2. /\ IsFiniteSet(S) /\ Cardinality(S) \in 0 .. n
        /\ \A r \in S : rs[r].val \in 0 .. ColMax /\ rs[r].val \in Nat
    BY <1>0, PassedFinite
  <1>3. n \notin S /\ T = S \cup (IF p THEN {n} ELSE {})
    BY RowAdded
  <1>4. V \subseteq 0 .. ColMax
    BY <1>2 DEF ValsOf
  <1>5. /\ t \in Nat
        /\ p => /\ u = t + v /\ W = V \cup {v}
                /\ Cardinality(T) = Cardinality(S) + 1
        /\ ~p => u = t /\ W = V /\ Cardinality(T) = Cardinality(S)
    <2>1. t \in Nat /\ SumOf(rs, S \cup {n}) = t + v
      BY <1>1, <1>2, <1>3, SumOfMore
    <2>2. Cardinality(S \cup {n}) = Cardinality(S) + 1
      BY <1>2, <1>3, FS_AddElement
    <2>3. ValsOf(rs, S \cup {n}) = V \cup {v}
      BY DEF ValsOf
    <2>4. (p => T = S \cup {n}) /\ (~p => T = S)
      BY <1>3
    <2> HIDE DEF S, T, v, p
    <2> QED BY <2>1, <2>2, <2>3, <2>4
  <1>6. /\ acc_q["COUNT"] = Cardinality(S)
        /\ acc_q["SUM"] = Service!Clip(t) /\ acc_q["AVG"] = Service!Clip(t)
        /\ of_q["SUM"] \in BOOLEAN /\ (of_q["SUM"] <=> t > AccMax)
        /\ acc_q["MIN"] \in V \cup {ColMax} /\ \A x \in V : acc_q["MIN"] <= x
        /\ acc_q["MAX"] \in V \cup {0} /\ \A x \in V : x <= acc_q["MAX"]
    BY DEF ClassicAre
  <1>7. /\ E = {"COUNT", "SUM", "MIN", "MAX", "AVG"}
        /\ \A e \in E : cl_busy[e] = cl_busy["COUNT"]
        /\ cl_done["COUNT"] => ~cl_busy["COUNT"]
        /\ cl_busy["COUNT"] \in BOOLEAN /\ cl_done["COUNT"] \in BOOLEAN
        /\ \A e \in E : cl_busy[e] \in BOOLEAN
    BY DEF Flags, Types, Classic!Engines
  <1> HIDE DEF p, v, S, V, t, T, W, u
  \* The five accumulators after the row.
  <1>8. /\ \A e \in E : acc_q'[e] = IF p THEN Classic!acc_next(e, v) ELSE acc_q[e]
        /\ of_q'["SUM"] = IF p THEN Classic!of_next("SUM", v) ELSE of_q["SUM"]
        /\ \A e \in E : last => res_q'[e] = acc_q'[e]
        /\ cl_done'["COUNT"] => last
    <2>1. \A e \in E : cl_busy[e]
      BY <1>7, Zenon
    <2> DEFINE acc == [e \in E |-> IF cl_busy[e] /\ p THEN Classic!acc_next(e, v)
                                                      ELSE acc_q[e]]
    <2>2. /\ acc_q' = acc
          /\ of_q' = [e \in Classic!Summing |->
                        IF cl_busy[e] /\ p THEN Classic!of_next(e, v) ELSE of_q[e]]
          /\ res_q' = [e \in E |-> IF cl_busy[e] /\ last THEN acc[e] ELSE res_q[e]]
          /\ cl_done' = [e \in E |-> cl_done[e] \/ (cl_busy[e] /\ last)]
      BY DEF Classic!Consume, p, v
    <2>3. \A e \in E : acc[e] = IF p THEN Classic!acc_next(e, v) ELSE acc_q[e]
      BY <2>1
    <2> HIDE DEF acc
    <2>4. \A e \in E : acc_q'[e] = IF p THEN Classic!acc_next(e, v) ELSE acc_q[e]
      BY <2>2, <2>3, Zenon
    <2>5. \A e \in E : last => res_q'[e] = acc_q'[e]
      BY <2>1, <2>2, Zenon
    <2>6. of_q'["SUM"] = IF p THEN Classic!of_next("SUM", v) ELSE of_q["SUM"]
      <3>1. "SUM" \in Classic!Summing /\ "SUM" \in E
        BY <1>7 DEF Classic!Summing
      <3> QED BY <2>1, <2>2, <3>1
    <2>7. cl_done'["COUNT"] => last
      <3>1. "COUNT" \in E
        BY <1>7
      <3>2. cl_done'["COUNT"] = (cl_done["COUNT"] \/ (cl_busy["COUNT"] /\ last))
        BY <2>2, <3>1
      <3> QED BY <1>7, <3>2, Zenon
    <2> QED BY <2>4, <2>5, <2>6, <2>7
  <1>9. cl_done'["COUNT"] => \A e \in E : res_q'[e] = acc_q'[e]
    BY <1>8
  <1>10. CASE ~p
    <2>1. \A e \in E : acc_q'[e] = acc_q[e]
      BY <1>8, <1>10
    <2>2. of_q'["SUM"] = of_q["SUM"]
      BY <1>8, <1>10
    <2>3. /\ acc_q'["COUNT"] = acc_q["COUNT"] /\ acc_q'["SUM"] = acc_q["SUM"]
          /\ acc_q'["AVG"] = acc_q["AVG"] /\ acc_q'["MIN"] = acc_q["MIN"]
          /\ acc_q'["MAX"] = acc_q["MAX"]
      BY <1>7, <2>1
    <2>4. u = t /\ W = V /\ Cardinality(T) = Cardinality(S)
      BY <1>5, <1>10
    <2> QED BY <1>6, <1>9, <2>2, <2>3, <2>4 DEF ClassicAre, T, W, u
  <1>11. CASE p
    <2>1. u = t + v /\ W = V \cup {v} /\ Cardinality(T) = Cardinality(S) + 1
      BY <1>5, <1>11
    <2>2. acc_q'["COUNT"] = Cardinality(T)
      <3> DEFINE a == acc_q["COUNT"]
      <3>1. acc_q'["COUNT"] = (Cardinality(S) + 1) % (AccMax + 1)
        <4>1. "COUNT" \in E
          BY <1>7
        <4>2. acc_q'["COUNT"] = Classic!acc_next("COUNT", v)
          BY <1>8, <1>11, <4>1
        <4>3. Classic!acc_next("COUNT", v) = (a + 1) % (AccMax + 1)
          <5>1. "COUNT" # "SUM" /\ "COUNT" # "AVG" /\ "COUNT" \notin Classic!Summing
            BY DEF Classic!Summing
          <5>2. Classic!acc_next("COUNT", v) = Classic!count_next(a)
            BY <5>1 DEF Classic!acc_next
          <5> QED BY <5>2 DEF Classic!count_next
        <4> QED BY <1>6, <4>2, <4>3
      <3>2. Cardinality(S) + 1 \in 0 .. AccMax
        BY <1>0, <1>2
      <3> DEFINE c == Cardinality(S) + 1
      <3>3. c % (AccMax + 1) = c
        <4>1. c \in 0 .. AccMax
          BY <3>2
        <4> HIDE DEF c
        <4> QED BY <1>0, <4>1
      <3> QED BY <2>1, <3>1, <3>3
    <2>3. Service!Clip(u) = (IF Service!Clip(t) + v > AccMax THEN AccMax
                             ELSE Service!Clip(t) + v)
      BY <1>0, <1>1, <1>5, <2>1 DEF Service!Clip
    <2>4. acc_q'["SUM"] = Service!Clip(u) /\ acc_q'["AVG"] = Service!Clip(u)
      <3>1. \A e \in {"SUM", "AVG"} :
              acc_q'[e] = IF acc_q[e] + v > AccMax THEN AccMax ELSE acc_q[e] + v
        BY <1>7, <1>8, <1>11
        DEF Classic!acc_next, Classic!Summing, Classic!sum_next, Classic!sum_ext
      <3> QED BY <1>6, <2>3, <3>1
    <2>5. of_q'["SUM"] \in BOOLEAN /\ (of_q'["SUM"] <=> u > AccMax)
      <3>1. of_q'["SUM"] = (of_q["SUM"] \/ Service!Clip(t) + v > AccMax)
        BY <1>6, <1>8, <1>11, Zenon DEF Classic!of_next, Classic!sum_ext
      <3>2. (Service!Clip(t) + v > AccMax) \in BOOLEAN
        OBVIOUS
      <3>3. of_q'["SUM"] \in BOOLEAN
            /\ (of_q'["SUM"] <=> t > AccMax \/ Service!Clip(t) + v > AccMax)
        BY <1>6, <3>1, <3>2, Zenon
      <3>4. u > AccMax <=> t > AccMax \/ Service!Clip(t) + v > AccMax
        BY <1>0, <1>1, <1>5, <2>1 DEF Service!Clip
      <3> QED BY <3>3, <3>4
    <2>6. acc_q'["MIN"] \in W \cup {ColMax} /\ \A x \in W : acc_q'["MIN"] <= x
      <3>1. acc_q'["MIN"] = IF v < acc_q["MIN"] THEN v ELSE acc_q["MIN"]
        BY <1>7, <1>8, <1>11
        DEF Classic!acc_next, Classic!Summing, Classic!min_next
      <3>2. acc_q["MIN"] \in Nat
        <4>1. V \cup {ColMax} \subseteq Nat
          BY <1>0, <1>4
        <4> QED BY <1>6, <4>1, Zenon
      <3> QED BY <1>1, <1>4, <1>6, <2>1, <3>1, <3>2
    <2>7. acc_q'["MAX"] \in W \cup {0} /\ \A x \in W : x <= acc_q'["MAX"]
      <3>1. acc_q'["MAX"] = IF v > acc_q["MAX"] THEN v ELSE acc_q["MAX"]
        BY <1>7, <1>8, <1>11
        DEF Classic!acc_next, Classic!Summing, Classic!max_next
      <3>2. acc_q["MAX"] \in Nat
        <4>1. V \cup {0} \subseteq Nat
          BY <1>0, <1>4
        <4> QED BY <1>6, <4>1, Zenon
      <3> QED BY <1>1, <1>4, <1>6, <2>1, <3>1, <3>2
    <2> QED BY <1>9, <2>2, <2>4, <2>5, <2>6, <2>7 DEF ClassicAre, T, W, u
  <1> QED BY <1>1, <1>10, <1>11

\* Nothing is taken.
LEMMA ClassicRest ==
  ASSUME Types, Flags, NEW rs, NEW n, ClassicAre(rs, n),
         NEW sValid, NEW pass, NEW v, NEW last,
         ~(sValid /\ cl_busy["COUNT"]),
         Classic!EnginesEdge(FALSE, sValid, pass, v, last)
  PROVE  ClassicAre(rs, n)'
  <1> DEFINE E == Classic!Engines
  <1>0. /\ E = {"COUNT", "SUM", "MIN", "MAX", "AVG"}
        /\ \A e \in E : cl_busy[e] = cl_busy["COUNT"]
        /\ cl_done \in [E -> BOOLEAN]
    BY DEF Flags, Types, Classic!Engines
  <1>1. CASE ~sValid
    <2>1. acc_q' = acc_q /\ of_q' = of_q /\ res_q' = res_q /\ cl_done' = cl_done
      BY <1>1 DEF Classic!EnginesEdge, Classic!engineVars
    <2> QED BY <2>1 DEF ClassicAre
  <1>2. CASE sValid
    <2>1. \A e \in E : ~cl_busy[e]
      BY <1>0, <1>2, Zenon
    <2>2. Classic!Consume(pass, v, last)
      BY <1>2 DEF Classic!EnginesEdge
    <2>3. "SUM" \in Classic!Summing /\ Classic!Summing \subseteq E
      BY DEF Classic!Summing, Classic!Engines
    <2>4. /\ \A e \in E : acc_q'[e] = acc_q[e] /\ res_q'[e] = res_q[e]
          /\ of_q'["SUM"] = of_q["SUM"]
      BY <2>1, <2>2, <2>3 DEF Classic!Consume
    <2>5. cl_done'["COUNT"] = (cl_done["COUNT"] \/ (cl_busy["COUNT"] /\ last))
      BY <1>0, <2>2 DEF Classic!Consume
    <2>6. cl_done'["COUNT"] => cl_done["COUNT"]
      BY <1>0, <2>1, <2>5, Zenon
    <2>7. \A e \in {"COUNT", "SUM", "MIN", "MAX", "AVG"} :
            acc_q'[e] = acc_q[e] /\ res_q'[e] = res_q[e]
      BY <1>0, <2>4
    <2> QED BY <2>4, <2>6, <2>7 DEF ClassicAre, Classic!Engines
  <1> QED BY <1>1, <1>2

\* The start of a query.
LEMMA ClassicBegins ==
  ASSUME NEW rs, Classic!EnginesStart
  PROVE  ClassicAre(rs, 0)'
  <1>1. /\ acc_q'["COUNT"] = 0 /\ acc_q'["SUM"] = 0 /\ acc_q'["AVG"] = 0
        /\ acc_q'["MIN"] = ColMax /\ acc_q'["MAX"] = 0
        /\ of_q'["SUM"] = FALSE /\ cl_done'["COUNT"] = FALSE
    BY DEF Classic!EnginesStart, Classic!ClearAccumulators, Classic!Engines,
           Classic!Summing, Classic!Identity
  <1>2. Passed(rs, 0) = {} /\ SumOf(rs, {}) = 0 /\ ValsOf(rs, {}) = {}
    BY TableOfNone, SumOfNone DEF ValsOf
  <1>3. Cardinality({}) = 0 /\ Service!Clip(0) = 0 /\ ~(0 > AccMax)
    BY FS_EmptySet, WidthsAssumption DEF Service!Clip
  <1> QED BY <1>1, <1>2, <1>3 DEF ClassicAre

-----------------------------------------------------------------------------
(* The GROUP BY engine *)

\* A row taken by the engine.
LEMMA GroupTakes ==
  ASSUME GroupFolds, Seen \in SeenRows, Seen' = Seen,
         Consumed \in 0 .. NUM_ROWS - 1, Consumed' = Consumed + 1, out' = out,
         GroupBy!WritePort, GroupBy!ReadPort, gb_busy,
         NEW r, r = Seen[Consumed], NEW last \in BOOLEAN,
         GroupBy!AcceptRow(TRUE, r.pass, r.key, r.val, last)
  PROVE  GroupFolds'
  <1>0. PICK rs, n : rs = Seen /\ n = Consumed
    OBVIOUS
  <1>1. /\ rs \in SeenRows /\ n \in 0 .. NUM_ROWS - 1 /\ r = rs[n]
        /\ RoomLeft(rs, n) /\ NUM_ROWS \in Nat
    BY <1>0, TableAssumption DEF GroupFolds
  <1>2. n \in 0 .. n + 1 - 1 /\ n + 1 \in 0 .. NUM_ROWS /\ n < NUM_ROWS
    BY <1>1
  <1>3. r.pass \in BOOLEAN /\ r.key \in 0 .. ColMax /\ r.val \in 0 .. ColMax
    BY <1>1, <1>2, RowsTyped
  <1>4. /\ RoomLeft(rs, n + 1)
        /\ Table(rs, n + 1) = IF r.pass THEN GB!Absorbed(Table(rs, n), r.key, r.val)
                              ELSE Table(rs, n)
    BY <1>1, TableMore
  <1>5. Seen' = rs /\ Consumed' = n + 1
    BY <1>0
  <1>6. RoomLeft(Seen, Consumed)'
    BY <1>4, <1>5
  <1>7. Table(Seen, Consumed)' =
          IF r.pass THEN GB!Absorbed(Table(Seen, Consumed), r.key, r.val)
          ELSE Table(Seen, Consumed)
    <2>1. Table(Seen, Consumed)' = Table(Seen', Consumed')
      OBVIOUS
    <2> QED BY <1>0, <1>4, <1>5, <2>1
  <1>8. <<>> \in Seq([key : 0 .. ColMax, val : 0 .. ColMax])
    BY EmptySeq
  <1>9. GB!WritePort /\ GB!ReadPort
    BY DEF GroupBy!WritePort, GroupBy!ReadPort, GB!WritePort, GB!ReadPort
  <1>10. GB!AcceptRow(TRUE, r.pass, r.key, r.val, last)
    BY DEF GroupBy!AcceptRow, GB!AcceptRow, GroupBy!BeginDump, GB!BeginDump,
           GroupBy!IssueRead, GB!IssueRead, GroupBy!probeVars, GB!probeVars,
           GroupBy!presentVars, GB!presentVars
  <1>11. GB!IInv /\ Consumed < NUM_ROWS /\ Consumed' = Consumed + 1 /\ out' = out
    BY <1>0, <1>2 DEF GroupFolds
  <1>12. GB!IInv'
    BY <1>3, <1>7, <1>8, <1>9, <1>10, <1>11, GB!AcceptKeeps, CoreAssumed
  <1> QED BY <1>6, <1>12 DEF GroupFolds

\* The engine works or waits.
LEMMA GroupRests ==
  ASSUME GroupFolds, Seen' = Seen, Consumed' = Consumed,
         NEW gReady \in BOOLEAN, NEW sValid, NEW pass, NEW key, NEW val, NEW last,
         ~(sValid /\ GroupBy!s_axis_tready),
         GroupBy!GbEdge(FALSE, sValid, pass, key, val, last, gReady),
         out' = IF GroupBy!m_axis_tvalid /\ gReady
                THEN Append(out, [group |-> present_out_q, last |-> present_is_last_q])
                ELSE out
  PROVE  GroupFolds'
  <1>1. Table(Seen, Consumed)' = Table(Seen, Consumed)
    OBVIOUS
  <1>2. RoomLeft(Seen, Consumed)'
    BY DEF GroupFolds
  <1>3. GB!GbEdge(FALSE, FALSE, FALSE, 0, 0, FALSE, gReady)
    <2>1. GB!WritePort /\ GB!ReadPort
      BY DEF GroupBy!GbEdge, GroupBy!WritePort, GroupBy!ReadPort, GB!WritePort, GB!ReadPort
    <2>2. CASE ~gb_busy
      BY <2>1, <2>2
      DEF GroupBy!GbEdge, GB!GbEdge, GroupBy!writeVars, GroupBy!rowVars,
          GroupBy!probeVars, GroupBy!presentVars, GB!writeVars, GB!rowVars,
          GB!probeVars, GB!presentVars
    <2>3. CASE gb_busy
      <3>1. \/ GroupBy!Clear \/ GroupBy!AcceptRow(sValid, pass, key, val, last)
            \/ GroupBy!AwaitBucket \/ GroupBy!Probe \/ GroupBy!Update
            \/ GroupBy!WriteDone \/ GroupBy!ScanPass \/ GroupBy!Hold(gReady)
            \/ GroupBy!PresentPass
        BY <2>3 DEF GroupBy!GbEdge
      <3> USE DEF GroupBy!writeVars, GroupBy!rowVars, GroupBy!probeVars,
            GroupBy!presentVars, GB!writeVars, GB!rowVars, GB!probeVars, GB!presentVars,
            GroupBy!BeginDump, GB!BeginDump, GroupBy!IssueRead, GB!IssueRead,
            GroupBy!BucketSucc, GB!BucketSucc
      <3>2. GroupBy!Clear => GB!Clear
        BY DEF GroupBy!Clear, GB!Clear, GroupBy!EmptyBucket, GB!EmptyBucket
      <3>3. GroupBy!AcceptRow(sValid, pass, key, val, last)
              => GB!AcceptRow(FALSE, FALSE, 0, 0, FALSE)
        <4> SUFFICES ASSUME GroupBy!AcceptRow(sValid, pass, key, val, last)
                     PROVE  GB!AcceptRow(FALSE, FALSE, 0, 0, FALSE)
          OBVIOUS
        <4>1. ~sValid
          BY <2>3 DEF GroupBy!AcceptRow, GroupBy!s_axis_tready
        <4> QED BY <4>1 DEF GroupBy!AcceptRow, GB!AcceptRow
      <3>4. GroupBy!AwaitBucket => GB!AwaitBucket
        BY DEF GroupBy!AwaitBucket, GB!AwaitBucket
      <3>5. GroupBy!Probe => GB!Probe
        BY DEF GroupBy!Probe, GB!Probe, GroupBy!Collision, GB!Collision,
               GroupBy!AfterRow, GB!AfterRow, GroupBy!ProbeSucc, GB!ProbeSucc
      <3>6. GroupBy!Update => GB!Update
        <4>1. GroupBy!updated_bucket = GB!updated_bucket
          BY Zenon DEF GroupBy!updated_bucket, GB!updated_bucket
        <4> QED BY <4>1 DEF GroupBy!Update, GB!Update, GroupBy!Collision, GB!Collision
      <3>7. GroupBy!WriteDone => GB!WriteDone
        BY DEF GroupBy!WriteDone, GB!WriteDone, GroupBy!AfterRow, GB!AfterRow
      <3>8. GroupBy!ScanPass => GB!ScanPass
        BY DEF GroupBy!ScanPass, GB!ScanPass, GroupBy!AwaitDump, GB!AwaitDump,
               GroupBy!LastValid, GB!LastValid, GroupBy!IssueNext, GB!IssueNext
      <3>9. GroupBy!Hold(gReady) => GB!Hold(gReady)
        BY DEF GroupBy!Hold, GB!Hold, GroupBy!AdvanceOrEnd, GB!AdvanceOrEnd,
               GroupBy!IssueNext, GB!IssueNext
      <3>10. GroupBy!PresentPass => GB!PresentPass
        BY Zenon DEF GroupBy!PresentPass, GB!PresentPass, GroupBy!AdvanceOrEnd, GB!AdvanceOrEnd,
               GroupBy!IssueNext, GB!IssueNext, GroupBy!AwaitDump, GB!AwaitDump,
               GroupBy!NoGroup, GB!NoGroup
      <3> QED BY <2>1, <2>3, <3>1, <3>2, <3>3, <3>4, <3>5, <3>6, <3>7, <3>8, <3>9, <3>10, Zenon
              DEF GB!GbEdge
    <2> QED BY <2>2, <2>3
  <1>4. out' = IF GB!m_axis_tvalid /\ gReady
               THEN Append(out, [group |-> present_out_q, last |-> present_is_last_q])
               ELSE out
    BY Zenon DEF GroupBy!m_axis_tvalid, GB!m_axis_tvalid
  <1>5. GB!Tick(gReady)
    BY <1>1, <1>3, <1>4, Zenon DEF GB!Tick
  <1>6. GB!IInv'
    BY <1>5, GB!TickKeeps, CoreAssumed DEF GroupFolds
  <1> QED BY <1>2, <1>6 DEF GroupFolds

\* The start of a query.
LEMMA GroupBegins ==
  ASSUME EngineTypes, GroupBy!WritePort, GroupBy!ReadPort, GroupBy!GbStart,
         Consumed' = 0, out' = <<>>
  PROVE  GroupFolds'
  <1>0. PICK rs : rs = Seen'
    OBVIOUS
  <1>1. Table(rs, 0) = <<>> /\ RoomLeft(rs, 0)
    BY TableOfNone
  <1>2. RoomLeft(Seen, Consumed)'
    BY <1>0, <1>1
  <1>3. Table(Seen, Consumed)' = <<>>
    <2>1. Table(Seen, Consumed)' = Table(Seen', Consumed')
      OBVIOUS
    <2> QED BY <1>0, <1>1, <2>1
  <1>4. GB!WritePort /\ GB!ReadPort /\ GB!GbStart
    BY DEF GroupBy!WritePort, GroupBy!ReadPort, GB!WritePort, GB!ReadPort,
           GroupBy!GbStart, GB!GbStart, GroupBy!rowVars, GroupBy!probeVars,
           GB!rowVars, GB!probeVars
  <1>5. GB!Forget
    BY <1>3 DEF GB!Forget
  <1>6. GB!IInv'
    BY <1>4, <1>5, GB!StartFrom, CoreAssumed DEF EngineTypes
  <1> QED BY <1>2, <1>6 DEF GroupFolds

-----------------------------------------------------------------------------
(* An edge of a running query *)

ScanEdge(start, gReady) ==
  ServiceInv /\ state_q = "SCAN" /\ cfg' = cfg /\ Edge(start, NoLoad, gReady)

\* The rows move, and the aggregation takes the next one or none.
LEMMA ScanMoves ==
  ASSUME NEW start \in BOOLEAN, NEW gReady \in BOOLEAN, ScanEdge(start, gReady)
  PROVE  /\ IInv' /\ Types /\ Flags /\ SideIdle
         /\ FsmScan(start)
         /\ Reader!FsmEdge(FALSE, cfg.num_rows)
         /\ AggregationEdge(FALSE, gReady)
         /\ out' = IF GroupBy!m_axis_tvalid /\ gReady
                   THEN Append(out, [group |-> present_out_q,
                                     last |-> present_is_last_q])
                   ELSE out
         /\ mem' = mem /\ ReaderAt' /\ InFlight'
         /\ Seen' = Seen /\ Service!ScanLength' = Service!ScanLength
         /\ Seen \in SeenRows
         /\ Consumed \in 0 .. Service!ScanLength
         /\ Consumed' = Consumed + Bit(take)
         /\ proj_out.last \in BOOLEAN
         /\ take => /\ Consumed \in 0 .. NUM_ROWS - 1
                    /\ Seen[Consumed].pass = proj_out.pass
                    /\ Seen[Consumed].key = proj_out.columns[cfg.gby_key]
                    /\ Seen[Consumed].val = proj_out.columns[cfg.column]
  <1>0. /\ IInv /\ Types /\ Flags /\ SideIdle /\ state_q = "SCAN" /\ cfg' = cfg
        /\ cfg \in Configs /\ ReaderAt /\ InFlight
        /\ Edge(start, NoLoad, gReady)
    BY DEF ScanEdge, ServiceInv, Scanning, IInv, OneMarker
  <1>1. qstart(start) = FALSE
    BY <1>0 DEF qstart
  <1>2. /\ Reader!ReaderEdge(FALSE, cfg.num_rows, NoLoad, pred_s_ready)
        /\ PredReg!RegisterEdge(rd_tvalid, pred_in, pred_tready)
        /\ ProjReg!RegisterEdge(pred_tvalid, proj_in, proj_tready)
        /\ AggregationEdge(FALSE, gReady)
        /\ FsmScan(start)
        /\ out' = IF GroupBy!m_axis_tvalid /\ gReady
                  THEN Append(out, [group |-> present_out_q,
                                    last |-> present_is_last_q])
                  ELSE out
    BY <1>0, <1>1 DEF Edge, FsmIdle, FsmDone
  <1>3. proj_out.last \in BOOLEAN
    <2>1. DOMAIN pred_out = {"pass", "columns", "last"} /\ pred_out.last \in BOOLEAN
      BY <1>0, <1>2, PredStep
    <2> QED BY <1>0, <1>2, <2>1, ProjStep
  <1>4. Expects' <=> Expects /\ ~(take /\ proj_out.last)
    <2>1. Types /\ Flags /\ SideIdle /\ cfg' = cfg
      BY <1>0
    <2>2. AggregationEdge(FALSE, gReady)
      BY <1>2
    <2> QED BY <1>3, <2>1, <2>2, AggregationStep, Zenon
  <1>5. take => Expects
    BY DEF take, proj_tready, Expects, GbExpects, GroupBy!s_axis_tready,
           Classic!classic_tready
  <1>6. /\ mem' = mem /\ ReaderAt' /\ InFlight'
        /\ Consumed \in 0 .. Service!ScanLength
        /\ Consumed' = Consumed + Bit(take)
        /\ take => Consumed < Service!ScanLength /\ proj_out = ProjBeat(Consumed)
    BY <1>0, <1>2, <1>4, <1>5, RowsMove
  <1>7. Seen' = Seen /\ Service!ScanLength' = Service!ScanLength
    BY <1>0, <1>6, FormsStay
  <1>8. Seen \in SeenRows
    BY <1>0, SeenIs
  <1>9. ASSUME take
        PROVE  /\ Consumed \in 0 .. NUM_ROWS - 1
               /\ Seen[Consumed].pass = proj_out.pass
               /\ Seen[Consumed].key = proj_out.columns[cfg.gby_key]
               /\ Seen[Consumed].val = proj_out.columns[cfg.column]
    <2>1. PICK r : r = Consumed
      OBVIOUS
    <2>2. r \in 0 .. NUM_ROWS - 1
      <3>1. Service!ScanLength \in 1 .. NUM_ROWS /\ NUM_ROWS \in Nat
        BY <1>0, ConfigIs, TableAssumption
      <3>2. Consumed \in 0 .. Service!ScanLength /\ Consumed < Service!ScanLength
        BY <1>6, <1>9
      <3> QED BY <2>1, <3>1, <3>2
    <2>3. proj_out = ProjBeat(r)
      BY <1>6, <1>9, <2>1
    <2>4. /\ ProjBeat(r).pass = Seen[r].pass
          /\ ProjBeat(r).columns[cfg.column] = Seen[r].val
          /\ ProjBeat(r).columns[cfg.gby_key] = Seen[r].key
      BY <1>0, <2>2, BeatOfRow
    <2> QED BY <2>1, <2>2, <2>3, <2>4
  <1>10. IInv'
    <2>1. LoadTypes(NoLoad)
      BY DEF LoadTypes, NoLoad
    <2> QED BY <1>0, <2>1, ScanStep
  <1>11. Reader!FsmEdge(FALSE, cfg.num_rows)
    BY <1>2 DEF Reader!ReaderEdge
  <1> QED BY <1>0, <1>2, <1>3, <1>6, <1>7, <1>8, <1>9, <1>10, <1>11

\* An engine that no query uses keeps its registers, but for the RAM's ports.
LEMMA EngineRests ==
  ASSUME EngineTypes, ~gb_busy, NEW sValid, NEW pass, NEW key, NEW val,
         NEW last, NEW gReady,
         GroupBy!GbEdge(FALSE, sValid, pass, key, val, last, gReady)
  PROVE  EngineTypes'
  <1>1. /\ GroupBy!WritePort /\ GroupBy!ReadPort
        /\ UNCHANGED <<gb_raddr, wen_q, waddr_q, wdata_q, gb_state, gb_busy,
                       gb_done, rd_stage_q, row_key_q, row_val_q, row_last_q,
                       probe_idx_q, probe_count_q, dump_idx_q, last_valid_q,
                       clear_idx_q, present_hold_q, present_is_last_q,
                       present_out_q>>
    BY DEF GroupBy!GbEdge, GroupBy!writeVars, GroupBy!rowVars,
           GroupBy!probeVars, GroupBy!presentVars
  <1>2. GB!RamTypes'
    BY <1>1 DEF EngineTypes, GB!RamTypes, GB!AddressTypes, GB!FlagTypes,
                GroupBy!WritePort, GroupBy!ReadPort
  <1>3. GB!AddressTypes' /\ GB!ControlTypes' /\ GB!FlagTypes' /\ GB!DataTypes'
    BY <1>1 DEF EngineTypes, GB!AddressTypes, GB!ControlTypes, GB!FlagTypes,
                GB!DataTypes
  <1> QED BY <1>2, <1>3 DEF EngineTypes

LEMMA GroupTypes ==
  ASSUME GroupFolds' PROVE EngineTypes'
  BY GB!TypeParts, CoreAssumed DEF GroupFolds, GB!IInv, EngineTypes

\* The aggregation holds what its rows amount to.
LEMMA FoldsMove ==
  ASSUME NEW start \in BOOLEAN, NEW gReady \in BOOLEAN, ScanEdge(start, gReady)
  PROVE  /\ cfg.groupby => GroupFolds'
         /\ ~cfg.groupby => ClassicFolds'
         /\ EngineTypes'
  <1> DEFINE last == proj_out.last
             pass == proj_out.pass
             val == proj_out.columns[cfg.column]
             key == proj_out.columns[cfg.gby_key]
             clValid == proj_tvalid /\ ~cfg.groupby
             gbValid == proj_tvalid /\ cfg.groupby
  <1>0. /\ Types /\ Flags /\ SideIdle /\ EngineTypes
        /\ AggregationEdge(FALSE, gReady)
        /\ Seen' = Seen /\ Seen \in SeenRows
        /\ Consumed' = Consumed + Bit(take) /\ Consumed \in Nat
        /\ last \in BOOLEAN
        /\ take => /\ Consumed \in 0 .. NUM_ROWS - 1
                   /\ Seen[Consumed].pass = pass
                   /\ Seen[Consumed].key = key /\ Seen[Consumed].val = val
        /\ out' = IF GroupBy!m_axis_tvalid /\ gReady
                  THEN Append(out, [group |-> present_out_q,
                                    last |-> present_is_last_q])
                  ELSE out
    <2>1. Service!ScanLength \in Nat /\ EngineTypes
      BY ConfigIs DEF ScanEdge, ServiceInv
    <2>2. Consumed \in 0 .. Service!ScanLength
      BY ScanMoves
    <2>3. Consumed \in Nat
      BY <2>1, <2>2
    <2>4. /\ Types /\ Flags /\ SideIdle
          /\ AggregationEdge(FALSE, gReady)
          /\ Seen' = Seen /\ Seen \in SeenRows
          /\ Consumed' = Consumed + Bit(take)
          /\ out' = IF GroupBy!m_axis_tvalid /\ gReady
                    THEN Append(out, [group |-> present_out_q,
                                      last |-> present_is_last_q])
                    ELSE out
      BY ScanMoves
    <2>5. /\ last \in BOOLEAN
          /\ take => /\ Consumed \in 0 .. NUM_ROWS - 1
                     /\ Seen[Consumed].pass = pass
                     /\ Seen[Consumed].key = key /\ Seen[Consumed].val = val
      BY ScanMoves
    <2> QED BY <2>1, <2>3, <2>4, <2>5
  <1>1. /\ cfg.groupby => GroupFolds
        /\ ~cfg.groupby => ClassicFolds
    BY DEF ScanEdge, ServiceInv, Scanning
  <1>2. /\ Classic!EnginesEdge(FALSE, clValid, pass, val, last)
        /\ GroupBy!GbEdge(FALSE, gbValid, pass, key, val, last, gReady)
    BY <1>0 DEF AggregationEdge
  <1> HIDE DEF last, pass, val, key
  <1>3. take => Consumed' = Consumed + 1
    BY <1>0, BitIs
  <1>4. ~take => Consumed' = Consumed
    BY <1>0, BitIs
  <1>5. CASE cfg.groupby /\ take
    <2>1. gb_busy /\ gb_state = "AGG_IDLE" /\ gbValid
      BY <1>5 DEF take, proj_tready, GroupBy!s_axis_tready
    <2> HIDE DEF gbValid
    <2>2. /\ GroupBy!WritePort /\ GroupBy!ReadPort
          /\ GroupBy!AcceptRow(gbValid, pass, key, val, last)
      BY <1>2, <2>1
      DEF GroupBy!GbEdge, GroupBy!Clear, GroupBy!AwaitBucket, GroupBy!Probe,
          GroupBy!Update, GroupBy!WriteDone, GroupBy!ScanPass, GroupBy!Hold,
          GroupBy!PresentPass
    <2>3. GroupBy!AcceptRow(TRUE, pass, key, val, last)
      BY <2>1, <2>2 DEF GroupBy!AcceptRow
    <2>4. out' = out
      BY <1>0, <2>1 DEF GroupBy!m_axis_tvalid
    <2>5. PICK r : r = Seen[Consumed]
      OBVIOUS
    <2>6. GroupBy!AcceptRow(TRUE, r.pass, r.key, r.val, last)
      BY <1>0, <1>5, <2>3, <2>5
    <2>7. Consumed \in 0 .. NUM_ROWS - 1 /\ Consumed' = Consumed + 1
      BY <1>0, <1>3, <1>5
    <2>8. GroupFolds'
      BY <1>0, <1>1, <1>5, <2>1, <2>2, <2>4, <2>5, <2>6, <2>7, GroupTakes
    <2> QED BY <1>5, <2>8, GroupTypes
  <1>6. CASE cfg.groupby /\ ~take
    <2>1. ~(gbValid /\ GroupBy!s_axis_tready)
      BY <1>6 DEF take, proj_tready
    <2>2. GroupFolds'
      BY <1>0, <1>1, <1>2, <1>4, <1>6, <2>1, GroupRests
    <2> QED BY <1>6, <2>2, GroupTypes
  <1>7. CASE ~cfg.groupby
    <2>1. EngineTypes'
      <3>1. ~gb_busy
        BY <1>0, <1>7 DEF SideIdle
      <3> QED BY <1>0, <1>2, <3>1, EngineRests
    <2>2. PICK rs, n : rs = Seen /\ n = Consumed
      OBVIOUS
    <2>3. ClassicAre(rs, n) /\ rs \in SeenRows
      BY <1>0, <1>1, <1>7, <2>2 DEF ClassicFolds
    <2>4. CASE take
      <3>1. cl_busy["COUNT"] /\ clValid
        BY <1>7, <2>4 DEF take, proj_tready, Classic!classic_tready
      <3>2. Classic!Consume(pass, val, last)
        BY <1>2, <3>1 DEF Classic!EnginesEdge
      <3>3. n \in 0 .. NUM_ROWS - 1 /\ Classic!Consume(rs[n].pass, rs[n].val, last)
        BY <1>0, <2>2, <2>4, <3>2
      <3>4. ClassicAre(rs, n + 1)'
        BY <1>0, <2>3, <3>1, <3>3, ClassicTake
      <3>5. Seen' = rs /\ Consumed' = n + 1
        BY <1>0, <1>3, <2>2, <2>4
      <3>6. ClassicFolds'
        BY <3>4, <3>5 DEF ClassicFolds, ClassicAre
      <3> QED BY <1>7, <2>1, <3>6
    <2>5. CASE ~take
      <3>1. ~(clValid /\ cl_busy["COUNT"])
        BY <1>7, <2>5 DEF take, proj_tready, Classic!classic_tready
      <3>2. ClassicAre(rs, n)'
        BY <1>0, <1>2, <2>3, <3>1, ClassicRest
      <3>3. Seen' = rs /\ Consumed' = n
        BY <1>0, <1>4, <2>2, <2>5
      <3>4. ClassicFolds'
        BY <3>2, <3>3 DEF ClassicFolds, ClassicAre
      <3> QED BY <1>7, <2>1, <3>4
    <2> QED BY <2>4, <2>5
  <1> QED BY <1>5, <1>6, <1>7

LEMMA ScanKeeps ==
  ASSUME NEW start \in BOOLEAN, NEW gReady \in BOOLEAN, ScanEdge(start, gReady)
  PROVE  ServiceInv'
  <1>1. /\ IInv' /\ ReaderAt' /\ InFlight' /\ FsmScan(start)
        /\ Reader!FsmEdge(FALSE, cfg.num_rows)
    BY ScanMoves
  <1>2. /\ cfg' = cfg /\ cfg \in Configs /\ state_q = "SCAN"
        /\ ~reader_busy => raddr_q = 0
    BY DEF ScanEdge, ServiceInv
  <1>3. ~reader_busy' => raddr_q' = 0
    BY <1>1, <1>2 DEF Reader!FsmEdge, Reader!Finish, Reader!FetchNext,
                      Reader!AwaitFresh, Reader!fsmVars
  <1>4. state_q' \in {"SCAN", "DONE"}
    BY <1>1, <1>2 DEF FsmScan
  <1>5. /\ cfg.groupby => GroupFolds'
        /\ ~cfg.groupby => ClassicFolds'
        /\ EngineTypes'
    BY FoldsMove
  <1>6. Scanning'
    BY <1>1, <1>2, <1>5 DEF Scanning
  <1> QED BY <1>1, <1>2, <1>3, <1>4, <1>5, <1>6 DEF ServiceInv

-----------------------------------------------------------------------------
(* The other steps *)

\* An edge between queries.
LEMMA QuietMoves ==
  ASSUME ServiceInv, state_q # "SCAN", NEW start \in BOOLEAN, cfg' \in Configs,
         start => cfg' = cfg, NEW load, LoadTypes(load), start => load = NoLoad,
         NEW gReady \in BOOLEAN, Edge(start, load, gReady)
  PROVE  /\ ServiceInv'
         /\ state_q' = IF start THEN "SCAN" ELSE state_q
         /\ error_q' = IF start THEN "NONE" ELSE error_q
         /\ UNCHANGED <<result_q, count_q, overflow_q>>
         /\ out' = IF start THEN <<>> ELSE out
         /\ start => mem' = mem
  <1>0. /\ IInv /\ Types /\ Flags /\ EngineTypes /\ state_q # "SCAN"
        /\ ~reader_busy => raddr_q = 0
        /\ state_q = "IDLE" => error_q = "NONE"
    BY DEF ServiceInv, IInv
  <1>1. /\ fifo = <<>> /\ ~pred_valid /\ ~proj_valid
        /\ ~reader_busy /\ ~gb_busy /\ \A e \in Classic!Engines : ~cl_busy[e]
    BY <1>0 DEF IInv, Drained
  <1>2. FsmIdle(start) \/ FsmDone(start)
    BY <1>0 DEF Edge, FsmScan
  <1>3. state_q \in {"IDLE", "DONE"} /\ qstart(start) = start
    BY <1>2 DEF FsmIdle, FsmDone, qstart
  <1>4. /\ state_q' = IF start THEN "SCAN" ELSE state_q
        /\ error_q' = IF start THEN "NONE" ELSE error_q
        /\ UNCHANGED <<result_q, count_q, overflow_q>>
    BY <1>0, <1>2 DEF FsmIdle, FsmDone
  <1>5. /\ Reader!ReaderEdge(start, cfg.num_rows, load, pred_s_ready)
        /\ PredReg!RegisterEdge(rd_tvalid, pred_in, pred_tready)
        /\ ProjReg!RegisterEdge(pred_tvalid, proj_in, proj_tready)
        /\ AggregationEdge(start, gReady)
        /\ out' = IF start THEN <<>>
                  ELSE IF GroupBy!m_axis_tvalid /\ gReady
                  THEN Append(out, [group |-> present_out_q,
                                    last |-> present_is_last_q])
                  ELSE out
    BY <1>3 DEF Edge
  <1>6. out' = IF start THEN <<>> ELSE out
    <2>1. ~GroupBy!m_axis_tvalid
      BY <1>0, <1>1 DEF Flags, GroupBy!m_axis_tvalid
    <2> QED BY <1>5, <2>1
  <1>7. fifo' = <<>> /\ ~pred_valid' /\ ~proj_valid' /\ ~proj_tvalid
    <2>1. ~rd_tvalid /\ ~push /\ ~pop
      BY <1>1 DEF rd_tvalid, Reader!m_axis_tvalid, push, pop, Reader!fifo_tvalid
    <2>2. fifo' = <<>>
      BY <1>1, <1>5, <2>1
      DEF Reader!ReaderEdge, Reader!FifoEdge, push, pop, rd_tvalid
    <2>3. /\ ~pred_tvalid /\ ~pred_valid'
          /\ DOMAIN pred_out = {"pass", "columns", "last"}
          /\ pred_out.last \in BOOLEAN
      BY <1>0, <1>1, <1>5, <2>1, PredStep
    <2>4. ~proj_tvalid /\ ~proj_valid'
      BY <1>0, <1>1, <1>5, <2>3, ProjStep
    <2> QED BY <2>2, <2>3, <2>4
  <1>8. Reader!FsmEdge(start, cfg.num_rows) /\ Reader!BankEdge(load)
    BY <1>5 DEF Reader!ReaderEdge
  <1>9. ~reader_busy' => raddr_q' = 0
    BY <1>0, <1>1, <1>8 DEF Reader!FsmEdge, Reader!Begin, Reader!fsmVars
  <1>10. IInv'
    BY <1>0, QuietStep
  <1> DEFINE last == proj_out.last
             pass == proj_out.pass
             val == proj_out.columns[cfg.column]
             key == proj_out.columns[cfg.gby_key]
             clStart == start /\ ~cfg.groupby
             gbStart == start /\ cfg.groupby
             clValid == proj_tvalid /\ ~cfg.groupby
             gbValid == proj_tvalid /\ cfg.groupby
  <1>11. /\ Classic!EnginesEdge(clStart, clValid, pass, val, last)
         /\ GroupBy!GbEdge(gbStart, gbValid, pass, key, val, last, gReady)
    BY <1>5 DEF AggregationEdge
  <1> HIDE DEF last, pass, val, key, clValid, gbValid
  <1>12. ASSUME start PROVE mem' = mem
    <2>1. load = NoLoad /\ mem \in [Reader!Rows -> Row]
      BY <1>0, <1>12 DEF Types
    <2> QED BY <1>8, <2>1 DEF Reader!BankEdge, NoLoad
  <1>13. ASSUME start
         PROVE  /\ ReaderAt' /\ Pushed' = 0 /\ 0 < Service!ScanLength'
                /\ Service!ScanLength' = Service!ScanLength
    <2>1. /\ reader_busy' /\ raddr_q' = 0 /\ ret_row_q' = 0 /\ pending_q'
      BY <1>8, <1>13 DEF Reader!FsmEdge, Reader!Begin
    <2>2. bank_rdata' = mem[0]
      BY <1>0, <1>1, <1>8 DEF Reader!BankEdge
    <2>3. Service!ScanLength' = Service!ScanLength
      BY <1>13 DEF Service!ScanLength
    <2>4. 0 < Service!ScanLength
      <3>1. Service!ScanLength \in 1 .. NUM_ROWS
        BY ConfigIs DEF ServiceInv
      <3> QED BY <3>1, TableAssumption
    <2> QED BY <1>12, <1>13, <2>1, <2>2, <2>3, <2>4 DEF ReaderAt, Pushed
  <1>14. ASSUME start PROVE InFlight' /\ Consumed' = 0
    <2>1. Len(fifo') = 0
      BY <1>7, EmptySeq
    <2>2. Pushed' = 0 /\ Bit(pred_valid') = 0 /\ Bit(proj_valid') = 0
      BY <1>7, <1>13, <1>14, BitIs
    <2>3. AtPred' = 0
      BY <2>1, <2>2 DEF AtPred
    <2>4. AtProj' = 0
      BY <2>2, <2>3 DEF AtProj
    <2>5. Consumed' = 0
      BY <2>2, <2>4 DEF Consumed
    <2>6. Expects'
      <3>1. state_q' = "SCAN" /\ reader_busy'
        BY <1>4, <1>8, <1>14 DEF Reader!FsmEdge, Reader!Begin
      <3> QED BY <1>10, <3>1 DEF IInv, OneMarker, InReader, InFifo, InPred, InProj, Taken
    <2>7. Expects' <=> Consumed' < Service!ScanLength'
      BY <1>13, <1>14, <2>5, <2>6
    <2>8. \A i \in 1 .. Len(fifo') : FALSE
      BY <2>1
    <2> QED BY <1>7, <2>5, <2>7, <2>8 DEF InFlight
  <1>15. EngineTypes' /\ (start => IF cfg.groupby THEN GroupFolds' ELSE ClassicFolds')
    <2>1. CASE gbStart
      <3>1. GroupBy!WritePort /\ GroupBy!ReadPort /\ GroupBy!GbStart
        BY <1>11, <2>1 DEF GroupBy!GbEdge
      <3>2. GroupFolds'
        BY <1>0, <1>6, <1>14, <2>1, <3>1, GroupBegins
      <3> QED BY <2>1, <3>2, GroupTypes
    <2>2. CASE ~gbStart
      <3>1. GroupBy!GbEdge(FALSE, gbValid, pass, key, val, last, gReady)
        BY <1>11, <2>2 DEF GroupBy!GbEdge
      <3>2. EngineTypes'
        BY <1>0, <1>1, <3>1, EngineRests
      <3>3. ASSUME start PROVE ~cfg.groupby /\ ClassicFolds'
        <4>1. clStart
          BY <2>2, <3>3
        <4>2. Classic!EnginesStart
          BY <1>11, <4>1 DEF Classic!EnginesEdge
        <4>3. PICK rs : rs = Seen'
          OBVIOUS
        <4>4. ClassicAre(rs, 0)'
          BY <4>2, ClassicBegins
        <4>5. Consumed' = 0
          BY <1>14, <3>3
        <4> QED BY <4>1, <4>3, <4>4, <4>5 DEF ClassicFolds, ClassicAre
      <3> QED BY <3>2, <3>3
    <2> QED BY <2>1, <2>2
  <1>16. ServiceInv'
    <2>1. state_q' = "IDLE" => error_q' = "NONE"
      BY <1>0, <1>3, <1>4
    <2>2. state_q' = "SCAN" => Scanning'
      <3> SUFFICES ASSUME state_q' = "SCAN" PROVE Scanning'
        OBVIOUS
      <3>1. start /\ cfg' = cfg
        BY <1>0, <1>4
      <3> QED BY <1>13, <1>14, <1>15, <3>1 DEF Scanning
    <2> QED BY <1>9, <1>10, <1>15, <2>1, <2>2 DEF ServiceInv
  <1> QED BY <1>4, <1>6, <1>12, <1>16

\* Reset, at the beginning and in an abort.
LEMMA ResetTypes ==
  ASSUME EngineTypes, GroupBy!GbReset PROVE EngineTypes'
  <1>1. /\ GB!EmptyBucket \in GB!BucketWord /\ GB!NoGroup \in GB!Group
        /\ 0 \in GB!Bucket
    BY GB!EmptyIsWord, CoreAssumed
  <1>2. /\ GroupBy!EmptyBucket = GB!EmptyBucket /\ GroupBy!NoGroup = GB!NoGroup
    BY DEF GroupBy!EmptyBucket, GB!EmptyBucket, GroupBy!NoGroup, GB!NoGroup
  <1>3. GB!RamTypes'
    BY <1>1, <1>2 DEF EngineTypes, GB!RamTypes, GB!AddressTypes, GB!FlagTypes,
                      GroupBy!GbReset, GroupBy!WritePort
  <1>4. GB!AddressTypes'
    BY <1>1, CoreAssumed DEF EngineTypes, GB!AddressTypes, GroupBy!GbReset
  <1>5. GB!ControlTypes'
    BY DEF GB!ControlTypes, GroupBy!GbReset, GB!States
  <1>6. GB!FlagTypes'
    BY Zenon DEF GB!FlagTypes, GroupBy!GbReset
  <1>7. GB!DataTypes'
    BY <1>1, <1>2, CoreAssumed DEF GB!DataTypes, GroupBy!GbReset, GB!Acc
  <1> QED BY <1>3, <1>4, <1>5, <1>6, <1>7 DEF EngineTypes

LEMMA AbortKeeps ==
  ASSUME ServiceInv, Abort
  PROVE  ServiceInv' /\ mem' = mem
  <1>1. IInv /\ CoreReset /\ cfg' = cfg /\ cfg \in Configs /\ EngineTypes
    BY DEF ServiceInv, Abort
  <1>2. IInv'
    BY <1>1, AbortStep
  <1>3. /\ raddr_q' = 0 /\ state_q' = "IDLE" /\ error_q' = "NONE"
        /\ GroupBy!GbReset /\ Reader!BankEdge(NoLoad)
    BY <1>1 DEF CoreReset, Reader!ReaderReset
  <1>4. mem' = mem
    BY <1>1, <1>3 DEF Reader!BankEdge, NoLoad, IInv, Types
  <1>5. EngineTypes'
    BY <1>1, <1>3, ResetTypes
  <1> QED BY <1>1, <1>2, <1>3, <1>4, <1>5 DEF ServiceInv

LEMMA InitService == HostInit => ServiceInv
  <1> SUFFICES ASSUME HostInit PROVE ServiceInv
    OBVIOUS
  <1>1. IInv
    BY InitIInv
  <1>2. /\ cfg \in Configs /\ raddr_q = 0 /\ state_q = "IDLE" /\ error_q = "NONE"
        /\ GroupBy!GbInit
    BY DEF HostInit, Init, Reader!ReaderInit
  <1>3. /\ GB!EmptyBucket \in GB!BucketWord /\ GB!NoGroup \in GB!Group
        /\ 0 \in GB!Bucket
    BY GB!EmptyIsWord, CoreAssumed
  <1>4. /\ GroupBy!EmptyBucket = GB!EmptyBucket /\ GroupBy!NoGroup = GB!NoGroup
        /\ GroupBy!Bucket = GB!Bucket
    BY DEF GroupBy!EmptyBucket, GB!EmptyBucket, GroupBy!NoGroup, GB!NoGroup,
           GroupBy!Bucket, GB!Bucket
  <1>5. GB!RamTypes
    BY <1>2, <1>3, <1>4, CoreAssumed DEF GB!RamTypes, GroupBy!GbInit
  <1>6. GB!AddressTypes
    BY <1>2, <1>3, <1>4, CoreAssumed DEF GB!AddressTypes, GroupBy!GbInit
  <1>7. GB!ControlTypes
    BY <1>2 DEF GB!ControlTypes, GroupBy!GbInit, GB!States
  <1>8. GB!FlagTypes
    BY <1>2, Zenon DEF GB!FlagTypes, GroupBy!GbInit
  <1>9. GB!DataTypes
    BY <1>2, <1>3, <1>4, CoreAssumed DEF GB!DataTypes, GroupBy!GbInit, GB!Acc
  <1> QED BY <1>1, <1>2, <1>5, <1>6, <1>7, <1>8, <1>9 DEF ServiceInv, EngineTypes

LEMMA StutterKeeps ==
  ASSUME ServiceInv, UNCHANGED vars
  PROVE  ServiceInv'
  <1>0. /\ UNCHANGED <<mem, cfg, out>> /\ UNCHANGED <<raddr_q, ret_row_q, pending_q>>
        /\ UNCHANGED <<bank_rdata, reader_busy, fifo>>
        /\ UNCHANGED <<pred_reg, pred_valid, proj_reg, proj_valid>>
        /\ UNCHANGED <<state_q, error_q>>
        /\ UNCHANGED <<acc_q, of_q, res_q, cl_busy, cl_done>>
    BY DEF vars, readerVars, skidVars, classicVars, fsmVars
  <1>1. UNCHANGED <<bucket_mem, rd_bucket, gb_raddr, wen_q, waddr_q, wdata_q,
                    gb_state, gb_busy, gb_done, rd_stage_q, row_key_q, row_val_q,
                    row_last_q, probe_idx_q, probe_count_q, dump_idx_q,
                    last_valid_q, clear_idx_q, present_hold_q,
                    present_is_last_q, present_out_q>>
    BY DEF vars, gbVars
  <1>2. IInv'
    BY NextIInv DEF ServiceInv
  <1>3. EngineTypes'
    BY <1>1 DEF ServiceInv, EngineTypes, GB!RamTypes, GB!AddressTypes,
                GB!ControlTypes, GB!FlagTypes, GB!DataTypes
  <1>4. /\ Service!ScanLength' = Service!ScanLength /\ Seen' = Seen
        /\ \A r : /\ RawBeat(r)' = RawBeat(r) /\ PredBeat(r)' = PredBeat(r)
                  /\ ProjBeat(r)' = ProjBeat(r)
    BY <1>0, FormsStay
  <1>5. Pushed' = Pushed
    BY <1>0, <1>4 DEF Pushed
  <1>6. AtPred' = AtPred
    BY <1>0, <1>5 DEF AtPred
  <1>7. AtProj' = AtProj
    BY <1>0, <1>6 DEF AtProj, Bit
  <1>8. Consumed' = Consumed
    BY <1>0, <1>7 DEF Consumed, Bit
  <1>9. ASSUME Scanning PROVE Scanning'
    <2>0. /\ ReaderAt /\ InFlight
          /\ cfg.groupby => GroupFolds
          /\ ~cfg.groupby => ClassicFolds
      BY <1>9 DEF Scanning
    <2>1. ReaderAt'
      BY <1>0, <1>4, <2>0 DEF ReaderAt
    <2>2. InFlight'
      <3>1. PICK a, b, c : a = AtPred /\ b = AtProj /\ c = Consumed
        OBVIOUS
      <3>2. /\ \A i \in 1 .. Len(fifo) : fifo[i] = RawBeat(a + i - 1)
            /\ pred_valid => pred_reg = PredBeat(b)
            /\ proj_valid => proj_reg = ProjBeat(c)
            /\ c >= 0
            /\ Expects <=> c < Service!ScanLength
        BY <2>0, <3>1 DEF InFlight
      <3>3. Expects' <=> Expects
        BY <1>0, <1>1 DEF Expects, GbExpects
      <3>4. a = AtPred' /\ b = AtProj' /\ c = Consumed'
        BY <1>6, <1>7, <1>8, <3>1
      <3>5. \A i \in 1 .. Len(fifo') : fifo'[i] = RawBeat(a + i - 1)'
        BY <1>0, <1>4, <3>2
      <3>6. pred_valid' => pred_reg' = PredBeat(b)'
        BY <1>0, <1>4, <3>2
      <3>7. proj_valid' => proj_reg' = ProjBeat(c)'
        BY <1>0, <1>4, <3>2
      <3>8. c >= 0 /\ (Expects' <=> c < Service!ScanLength')
        BY <1>4, <3>2, <3>3
      <3> QED BY <3>4, <3>5, <3>6, <3>7, <3>8 DEF InFlight, RawBeat, PredBeat,
               ProjBeat, Service!Cell, Service!ScanLength
    <2>3. ASSUME cfg.groupby PROVE GroupFolds'
      <3>1. GB!IInv /\ RoomLeft(Seen, Consumed)
        BY <2>0, <2>3 DEF GroupFolds
      <3>2. Table(Seen, Consumed)' = Table(Seen, Consumed) /\ RoomLeft(Seen, Consumed)'
        BY <1>4, <1>8, <3>1
      <3>3. UNCHANGED GB!vars
        BY <1>0, <1>1, <1>8, <3>2
        DEF GB!vars, GB!gbVars, GB!ramVars, GB!writeVars, GB!rowVars,
            GB!probeVars, GB!presentVars
      <3>4. GB!IInv'
        BY <3>1, <3>3, GB!StutterKeeps, CoreAssumed
      <3> QED BY <3>2, <3>4 DEF GroupFolds
    <2>4. ASSUME ~cfg.groupby PROVE ClassicFolds'
      <3>1. PICK rs, n : rs = Seen /\ n = Consumed
        OBVIOUS
      <3>2. ClassicAre(rs, n)
        BY <2>0, <2>4, <3>1 DEF ClassicFolds
      <3>3. ClassicAre(rs, n)'
        BY <1>0, <3>2 DEF ClassicAre
      <3>4. Seen' = rs /\ Consumed' = n
        BY <1>4, <1>8, <3>1
      <3> QED BY <3>3, <3>4 DEF ClassicFolds, ClassicAre
    <2> QED BY <1>0, <2>1, <2>2, <2>3, <2>4 DEF Scanning
  <1> QED BY <1>0, <1>2, <1>3, <1>9 DEF ServiceInv

LEMMA NextService == ServiceInv /\ [Next]_vars => ServiceInv'
  <1> SUFFICES ASSUME ServiceInv, [Next]_vars PROVE ServiceInv'
    OBVIOUS
  <1>0. LoadTypes(NoLoad) /\ \A load \in Loads : LoadTypes(load)
    BY TableAssumption DEF LoadTypes, NoLoad
  <1>1. cfg \in Configs
    BY DEF ServiceInv
  <1>2. CASE Abort
    BY <1>2, AbortKeeps
  <1>3. ASSUME NEW start \in BOOLEAN, NEW gReady \in BOOLEAN,
               Edge(start, NoLoad, gReady), UNCHANGED cfg
        PROVE  ServiceInv'
    <2>1. CASE state_q = "SCAN"
      <3>1. ScanEdge(start, gReady)
        BY <1>3, <2>1 DEF ScanEdge
      <3> QED BY <3>1, ScanKeeps
    <2>2. CASE state_q # "SCAN"
      <3>1. cfg' \in Configs /\ (start => cfg' = cfg)
        BY <1>1, <1>3
      <3> QED BY <1>0, <1>3, <2>2, <3>1, QuietMoves
    <2> QED BY <2>1, <2>2
  <1>4. CASE Load
    <2> PICK load \in Loads : Edge(FALSE, load, FALSE)
      BY <1>4 DEF Load
    <2>1. state_q # "SCAN" /\ LoadTypes(load) /\ cfg' \in Configs
      BY <1>0, <1>1, <1>4 DEF Load
    <2> QED BY <2>1, QuietMoves
  <1>5. CASE Configure
    BY <1>0, <1>5, QuietMoves DEF Configure
  <1>6. CASE UNCHANGED vars
    BY <1>6, StutterKeeps
  <1> QED BY <1>2, <1>3, <1>4, <1>5, <1>6 DEF Next, Start, Tick

LEMMA SameSizes ==
  /\ \A S : Service!Cardinality(S) = Cardinality(S)
  /\ \A S : Service!Min(S) = Min(S) /\ Service!Max(S) = Max(S)
  <1>1. \A S : Service!Cardinality(S) = Cardinality(S)
    BY DEF Service!Cardinality, Cardinality
  <1>2. \A S : Service!Min(S) = Min(S) /\ Service!Max(S) = Max(S)
    BY DEF Service!Min, Min, Service!Max, Max
  <1> QED BY <1>1, <1>2

-----------------------------------------------------------------------------
(* The answer *)

\* The service adds up the column values of a set of rows.
LEMMA TotalIs ==
  ASSUME Types, cfg \in Configs, NEW R, R \subseteq 0 .. NUM_ROWS - 1
  PROVE  Service!Total(R) = SumOf(Seen, R)
  <1> DEFINE P(h) == h = [s \in SUBSET R |->
                            IF s = {} THEN 0
                            ELSE Service!Val(GB!First(s)) + h[s \ {GB!First(s)}]]
  <1>0. PICK rs : rs = Seen
    OBVIOUS
  <1>1. Service!Total(R) = (CHOOSE h : P(h))[R]
    BY DEF Service!Total, Service!MapThenSumSet, Service!MapThenFoldSet, GB!First
  <1>2. SumOf(rs, R) = (CHOOSE h : GB!SumsSets(h, rs, R))[R]
    <2>1. SumOf(rs, R) = GB!Total(rs, R)
      BY DEF SumOf, GB!Total, MapThenSumSet, MapThenFoldSet, GB!MapThenSumSet,
             GB!MapThenFoldSet
    <2> QED BY <2>1, GB!TotalUnfolds, CoreAssumed
  <1>3. ASSUME NEW h PROVE P(h) <=> GB!SumsSets(h, rs, R)
    <2>1. ASSUME NEW s \in SUBSET R, s # {}
          PROVE  rs[GB!First(s)].val = Service!Val(GB!First(s))
      <3>1. GB!First(s) \in 0 .. NUM_ROWS - 1
        BY <2>1 DEF GB!First
      <3> QED BY <1>0, <3>1, SeenIs
    <2>2. [s \in SUBSET R |->
             IF s = {} THEN 0
             ELSE Service!Val(GB!First(s)) + h[s \ {GB!First(s)}]] =
          [s \in SUBSET R |->
             IF s = {} THEN 0
             ELSE rs[GB!First(s)].val + h[s \ {GB!First(s)}]]
      BY <2>1
    <2> QED BY <2>2 DEF GB!SumsSets
  <1>4. IsFiniteSet(R) /\ GB!IsFiniteSet(R)
    <2>1. IsFiniteSet(0 .. NUM_ROWS - 1)
      BY TableAssumption, FS_Interval
    <2>2. IsFiniteSet(R)
      BY <2>1, FS_Subset
    <2> QED BY <2>2 DEF GB!IsFiniteSet, IsFiniteSet
  <1>5. \E h : GB!SumsSets(h, rs, R)
    BY <1>4, GB!SumsExist, CoreAssumed
  <1> HIDE DEF P
  <1>6. PICK f : f = CHOOSE h : P(h)
    OBVIOUS
  <1>7. PICK g : g = CHOOSE h : GB!SumsSets(h, rs, R)
    OBVIOUS
  <1>8. GB!SumsSets(f, rs, R)
    BY <1>3, <1>5, <1>6
  <1>9. GB!SumsSets(g, rs, R)
    BY <1>5, <1>7
  <1>10. f[R] = g[R]
    BY <1>4, <1>8, <1>9, GB!SumsUnique, CoreAssumed
  <1> QED BY <1>0, <1>1, <1>2, <1>6, <1>7, <1>10

\* The service's answer in terms of the aggregate of all the rows.
LEMMA ServiceIs ==
  ASSUME Types, cfg \in Configs
  PROVE  /\ Service!Passing = Passed(Seen, Service!ScanLength)
         /\ Service!Resident = Kept(Seen, Service!ScanLength)
         /\ \A k : Service!GroupOf(k) =
              GroupFrom(Seen, RowsOf(Seen, Service!ScanLength, k), k)
         /\ Service!Total(Service!Passing) =
              SumOf(Seen, Passed(Seen, Service!ScanLength))
         /\ {Service!Val(r) : r \in Service!Passing} =
              ValsOf(Seen, Passed(Seen, Service!ScanLength))
  <1> DEFINE L == Service!ScanLength
  <1>0. L \in 1 .. NUM_ROWS /\ NUM_ROWS \in Nat
    BY ConfigIs, TableAssumption
  <1>1. \A r \in 0 .. NUM_ROWS - 1 :
          /\ Seen[r].pass = Where(cfg.pred, mem[r])
          /\ Seen[r].key = Service!KeyOf(r) /\ Seen[r].val = Service!Val(r)
    BY SeenIs
  <1> HIDE DEF L
  <1>2. 0 .. L - 1 \subseteq 0 .. NUM_ROWS - 1
    BY <1>0
  <1>3. Service!Passing = Passed(Seen, L)
    <2>1. \A q, c : Service!Where(q, c) = Where(q, c)
      BY DEF Service!Where, Where, Service!EnabledSlots, EnabledSlots,
             Service!slot_result, slot_result, Service!pred_apply, pred_apply
    <2>2. Service!Passing = {r \in 0 .. L - 1 : Where(cfg.pred, mem[r])}
      BY <2>1 DEF Service!Passing, L
    <2>3. \A r \in 0 .. L - 1 : Seen[r].pass = Where(cfg.pred, mem[r])
      BY <1>1, <1>2
    <2> QED BY <2>2, <2>3 DEF Passed
  <1>4. Passed(Seen, L) \subseteq 0 .. L - 1 /\ Passed(Seen, L) \subseteq 0 .. NUM_ROWS - 1
    BY <1>2 DEF Passed
  <1>5. ASSUME NEW s \in Passed(Seen, L)
        PROVE  FindsRoom(Seen, s) <=>
                 Cardinality({Service!KeyOf(t) : t \in {u \in Passed(Seen, L) : u < s}}
                             \ {Service!KeyOf(s)}) < BUCKETS
    <2>1. s \in 0 .. L - 1 /\ Seen[s].key = Service!KeyOf(s)
      BY <1>1, <1>4
    <2>2. {u \in Passed(Seen, L) : u < s} = Passed(Seen, s)
      BY <1>0, <2>1 DEF Passed
    <2>3. \A t \in Passed(Seen, s) : Seen[t].key = Service!KeyOf(t)
      BY <1>1, <1>4, <2>2
    <2>4. {Service!KeyOf(t) : t \in {u \in Passed(Seen, L) : u < s}} = KeysOf(Seen, s)
      BY <2>2, <2>3 DEF KeysOf
    <2> QED BY <2>1, <2>4 DEF FindsRoom
  <1>6. Service!Resident = Kept(Seen, L)
    <2> DEFINE Room(s) ==
                 Cardinality({Service!KeyOf(t) : t \in {u \in Passed(Seen, L) : u < s}}
                             \ {Service!KeyOf(s)}) < BUCKETS
    <2>1. Service!Resident = {Service!KeyOf(r) : r \in {s \in Passed(Seen, L) : Room(s)}}
      BY <1>3, SameSizes DEF Service!Resident
    <2>2. \A s \in Passed(Seen, L) : FindsRoom(Seen, s) <=> Room(s)
      BY <1>5
    <2> HIDE DEF Room
    <2>3. \A s \in Passed(Seen, L) : Seen[s].key = Service!KeyOf(s)
      BY <1>1, <1>4
    <2> QED BY <2>1, <2>2, <2>3 DEF Kept
  <1>7. ASSUME NEW S, S \subseteq Passed(Seen, L)
        PROVE  /\ Service!Total(S) = SumOf(Seen, S)
               /\ {Service!Val(r) : r \in S} = ValsOf(Seen, S)
    <2>1. S \subseteq 0 .. NUM_ROWS - 1
      BY <1>4, <1>7
    <2>2. Service!Total(S) = SumOf(Seen, S)
      BY <2>1, TotalIs
    <2> QED BY <1>1, <2>1, <2>2 DEF ValsOf
  <1>8. ASSUME NEW k
        PROVE  Service!GroupOf(k) = GroupFrom(Seen, RowsOf(Seen, L, k), k)
    <2> DEFINE R == RowsOf(Seen, L, k)
    <2>1. {r \in Passed(Seen, L) : Service!KeyOf(r) = k} = R
      BY <1>1, <1>4 DEF RowsOf
    <2>2. R \subseteq Passed(Seen, L)
      BY DEF RowsOf
    <2>3. /\ Service!Total(R) = SumOf(Seen, R)
          /\ {Service!Val(r) : r \in R} = ValsOf(Seen, R)
      BY <1>7, <2>2
    <2>4. Service!GroupOf(k) =
            [key |-> k, count |-> Service!Cardinality(R),
             sum |-> Service!Clip(Service!Total(R)),
             min |-> Service!Min({Service!Val(r) : r \in R}),
             max |-> Service!Max({Service!Val(r) : r \in R})]
      BY <1>3, <2>1 DEF Service!GroupOf
    <2> HIDE DEF R
    <2> QED BY <2>3, <2>4, SameSizes DEF GroupFrom, R
  <1>9. /\ Service!Total(Service!Passing) = SumOf(Seen, Passed(Seen, L))
        /\ {Service!Val(r) : r \in Service!Passing} = ValsOf(Seen, Passed(Seen, L))
    BY <1>3, <1>7
  <1> QED BY <1>3, <1>6, <1>8, <1>9 DEF L

-----------------------------------------------------------------------------
(* The steps of the core as steps of the service *)

\* Once the aggregation has the end marker, it has every row of the scan.
LEMMA AllTaken ==
  ASSUME ServiceInv, state_q = "SCAN", ~Expects
  PROVE  Consumed = Service!ScanLength
  <1> DEFINE L == Service!ScanLength
  <1>0. Types /\ cfg \in Configs /\ ReaderAt /\ InFlight
    BY DEF ServiceInv, Scanning, IInv
  <1>1. L \in Nat
    BY <1>0, ConfigIs
  <1> HIDE DEF L
  <1>2. ~(Consumed < L)
    BY <1>0 DEF InFlight, L
  <1>3. raddr_q \in Nat /\ Len(fifo) \in Nat
    BY <1>0, TableAssumption DEF Types, Reader!Rows
  <1>4. \A b : Bit(b) \in {0, 1}
    BY DEF Bit
  <1>5. Pushed \in Nat /\ Pushed <= L
    BY <1>0, <1>1, <1>3 DEF Pushed, ReaderAt, L
  <1>6. AtPred \in Int /\ AtPred <= L
    BY <1>1, <1>3, <1>5 DEF AtPred
  <1>7. AtProj \in Int /\ AtProj <= L
    BY <1>1, <1>4, <1>6 DEF AtProj
  <1>8. Consumed \in Int /\ Consumed <= L
    BY <1>1, <1>4, <1>7 DEF Consumed
  <1> QED BY <1>1, <1>2, <1>8 DEF L

\* The groups that the service still owes are those the engine has not sent.
LEMMA PendingIs ==
  ASSUME ServiceInv, Consumed = Service!ScanLength
  PROVE  /\ cfg.groupby => Service!Pending = GB!Undelivered
         /\ ~cfg.groupby => Service!Pending = {}
  <1>0. Types /\ cfg \in Configs
    BY DEF ServiceInv, IInv
  <1>1. CASE ~cfg.groupby
    BY <1>1 DEF Service!Pending, Service!Groups
  <1>2. CASE cfg.groupby
    <2>1. PICK rs, n : rs = Seen /\ n = Service!ScanLength
      OBVIOUS
    <2>2. /\ Service!Resident = Kept(rs, n)
          /\ \A k : Service!GroupOf(k) = GroupFrom(rs, RowsOf(rs, n, k), k)
      BY <1>0, <2>1, ServiceIs
    <2>3. Service!Groups = {GroupFrom(rs, RowsOf(rs, n, k), k) : k \in Kept(rs, n)}
      BY <1>2, <2>2 DEF Service!Groups
    <2>4. {Table(rs, n)[k] : k \in DOMAIN Table(rs, n)} =
            {GroupFrom(rs, RowsOf(rs, n, k), k) : k \in Kept(rs, n)}
      BY DEF Table
    <2>5. GB!Undelivered = {Table(rs, n)[k] : k \in DOMAIN Table(rs, n)} \ GB!OutGroups
      BY <2>1 DEF GB!Undelivered
    <2>6. Service!Pending = Service!Groups \ GB!OutGroups
      BY DEF Service!Pending, GB!OutGroups
    <2> QED BY <1>2, <2>3, <2>4, <2>5, <2>6
  <1> QED BY <1>1, <1>2

\* A sum of column values is a number.
LEMMA SumOfNat ==
  ASSUME NEW rs, NEW S, IsFiniteSet(S), \A i \in S : rs[i].val \in Nat
  PROVE  SumOf(rs, S) \in Nat
  <1>1. CASE S = {}
    BY <1>1, SumOfNone
  <1>2. CASE S # {}
    <2>1. PICK a \in S : TRUE
      BY <1>2
    <2>2. PICK R : R = S \ {a}
      OBVIOUS
    <2>3. IsFiniteSet(R) /\ a \notin R /\ R \cup {a} = S
      BY <2>1, <2>2, FS_Subset
    <2>4. SumOf(rs, R) \in Nat /\ SumOf(rs, R \cup {a}) = SumOf(rs, R) + rs[a].val
      BY <2>2, <2>3, SumOfMore
    <2>5. SumOf(rs, S) = SumOf(rs, R) + rs[a].val /\ rs[a].val \in Nat
      <3>1. SumOf(rs, R \cup {a}) = SumOf(rs, S)
        BY <2>3
      <3> QED BY <2>1, <2>4, <3>1
    <2> QED BY <2>4, <2>5
  <1> QED BY <1>1, <1>2

\* The registers of the classic engines hold the answer.
LEMMA ClassicAnswers ==
  ASSUME ServiceInv, state_q = "SCAN", ~cfg.groupby, cl_done["COUNT"]
  PROVE  Service!Answer =
           [result |-> agg_result, count |-> agg_count, overflow |-> agg_overflow]
  <1>0. /\ Types /\ Flags /\ cfg \in Configs /\ ClassicFolds
        /\ cfg.groupby \in BOOLEAN
    BY ConfigIs DEF ServiceInv, Scanning, IInv
  <1>1. Consumed = Service!ScanLength
    <2>1. ~Expects
      BY <1>0 DEF Expects, Flags
    <2> QED BY <2>1, AllTaken
  <1>2. PICK S, V, sum :
          /\ S = Passed(Seen, Service!ScanLength)
          /\ V = ValsOf(Seen, S) /\ sum = SumOf(Seen, S)
    OBVIOUS
  <1>3. /\ acc_q["COUNT"] = Cardinality(S)
        /\ acc_q["SUM"] = Service!Clip(sum) /\ acc_q["AVG"] = Service!Clip(sum)
        /\ of_q["SUM"] \in BOOLEAN /\ (of_q["SUM"] <=> sum > AccMax)
        /\ acc_q["MIN"] \in V \cup {ColMax} /\ \A v \in V : acc_q["MIN"] <= v
        /\ acc_q["MAX"] \in V \cup {0} /\ \A v \in V : v <= acc_q["MAX"]
        /\ \A e \in Classic!Engines : res_q[e] = acc_q[e]
    BY <1>0, <1>1, <1>2 DEF ClassicFolds, ClassicAre
  <1>4. V \subseteq 0 .. ColMax /\ ColMax \in Nat /\ sum \in Nat /\ AccMax \in Nat
    <2>1. Service!ScanLength \in 0 .. NUM_ROWS /\ Seen \in SeenRows
      <3>1. Service!ScanLength \in 1 .. NUM_ROWS
        BY <1>0, ConfigIs
      <3> QED BY <1>0, <3>1, SeenIs, TableAssumption
    <2>2. IsFiniteSet(S) /\ \A r \in S : Seen[r].val \in 0 .. ColMax /\ Seen[r].val \in Nat
      BY <1>2, <2>1, PassedFinite
    <2>3. V \subseteq 0 .. ColMax
      BY <1>2, <2>2 DEF ValsOf
    <2>4. sum \in Nat
      <3>1. PICK rs : rs = Seen
        OBVIOUS
      <3> QED BY <1>2, <2>2, <3>1, SumOfNat
    <2> QED BY <2>3, <2>4, TableAssumption, WidthsAssumption
  <1>5. Min(V \cup {ColMax}) = acc_q["MIN"]
    <2>1. PICK m : m = acc_q["MIN"]
      OBVIOUS
    <2>2. m \in V \cup {ColMax} /\ \A v \in V : m <= v
      BY <1>3, <2>1
    <2>3. V \cup {ColMax} \subseteq Nat /\ m <= ColMax
      BY <1>4, <2>2
    <2>4. \A v \in V \cup {ColMax} : m <= v
      BY <2>2, <2>3
    <2> QED BY <2>1, <2>2, <2>3, <2>4, MinIs
  <1>6. Max(V \cup {0}) = acc_q["MAX"]
    <2>1. PICK m : m = acc_q["MAX"]
      OBVIOUS
    <2>2. m \in V \cup {0} /\ \A v \in V : v <= m
      BY <1>3, <2>1
    <2>3. V \cup {0} \subseteq Nat /\ 0 <= m
      BY <1>4, <2>2
    <2>4. \A v \in V \cup {0} : v <= m
      BY <2>2, <2>3
    <2> QED BY <2>1, <2>2, <2>3, <2>4, MaxIs
  <1> DEFINE Result == CASE cfg.op = "COUNT" -> Cardinality(S)
                         [] cfg.op \in {"SUM", "AVG"} -> Service!Clip(sum)
                         [] cfg.op = "MIN" -> Min(V \cup {ColMax})
                         [] cfg.op = "MAX" -> Max(V \cup {0})
                         [] OTHER -> 0
  <1>7. Service!Answer =
          [result |-> Result, count |-> Cardinality(S), overflow |-> sum > AccMax]
    <2>1. /\ Service!Passing = S
          /\ Service!Total(S) = sum
          /\ {Service!Val(r) : r \in S} = V
      BY <1>0, <1>2, ServiceIs
    <2>2. Service!Answer = Service!ClassicAnswer
      BY <1>0 DEF Service!Answer
    <2> QED BY <2>1, <2>2, SameSizes DEF Service!ClassicAnswer
  <1>8. agg_result = Result
    BY <1>0, <1>3, <1>5, <1>6 DEF agg_result, Classic!Engines
  <1>9. agg_count = Cardinality(S)
    BY <1>0, <1>3 DEF agg_count, Classic!Engines
  <1>10. agg_overflow = (sum > AccMax)
    <2>1. (sum > AccMax) \in BOOLEAN
      BY <1>4
    <2> QED BY <1>3, <2>1, Zenon DEF agg_overflow
  <1> QED BY <1>7, <1>8, <1>9, <1>10

\* A query that is complete has delivered its groups and has its answer.
LEMMA Completes ==
  ASSUME ServiceInv, state_q = "SCAN", agg_done
  PROVE  /\ Service!Pending = {}
         /\ Service!Answer =
              [result |-> agg_result, count |-> agg_count, overflow |-> agg_overflow]
         /\ ~GroupBy!m_axis_tvalid
  <1>0. /\ Types /\ Flags /\ SideIdle /\ cfg \in Configs /\ cfg.groupby \in BOOLEAN
        /\ IF cfg.groupby THEN GroupFolds ELSE ClassicFolds
    BY ConfigIs DEF ServiceInv, Scanning, IInv, OneMarker
  <1>1. ~gb_busy /\ ~Expects
    BY <1>0 DEF Flags, SideIdle, agg_done, Expects, GbExpects
  <1>2. ~GroupBy!m_axis_tvalid
    BY <1>0, <1>1 DEF Flags, GroupBy!m_axis_tvalid
  <1>3. Consumed = Service!ScanLength
    BY <1>1, AllTaken
  <1>4. CASE cfg.groupby
    <2>1. GB!IInv /\ gb_done
      BY <1>0, <1>4 DEF GroupFolds, agg_done
    <2>2. GB!Undelivered = {}
      BY <2>1, GB!DoneDelivered, CoreAssumed
    <2>3. Service!Answer = [result |-> 0, count |-> 0, overflow |-> FALSE]
      BY <1>4 DEF Service!Answer, Service!NoAnswer
    <2>4. agg_result = 0 /\ agg_count = 0
      BY <1>4 DEF agg_result, agg_count
    <2>5. agg_overflow = FALSE
      BY <1>4, Zenon DEF agg_overflow
    <2> QED BY <1>2, <1>3, <1>4, <2>2, <2>3, <2>4, <2>5, PendingIs
  <1>5. CASE ~cfg.groupby
    <2>1. cl_done["COUNT"]
      BY <1>5 DEF agg_done
    <2> QED BY <1>2, <1>3, <1>5, <2>1, PendingIs, ClassicAnswers
  <1> QED BY <1>4, <1>5

\* What the group stream offers is a group the service owes.
LEMMA Offers ==
  ASSUME ServiceInv, state_q = "SCAN", GroupBy!m_axis_tvalid
  PROVE  /\ present_out_q \in Service!Pending
         /\ present_is_last_q = (Service!Pending = {present_out_q})
  <1>0. /\ Flags /\ SideIdle /\ cfg \in Configs /\ cfg.groupby \in BOOLEAN
        /\ IF cfg.groupby THEN GroupFolds ELSE ClassicFolds
    BY ConfigIs DEF ServiceInv, Scanning, IInv, OneMarker
  <1>1. gb_busy /\ gb_state = "PRESENT" /\ present_hold_q
    BY <1>0 DEF Flags, GroupBy!m_axis_tvalid
  <1>2. cfg.groupby /\ GB!IInv
    BY <1>0, <1>1 DEF SideIdle, GroupFolds
  <1>3. Consumed = Service!ScanLength
    <2>1. ~Expects
      BY <1>1, <1>2 DEF Expects, GbExpects
    <2> QED BY <2>1, AllTaken
  <1>4. /\ present_out_q \in GB!Undelivered
        /\ present_is_last_q <=> GB!Undelivered = {present_out_q}
    <2>1. GB!m_axis_tvalid
      BY <1>1 DEF GB!m_axis_tvalid
    <2> QED BY <1>2, <2>1, GB!HeldIsUndelivered, CoreAssumed
  <1>5. Service!Pending = GB!Undelivered
    BY <1>2, <1>3, PendingIs
  <1>6. present_is_last_q \in BOOLEAN
    BY DEF ServiceInv, EngineTypes, GB!FlagTypes
  <1> QED BY <1>4, <1>5, <1>6, Zenon

\* An edge of a running query: the service runs on, or completes.
LEMMA ScanStepMaps ==
  ASSUME NEW start \in BOOLEAN, NEW gReady \in BOOLEAN, ScanEdge(start, gReady)
  PROVE  Service!Running(start) \/ Service!Complete(start)
  <1>0. /\ ServiceInv /\ state_q = "SCAN" /\ cfg' = cfg
        /\ FsmScan(start) /\ mem' = mem
        /\ out' = IF GroupBy!m_axis_tvalid /\ gReady
                  THEN Append(out, [group |-> present_out_q,
                                    last |-> present_is_last_q])
                  ELSE out
    BY ScanMoves DEF ScanEdge
  <1>1. CASE Completed
    <2>1. /\ Service!Pending = {}
          /\ Service!Answer =
               [result |-> agg_result, count |-> agg_count, overflow |-> agg_overflow]
          /\ ~GroupBy!m_axis_tvalid
      BY <1>0, <1>1, Completes DEF Completed
    <2>2. Service!Answer.overflow = agg_overflow
      BY <2>1
    <2>3. /\ state_q' = "DONE" /\ result_q' = agg_result /\ count_q' = agg_count
          /\ overflow_q' = agg_overflow
          /\ error_q' = CASE agg_overflow -> "AGG_OVERFLOW"
                          [] ~agg_overflow /\ start -> "START_BUSY"
                          [] OTHER -> error_q
      BY <1>0, <1>1 DEF FsmScan
    <2>4. out' = out
      BY <1>0, <2>1
    <2>5. error_q' = CASE Service!Answer.overflow -> "AGG_OVERFLOW"
                       [] ~Service!Answer.overflow /\ start -> "START_BUSY"
                       [] OTHER -> error_q
      BY <2>2, <2>3
    <2>6. [result |-> result_q, count |-> count_q, overflow |-> overflow_q]' =
            Service!Answer
      BY <2>1, <2>3
    <2> QED BY <1>0, <2>1, <2>3, <2>4, <2>5, <2>6 DEF Service!Complete
  <1>2. CASE ~Completed
    <2>1. /\ UNCHANGED <<state_q, result_q, count_q, overflow_q>>
          /\ error_q' = IF start THEN "START_BUSY" ELSE error_q
      BY <1>0, <1>2 DEF FsmScan
    <2>2. \/ out' = out
          \/ \E g \in Service!Pending :
               out' = Append(out, [group |-> g, last |-> Service!Pending = {g}])
      BY <1>0, Offers
    <2> QED BY <1>0, <2>1, <2>2 DEF Service!Running
  <1> QED BY <1>1, <1>2

\* An edge between queries: the host prepares, or starts the next one.
LEMMA QuietStepMaps ==
  ASSUME ServiceInv, state_q # "SCAN", NEW start \in BOOLEAN, cfg' \in Configs,
         start => cfg' = cfg, NEW load, LoadTypes(load), start => load = NoLoad,
         NEW gReady \in BOOLEAN, Edge(start, load, gReady)
  PROVE  Service!Prepare \/ Service!Start
  <1>1. /\ state_q' = IF start THEN "SCAN" ELSE state_q
        /\ error_q' = IF start THEN "NONE" ELSE error_q
        /\ UNCHANGED <<result_q, count_q, overflow_q>>
        /\ out' = IF start THEN <<>> ELSE out
        /\ start => mem' = mem
    BY QuietMoves
  <1> QED BY <1>1 DEF Service!Prepare, Service!Start

LEMMA StepImplements ==
  ServiceInv /\ [Next]_vars => [Service!Next]_(Service!serviceVars)
  <1> SUFFICES ASSUME ServiceInv, [Next]_vars
               PROVE  [Service!Next]_(Service!serviceVars)
    OBVIOUS
  <1>0. LoadTypes(NoLoad) /\ \A load \in Loads : LoadTypes(load)
    BY TableAssumption DEF LoadTypes, NoLoad
  <1>1. cfg \in Configs
    BY DEF ServiceInv
  <1>2. CASE Abort
    <2>1. mem' = mem
      BY <1>2, AbortKeeps
    <2>2. /\ cfg' = cfg /\ state_q' = "IDLE" /\ result_q' = 0 /\ count_q' = 0
          /\ overflow_q' = FALSE /\ error_q' = "NONE" /\ out' = <<>>
      BY <1>2 DEF Abort, CoreReset
    <2> QED BY <2>1, <2>2 DEF Service!Next, Service!Abort, Service!NoAnswer
  <1>3. ASSUME NEW start \in BOOLEAN, NEW gReady \in BOOLEAN,
               Edge(start, NoLoad, gReady), UNCHANGED cfg
        PROVE  Service!Next
    <2>1. CASE state_q = "SCAN"
      <3>1. ScanEdge(start, gReady)
        BY <1>3, <2>1 DEF ScanEdge
      <3> QED BY <3>1, ScanStepMaps DEF Service!Next
    <2>2. CASE state_q # "SCAN"
      <3>1. cfg' \in Configs /\ (start => cfg' = cfg)
        BY <1>1, <1>3
      <3> QED BY <1>0, <1>3, <2>2, <3>1, QuietStepMaps DEF Service!Next
    <2> QED BY <2>1, <2>2
  <1>4. CASE Load
    <2> PICK load \in Loads : Edge(FALSE, load, FALSE)
      BY <1>4 DEF Load
    <2>1. state_q # "SCAN" /\ LoadTypes(load) /\ cfg' \in Configs
      BY <1>0, <1>1, <1>4 DEF Load
    <2> QED BY <2>1, QuietStepMaps DEF Service!Next
  <1>5. CASE Configure
    <2>1. Service!Prepare \/ Service!Start
      BY <1>0, <1>5, QuietStepMaps DEF Configure
    <2> QED BY <2>1 DEF Service!Next
  <1>6. CASE UNCHANGED vars
    <2>1. UNCHANGED <<mem, cfg, out, state_q, error_q>>
          /\ UNCHANGED <<result_q, count_q, overflow_q>>
      BY <1>6 DEF vars, readerVars, fsmVars
    <2> QED BY <2>1 DEF Service!serviceVars
  <1> QED BY <1>2, <1>3, <1>4, <1>5, <1>6 DEF Next, Start, Tick

-----------------------------------------------------------------------------
(* The properties *)

\* The rows between the reader and the aggregation are those of the scan, each
\* in its place and form, and the accumulators and the groups hold what the
\* rows behind them amount to, whatever ran, failed or was aborted before.
THEOREM RowsAccounted == Spec => []ServiceInv
  BY InitService, NextService, PTL DEF Spec

\* Refinement: for every table, configuration, FIFO depth, number of buckets
\* and hash, every query answers as QueryService says: the aggregate of the
\* rows that satisfy the WHERE clause, or each group once with tlast on the
\* final one; a busy start only raises its flag, and an abort leaves no trace.
THEOREM CoreImplementsService == Spec => ImplementsService
  <1>1. HostInit => Service!Init
    BY DEF HostInit, Init, Service!Init, Service!NoAnswer
  <1>2. ServiceInv /\ [Next]_vars => [Service!Next]_(Service!serviceVars)
    BY StepImplements
  <1> QED
    BY InitService, NextService, <1>1, <1>2, PTL DEF Spec, ImplementsService
=============================================================================
