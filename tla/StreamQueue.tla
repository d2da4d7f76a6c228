----------------------------- MODULE StreamQueue -----------------------------
(***************************************************************************)
(* What every buffering stage of the datapath promises: an in-order,       *)
(* lossless, bounded AXI-Stream channel.  `q` holds the beats that were    *)
(* accepted on the slave side and not yet handed over on the master side,  *)
(* oldest first; `delivered` is the beat of the latest master handshake.   *)
(* AxisFifo and AxisRegister are shown to implement this specification;    *)
(* ColumnReader uses it in place of its output FIFO.                       *)
(***************************************************************************)
EXTENDS Naturals, Sequences

CONSTANTS
  Beat,      \* the beats {tlast, tdata} a stream may carry
  Blank,     \* no beat: what never-written or reset storage holds
  Capacity   \* the number of beats the stage can hold

VARIABLES q, delivered

streamVars == <<q, delivered>>

Init ==
  /\ q = <<>>
  /\ delivered = Blank

\* The slave-side handshake: a beat is accepted only while there is room.
Accept(b) ==
  /\ Len(q) < Capacity
  /\ q' = Append(q, b)
  /\ UNCHANGED delivered

\* The master-side handshake: the oldest beat is handed over.
HandOver ==
  /\ q # <<>>
  /\ delivered' = Head(q)
  /\ q' = Tail(q)

\* Both handshakes at one clock edge.  When the stage is empty this is a
\* pass-through of the incoming beat.
AcceptAndHandOver(b) ==
  /\ Len(q) < Capacity
  /\ delivered' = Head(Append(q, b))
  /\ q' = Tail(Append(q, b))

\* Synchronous reset: everything in flight is discarded.
Discard ==
  /\ q' = <<>>
  /\ UNCHANGED delivered

Next ==
  \/ \E b \in Beat : Accept(b) \/ AcceptAndHandOver(b)
  \/ HandOver
  \/ Discard

Spec == Init /\ [][Next]_streamVars
==============================================================================
