---------------------------- MODULE RegisterStage ----------------------------
(***************************************************************************)
(* AxisRegister between an upstream that obeys the AXI-Stream rule (an     *)
(* offered beat stays until it is accepted) and a downstream that raises   *)
(* and drops tready as it likes.  The wires are variables that hold their  *)
(* value for the current cycle; a step is the clock edge that ends it.     *)
(***************************************************************************)
EXTENDS Naturals, Sequences, AxisRegister

CONSTANT Beat
ASSUME BlankNoBeat == Blank \notin Beat

VARIABLES
  rst, s_tvalid, s_beat,   \* driven by the upstream side
  m_tready,                \* driven by the downstream side
  delivered                \* history: the beat of the latest master handshake

wires == <<rst, s_tvalid, s_beat, m_tready>>
vars == <<sreg_q, sreg_valid_q, wires, delivered>>

Held == IF sreg_valid_q THEN <<sreg_q>> ELSE <<>>
Queue == INSTANCE StreamQueue WITH q <- Held, Capacity <- 1

m_tvalid == m_axis_tvalid(s_tvalid)
m_beat == m_axis_beat(s_beat)

WireTypes ==
  /\ rst \in BOOLEAN
  /\ s_tvalid \in BOOLEAN
  /\ s_beat \in Beat
  /\ m_tready \in BOOLEAN

Init == RegisterInit /\ WireTypes /\ delivered = Blank

\* The wires of the next cycle: free, but an offer that was not accepted
\* stays, unless the cycle was a reset.
NextWires ==
  /\ rst' \in BOOLEAN
  /\ m_tready' \in BOOLEAN
  /\ IF s_tvalid /\ ~s_axis_tready /\ ~rst
     THEN UNCHANGED <<s_tvalid, s_beat>>
     ELSE s_tvalid' \in BOOLEAN /\ s_beat' \in Beat

ResetEdge ==
  /\ rst
  /\ RegisterReset
  /\ UNCHANGED delivered
  /\ NextWires

ClockEdge ==
  /\ ~rst
  /\ RegisterEdge(s_tvalid, s_beat, m_tready)
  /\ delivered' = IF m_tvalid /\ m_tready THEN m_beat ELSE delivered
  /\ NextWires

Next == ResetEdge \/ ClockEdge

Spec == Init /\ [][Next]_vars

------------------------------------------------------------------------------
\* Registers and wires stay in range, and a beat the register claims to hold
\* is one the upstream offered, never the reset value.
TypeOK ==
  /\ sreg_q \in Beat \cup {Blank}
  /\ sreg_valid_q \in BOOLEAN
  /\ sreg_valid_q => sreg_q \in Beat
  /\ WireTypes
  /\ delivered \in Beat \cup {Blank}

\* AXI-Stream on the master side (a_stall_hold and a_hold_input): a beat
\* that was presented and not accepted is presented unchanged in the next
\* cycle, although it moves from the input wires into the register.
OutputStable ==
  [][~rst /\ m_tvalid /\ ~m_tready => m_tvalid' /\ m_beat' = m_beat]_vars

\* The stage is a lossless in-order channel of capacity one, the
\* pass-through of an empty stage included.
ImplementsQueue == Queue!Spec
==============================================================================
