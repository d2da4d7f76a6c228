---------------------------- MODULE AxisRegister ----------------------------
(***************************************************************************)
(* rtl/interfaces/axis_register.sv: the one-deep skid buffer behind the    *)
(* predicate and the projection engine.  Only the clocked logic is here;   *)
(* the wires of the two AXI-Stream ports are parameters, so that           *)
(* RegisterStage can close it with an environment and QueryPipeline can    *)
(* chain it.                                                               *)
(***************************************************************************)
CONSTANT Blank        \* the reset contents of sreg_q

VARIABLES
  sreg_q,             \* the skid register {tlast, tdata}
  sreg_valid_q        \* it holds a beat

registerVars == <<sreg_q, sreg_valid_q>>

RegisterInit ==
  /\ sreg_q = Blank
  /\ sreg_valid_q = FALSE

\* The combinational ports: a held beat has priority over the incoming one.
s_axis_tready == ~sreg_valid_q
m_axis_tvalid(sValid) == sreg_valid_q \/ sValid
m_axis_beat(sBeat) == IF sreg_valid_q THEN sreg_q ELSE sBeat

RegisterReset ==
  /\ sreg_q' = Blank
  /\ sreg_valid_q' = FALSE

\* Mutant: the beat that cannot leave is not held.
CaptureNoHold(sBeat, mReady) ==
  /\ ~sreg_valid_q
  /\ sreg_q' = sBeat
  /\ sreg_valid_q' = FALSE

\* Empty: an incoming beat is latched, and held only if it cannot leave now.
Capture(sBeat, mReady) ==
  /\ ~sreg_valid_q
  /\ sreg_q' = sBeat
  /\ sreg_valid_q' = ~mReady

\* Mutant: the held beat is delivered again and again.
DrainNever ==
  /\ sreg_valid_q
  /\ UNCHANGED <<sreg_valid_q, sreg_q>>

\* Full: the held beat leaves; the input is not captured.
Drain ==
  /\ sreg_valid_q
  /\ sreg_valid_q' = FALSE
  /\ UNCHANGED sreg_q

\* One clock edge without reset.
RegisterEdge(sValid, sBeat, mReady) ==
  \/ sValid /\ Capture(sBeat, mReady)
  \/ mReady /\ Drain
  \/ /\ IF sreg_valid_q THEN ~mReady ELSE ~sValid
     /\ UNCHANGED registerVars
==============================================================================
