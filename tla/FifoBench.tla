------------------------------ MODULE FifoBench ------------------------------
(***************************************************************************)
(* sim/tb_fifo.cpp: axis_fifo against a queue in software.  phase follows  *)
(* main: fill to capacity, push once more, drain, then the random phase    *)
(* (reset, any pushes and pops the wires allow, forced drain).  The        *)
(* directed sequences of main are behaviours of the random phase, in which *)
(* the producer and the consumer do as they like.  Reset is free: it comes *)
(* in any cycle, and the bench begins anew.                                *)
(***************************************************************************)
EXTENDS AxisFifo

VARIABLES
  phase,
  k,        \* the loop counter of the phase
  ref       \* Inst::ref, the reference queue

benchVars == <<vars, phase, k, ref>>

\* One clock with the inputs set_input drives.
Cycle(svalid, b, mready) ==
  LET push == svalid /\ s_axis_tready
      pop == mready /\ m_axis_tvalid
  IN  \/ push /\ ~pop /\ Push(b)
      \/ pop /\ ~push /\ Pop
      \/ push /\ pop /\ PushPop(b)
      \/ ~push /\ ~pop /\ UNCHANGED vars

\* Some of the instances meet no directed sequence and begin with the random
\* phase, their RAM never written.
BenchInit == Init /\ phase \in {"fill", "checked"} /\ k = 0 /\ ref = <<>>

\* reset_all, at the head of each directed sequence.
ResetAll ==
  /\ Reset
  /\ phase' = "fill" /\ k' = 0 /\ ref' = <<>>

\* fill_and_drain: DEPTH beats with the consumer stalled, a push too many,
\* then one pop per cycle and an idle cycle.
Fill ==
  /\ phase = "fill" /\ k < DEPTH
  /\ \E b \in Beat : Cycle(TRUE, b, FALSE) /\ ref' = Append(ref, b)
  /\ k' = k + 1
  /\ UNCHANGED phase

PushWhileFull ==
  /\ phase = "fill" /\ k = DEPTH
  /\ \E b \in Beat : Cycle(TRUE, b, FALSE)
  /\ phase' = "drain" /\ k' = 0
  /\ UNCHANGED ref

Drain ==
  /\ phase = "drain"
  /\ Cycle(FALSE, Blank, TRUE)
  /\ IF k < DEPTH
     THEN ref' = Tail(ref) /\ k' = k + 1 /\ UNCHANGED phase
     ELSE phase' = "checked" /\ UNCHANGED <<ref, k>>

\* random_phase: two cycles of reset, then whatever the wires allow.
RandomReset ==
  /\ phase = "checked"
  /\ Reset
  /\ phase' = "random" /\ k' = 0 /\ UNCHANGED ref

RandomCycle ==
  /\ phase = "random"
  /\ \E push, pop \in BOOLEAN, b \in Beat :
       /\ push => s_axis_tready
       /\ pop => m_axis_tvalid
       /\ Cycle(push, b, pop)
       /\ LET after == IF push THEN Append(ref, b) ELSE ref
          IN  ref' = IF pop THEN Tail(after) ELSE after
  /\ UNCHANGED <<phase, k>>

StopRandom ==
  /\ phase = "random"
  /\ phase' = "force"
  /\ UNCHANGED <<vars, k, ref>>

\* 520 cycles, twice the deepest instance and a few more.
DrainLimit == 2 * DEPTH + 6

ForceDrain ==
  /\ phase = "force"
  /\ Cycle(FALSE, Blank, TRUE)
  /\ ref' = IF m_axis_tvalid /\ ref # <<>> THEN Tail(ref) ELSE ref
  /\ k' = k + 1
  /\ phase' = IF ref' = <<>> \/ k' = DrainLimit THEN "checked" ELSE phase

BenchNext ==
  \/ ResetAll
  \/ Fill
  \/ PushWhileFull
  \/ Drain
  \/ RandomReset
  \/ RandomCycle
  \/ StopRandom
  \/ ForceDrain

BenchSpec == BenchInit /\ [][BenchNext]_benchVars

------------------------------------------------------------------------------
\* The per-cycle checks: after every clock, of a directed or a random phase,
\* tvalid, tready and the beat on the output are what the reference queue
\* says, so no beat is lost, duplicated, reordered or accepted beyond DEPTH,
\* and from any state of the random phase the forced drain gets every beat out
\* within its cycles ("instance fully drained").
Scoreboard ==
  /\ m_axis_tvalid = (ref # <<>>)
  /\ s_axis_tready = (Len(ref) < DEPTH)
  /\ ref # <<>> => dout_q = Head(ref)
  /\ phase = "checked" => ref = <<>>
==============================================================================
