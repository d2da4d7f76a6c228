------------------------------ MODULE AxisFifo ------------------------------
(***************************************************************************)
(* rtl/interfaces/axis_fifo.sv: the first-word-fall-through AXI-Stream     *)
(* FIFO at the output of the column reader.  The oldest beat sits in the   *)
(* output register dout_q, the younger ones in the RAM mem from rptr on.   *)
(*                                                                         *)
(* One step is one clock edge.  The inputs of that edge are chosen by the  *)
(* environment without any restriction: a producer may offer or withdraw a *)
(* beat and a consumer may raise or drop tready at every edge.             *)
(***************************************************************************)
EXTENDS Naturals, Sequences

CONSTANTS
  DEPTH,   \* words of storage, not necessarily a power of two
  Beat,    \* the values of {tlast, tdata}
  Blank    \* what never-written RAM and the reset output register hold

ASSUME DepthAssumption == DEPTH \in Nat \ {0}
ASSUME BlankAssumption == Blank \notin Beat

VARIABLES
  mem,        \* the RAM, never reset
  wptr,       \* next slot to write
  rptr,       \* slot of the beat after the one in dout_q
  dout_q,     \* output register
  count,      \* occupancy, output register included
  delivered   \* history: the beat of the latest master handshake

vars == <<mem, wptr, rptr, dout_q, count, delivered>>

Slot == 0 .. DEPTH - 1

s_axis_tready == count # DEPTH
m_axis_tvalid == count # 0

\* Pointers wrap explicitly, so DEPTH need not be a power of two.
NextSlot(p) == IF p = DEPTH - 1 THEN 0 ELSE p + 1

Init ==
  /\ mem = [s \in Slot |-> Blank]
  /\ wptr = 0
  /\ rptr = 0
  /\ dout_q = Blank
  /\ count = 0
  /\ delivered = Blank

\* if (rst): the RAM keeps its contents.
Reset ==
  /\ wptr' = 0
  /\ rptr' = 0
  /\ dout_q' = Blank
  /\ count' = 0
  /\ UNCHANGED <<mem, delivered>>

\* The write path, shared by every edge at which `push` holds.
Store(b) ==
  /\ mem' = [mem EXCEPT ![wptr] = b]
  /\ wptr' = NextSlot(wptr)

\* Mutant: rptr does not skip the slot of the forwarded beat.
ForwardNoSkip(b) ==
  /\ dout_q' = b
  /\ UNCHANGED rptr

\* fw_forward: the push is what (re)populates the output register, so the
\* incoming beat goes there directly and rptr skips its slot.
Forward(b) ==
  /\ dout_q' = b
  /\ rptr' = NextSlot(wptr)

\* Mutant: the read pointer stays behind.
FetchKeepsPointer ==
  /\ dout_q' = mem[rptr]
  /\ UNCHANGED rptr

\* The read path: present the next beat of the RAM.
Fetch ==
  /\ dout_q' = mem[rptr]
  /\ rptr' = NextSlot(rptr)

\* push && !pop
Push(b) ==
  /\ s_axis_tready
  /\ Store(b)
  /\ IF count = 0 THEN Forward(b) ELSE UNCHANGED <<dout_q, rptr>>
  /\ count' = count + 1
  /\ UNCHANGED delivered

\* pop && !push.  Draining the last beat leaves rptr and dout_q behind with
\* stale contents; the next Forward resynchronises them.
Pop ==
  /\ m_axis_tvalid
  /\ delivered' = dout_q
  /\ Fetch
  /\ count' = count - 1
  /\ UNCHANGED <<mem, wptr>>

\* Mutant: a push that meets the pop of the last beat is not forwarded.
PushPopNoForward(b) ==
  /\ s_axis_tready /\ m_axis_tvalid
  /\ delivered' = dout_q
  /\ Store(b)
  /\ Fetch
  /\ UNCHANGED count

\* push && pop: the occupancy does not change.
PushPop(b) ==
  /\ s_axis_tready /\ m_axis_tvalid
  /\ delivered' = dout_q
  /\ Store(b)
  /\ IF count = 1 THEN Forward(b) ELSE Fetch
  /\ UNCHANGED count

Next ==
  \/ Reset
  \/ Pop
  \/ \E b \in Beat : Push(b) \/ PushPop(b)

Spec == Init /\ [][Next]_vars

------------------------------------------------------------------------------
(* The abstract queue the registers represent. *)

Wrap(i) == IF i >= DEPTH THEN i - DEPTH ELSE i

Contents ==
  [i \in 1 .. count |-> IF i = 1 THEN dout_q ELSE mem[Wrap(rptr + i - 2)]]

Queue == INSTANCE StreamQueue WITH q <- Contents, Capacity <- DEPTH

------------------------------------------------------------------------------
(* Properties *)

\* Every register stays in its range; count never exceeds DEPTH, so it fits
\* in its COUNT_W bits (the SVA assertion m_count_in_range).
TypeOK ==
  /\ mem \in [Slot -> Beat \cup {Blank}]
  /\ wptr \in Slot
  /\ rptr \in Slot
  /\ dout_q \in Beat \cup {Blank}
  /\ count \in 0 .. DEPTH
  /\ delivered \in Beat \cup {Blank}

\* While anything is stored the pointers agree with the occupancy: count - 1
\* slots after rptr comes wptr.  An empty FIFO may have them out of step.
PointersAgree ==
  count > 0 => Wrap(rptr + count - 1) = wptr

\* Every occupied position was written by a push: no stale or never-written
\* slot is ever counted as data.
OccupiedWritten ==
  \A i \in 1 .. count : Contents[i] \in Beat

\* Refinement: at every edge the FIFO behaves as an in-order, lossless
\* channel of capacity DEPTH, whatever the producer and the consumer do.
ImplementsQueue == Queue!Spec
==============================================================================
