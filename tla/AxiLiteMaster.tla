---------------------------- MODULE AxiLiteMaster ----------------------------
(***************************************************************************)
(* The bus helpers every C++ driver of the accelerator shares: axil_write  *)
(* and axil_read, and the gated_ variants that drop BREADY and RREADY at   *)
(* random.  A call is the record txn: it drives its valid wires for one    *)
(* clock, waits for the response a bounded number of clocks, samples the   *)
(* read data in the first cycle in which the response is there, and holds  *)
(* on until the response has gone.                                         *)
(***************************************************************************)
EXTENDS Naturals

CONSTANTS
  PollLimit,   \* clocks a helper waits for a response
  NoData       \* the word returned when none came (0xDEADBEEF)

VARIABLE txn

NoTxn == [kind |-> "none", phase |-> "idle", addr |-> NoData, data |-> NoData,
          gated |-> FALSE, cyc |-> 0]

Calling == txn.phase \notin {"idle", "done"}
Returned == txn.phase = "done"

\* A helper is called: the previous one has returned.
Call(kind, addr, data, gated) ==
  /\ ~Calling
  /\ txn' = [kind |-> kind, phase |-> "addr", addr |-> addr, data |-> data,
             gated |-> gated, cyc |-> 0]

\* The ready wires a helper may drive: high, or gated by a coin.
ReadyChoices == IF txn.gated THEN BOOLEAN ELSE {TRUE}

\* The wires of the current clock.
Wires(bready, rready) ==
  [awvalid |-> txn.kind = "W" /\ txn.phase = "addr",
   wvalid |-> txn.kind = "W" /\ txn.phase = "addr",
   awaddr |-> txn.addr, wdata |-> txn.data, bready |-> bready,
   arvalid |-> txn.kind = "R" /\ txn.phase = "addr",
   araddr |-> txn.addr, rready |-> rready]

\* Mutant: the read data is sampled as long as the response is there.
AfterTickResampled(bvalid, rvalid, rdata) ==
  LET valid == IF txn.kind = "W" THEN bvalid ELSE rvalid
      sampled == CASE txn.kind = "W" \/ (txn.phase = "hold" /\ ~valid) -> txn.data
                   [] txn.kind = "R" /\ valid -> rdata
                   [] OTHER -> NoData
  IN  IF valid THEN [txn EXCEPT !.phase = "hold", !.data = sampled]
      ELSE IF txn.phase # "hold" /\ txn.cyc < PollLimit
      THEN [txn EXCEPT !.phase = "wait", !.cyc = @ + 1]
      ELSE [txn EXCEPT !.phase = "done", !.data = sampled]

\* The helper after a clock, given the wires it then sees.
AfterTick(bvalid, rvalid, rdata) ==
  LET valid == IF txn.kind = "W" THEN bvalid ELSE rvalid
      sampled == CASE txn.kind = "W" \/ txn.phase = "hold" -> txn.data
                   [] txn.kind = "R" /\ txn.phase # "hold" /\ valid -> rdata
                   [] OTHER -> NoData
  IN  IF valid THEN [txn EXCEPT !.phase = "hold", !.data = sampled]
      ELSE IF txn.phase # "hold" /\ txn.cyc < PollLimit
      THEN [txn EXCEPT !.phase = "wait", !.cyc = @ + 1]
      ELSE [txn EXCEPT !.phase = "done", !.data = sampled]
==============================================================================
