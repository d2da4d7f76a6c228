---------------------------- MODULE RegisterSystem ----------------------------
(***************************************************************************)
(* axi_lite_slave on a bus with a freer master than any of the benches:    *)
(* the address of a write may come before its data or after it, the next   *)
(* write may be offered before the previous response is taken, reads run   *)
(* beside writes, and the core's status moves while a read is in flight.   *)
(* As the header of the slave asks, an offered address or datum stays      *)
(* valid until both are accepted in the same cycle.                        *)
(***************************************************************************)
EXTENDS AxiLiteSlave, Sequences

CONSTANTS
  Writes,      \* [addr, data] pairs the master writes
  MaxWrites,   \* writes in a behaviour
  Statuses     \* values of the status inputs

\* A packed word is the record of the fields of its register; a row number is
\* a word of which the register keeps the low bits.
RowRegisters == {Reg("QUERY"), Reg("LOAD_ADDR")}
IsWord(addr, data) ==
  /\ addr \in RowRegisters => data \in Nat
  /\ addr = Reg("AGG_CFG") =>
       data = [op |-> data.op, groupby |-> data.groupby,
               column |-> data.column, gby_key |-> data.gby_key]
  /\ addr.reg = "PRED_HI" =>
       data = [enable |-> data.enable, op |-> data.op,
               combine |-> data.combine, column |-> data.column]

ASSUME RegisterAssumption ==
  /\ NUM_ROWS \in Nat \ {0} /\ NUM_COLS \in Nat /\ NUM_PRED \in Nat
  /\ WordSpan \in Nat \ {0}
  /\ \A s \in Statuses : s.result \in Nat /\ s.count \in Nat
  /\ \A w \in Writes : w.addr \in Config /\ IsWord(w.addr, w.data)

VARIABLES
  offer,       \* the write being offered: [awvalid, wvalid, addr, data]
  rd,          \* the read being offered: [arvalid, addr]
  status,      \* status inputs: [busy, done, error, result, count, overflow]
  accepted,    \* history: writes whose address and data were accepted
  responses    \* history: write responses taken

vars == <<slaveVars, offer, rd, status, accepted, responses>>

NoOffer == [awvalid |-> FALSE, wvalid |-> FALSE, addr |-> Reg("CTRL"),
            data |-> [start |-> FALSE, abort |-> FALSE]]

Init ==
  /\ SlaveInit
  /\ offer = NoOffer
  /\ rd = [arvalid |-> FALSE, addr |-> Reg("CTRL")]
  /\ status = [busy |-> FALSE, done |-> FALSE, error |-> "NONE", result |-> 0,
               count |-> 0, overflow |-> FALSE]
  /\ accepted = <<>> /\ responses = 0

Offered == offer.awvalid \/ offer.wvalid

\* A new write: its address, its data or both appear on the bus.
OfferWrite ==
  /\ ~Offered /\ Len(accepted) < MaxWrites
  /\ \E w \in Writes, aw, wv \in BOOLEAN :
       /\ aw \/ wv
       /\ offer' = [awvalid |-> aw, wvalid |-> wv, addr |-> w.addr, data |-> w.data]
  /\ UNCHANGED <<slaveVars, rd, status, accepted, responses>>

\* The other half of the write follows.
CompleteOffer ==
  /\ Offered /\ ~(offer.awvalid /\ offer.wvalid)
  /\ offer' = [offer EXCEPT !.awvalid = TRUE, !.wvalid = TRUE]
  /\ UNCHANGED <<slaveVars, rd, status, accepted, responses>>

OfferRead ==
  /\ ~rd.arvalid
  /\ \E w \in Writes \cup {[addr |-> Reg("STATUS")]} :
       rd' = [arvalid |-> TRUE, addr |-> w.addr]
  /\ UNCHANGED <<slaveVars, offer, status, accepted, responses>>

\* One clock edge and what it accepts.
Transfer(bus) ==
  /\ SlaveEdge(bus)
  /\ accepted' = IF bus.awvalid /\ awready_q /\ bus.wvalid /\ wready_q
                 THEN Append(accepted, [addr |-> bus.awaddr, data |-> bus.wdata])
                 ELSE accepted
  /\ responses' = IF bvalid_q /\ bus.bready THEN responses + 1 ELSE responses

\* One clock: the master lowers what it saw accepted.
Clock(bready, rready) ==
  /\ Transfer([awvalid |-> offer.awvalid, awaddr |-> offer.addr,
               wvalid |-> offer.wvalid, wdata |-> offer.data,
               bready |-> bready, arvalid |-> rd.arvalid,
               araddr |-> rd.addr, rready |-> rready])
  /\ offer' = IF offer.awvalid /\ awready_q /\ offer.wvalid /\ wready_q
              THEN NoOffer ELSE offer
  /\ rd' = [rd EXCEPT !.arvalid = @ /\ ~arready_q]
  /\ status' \in Statuses

Next ==
  \/ OfferWrite
  \/ CompleteOffer
  \/ OfferRead
  \/ \E bready, rready \in BOOLEAN : Clock(bready, rready)

Spec == Init /\ [][Next]_vars

------------------------------------------------------------------------------
\* The word of a register after reset, and the part of a word it keeps.
ResetWord(addr) ==
  CASE addr = Reg("AGG_CFG") -> [op |-> "SELECT", groupby |-> FALSE,
                                 column |-> 0, gby_key |-> 0]
    [] addr = Reg("PROJ_MASK") -> [c \in ColIdx |-> FALSE]
    [] addr.reg = "PRED_HI" -> [enable |-> FALSE, op |-> "EQ",
                                combine |-> "AND", column |-> 0]
    [] OTHER -> 0
Kept(addr, data) == IF addr \in RowRegisters THEN data % NUM_ROWS ELSE data

\* What a register holds after a sequence of writes, oldest first.
Hits(addr, writes) == {i \in 1 .. Len(writes) : writes[i].addr = addr}
Latest(hits) == CHOOSE i \in hits : \A j \in hits : j <= i
LastWritten(addr, writes) ==
  IF Hits(addr, writes) = {} THEN ResetWord(addr)
  ELSE Kept(addr, writes[Latest(Hits(addr, writes))].data)

\* However address and data were spread over cycles, each accepted write took
\* effect exactly once, on its own register, and a refused or half-offered
\* one had none; every accepted write has had its response or has it pending,
\* and no second one was accepted in between (m_write_serialized).
WritesLand ==
  /\ \A a \in Config : register(a) = LastWritten(a, accepted)
  /\ Len(accepted) = responses + (IF bvalid_q THEN 1 ELSE 0)
==============================================================================
