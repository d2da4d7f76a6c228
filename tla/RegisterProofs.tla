--------------------------- MODULE RegisterProofs ---------------------------
(***************************************************************************)
(* Proofs about the register file on its bus: for every number of rows,    *)
(* columns and predicate slots, every set of words written and every       *)
(* gating of the ready wires.                                              *)
(***************************************************************************)
EXTENDS RegisterBench, SequenceTheorems, TLAPS

-----------------------------------------------------------------------------
(* The register file *)

\* The fields of a predicate slot.
IsPred(p) == p = [enable |-> p.enable, op |-> p.op, combine |-> p.combine,
                  column |-> p.column, imm |-> p.imm]

\* cfg and load_data_q have the fields, slots and columns of their ports.
Shape ==
  /\ cfg = [op |-> cfg.op, groupby |-> cfg.groupby, num_rows |-> cfg.num_rows,
            column |-> cfg.column, gby_key |-> cfg.gby_key, proj |-> cfg.proj,
            pred |-> cfg.pred]
  /\ cfg.pred = [i \in Slots |-> cfg.pred[i]]
  /\ \A i \in Slots : IsPred(cfg.pred[i])
  /\ load_data_q = [c \in ColIdx |-> load_data_q[c]]

\* The registers and where they sit.
LEMMA ConfigCases ==
  ASSUME NEW a \in Config
  PROVE  \/ a \in {Reg("QUERY"), Reg("AGG_CFG"), Reg("PROJ_MASK"), Reg("LOAD_ADDR")}
         \/ a.reg \in {"PRED_LO", "PRED_HI"} /\ a.idx \in Slots
            /\ a = [reg |-> a.reg, idx |-> a.idx]
         \/ a.reg = "LOAD_DATA" /\ a.idx \in ColIdx
            /\ a = [reg |-> a.reg, idx |-> a.idx]
  BY DEF Config

\* The word a register shows, kind by kind.
LEMMA RegisterWord ==
  ASSUME NEW a \in Config
  PROVE  /\ a = Reg("QUERY") => register(a) = cfg.num_rows
         /\ a = Reg("AGG_CFG") =>
              register(a) = [op |-> cfg.op, groupby |-> cfg.groupby,
                             column |-> cfg.column, gby_key |-> cfg.gby_key]
         /\ a = Reg("PROJ_MASK") => register(a) = cfg.proj
         /\ a = Reg("LOAD_ADDR") => register(a) = load_addr_q
         /\ a.reg = "PRED_LO" => register(a) = cfg.pred[a.idx].imm
         /\ a.reg = "PRED_HI" =>
              register(a) = [enable |-> cfg.pred[a.idx].enable,
                             op |-> cfg.pred[a.idx].op,
                             combine |-> cfg.pred[a.idx].combine,
                             column |-> cfg.pred[a.idx].column]
         /\ a.reg = "LOAD_DATA" => register(a) = load_data_q[a.idx]
  BY DEF register, Reg

\* The same in the next state.
LEMMA RegisterWordPrime ==
  ASSUME NEW a \in Config
  PROVE  /\ a = Reg("QUERY") => register(a)' = cfg'.num_rows
         /\ a = Reg("AGG_CFG") =>
              register(a)' = [op |-> cfg'.op, groupby |-> cfg'.groupby,
                              column |-> cfg'.column, gby_key |-> cfg'.gby_key]
         /\ a = Reg("PROJ_MASK") => register(a)' = cfg'.proj
         /\ a = Reg("LOAD_ADDR") => register(a)' = load_addr_q'
         /\ a.reg = "PRED_LO" => register(a)' = cfg'.pred[a.idx].imm
         /\ a.reg = "PRED_HI" =>
              register(a)' = [enable |-> cfg'.pred[a.idx].enable,
                              op |-> cfg'.pred[a.idx].op,
                              combine |-> cfg'.pred[a.idx].combine,
                              column |-> cfg'.pred[a.idx].column]
         /\ a.reg = "LOAD_DATA" => register(a)' = load_data_q'[a.idx]
  BY DEF register, Reg
\* What each kind of write leaves of the registers it does not address.
LEMMA Untouched ==
  ASSUME Shape, NEW a \in Config,
         cfg' = cfg, load_addr_q' = load_addr_q, load_data_q' = load_data_q
  PROVE  register(a)' = register(a) /\ Shape'
  BY DEF register, Shape

\* The predicate slot a write addresses: its immediate, or all of the rest.
LEMMA PredLo ==
  ASSUME NEW p, NEW d, IsPred(p)
  PROVE  [p EXCEPT !.imm = d] =
           [enable |-> p.enable, op |-> p.op, combine |-> p.combine,
            column |-> p.column, imm |-> d]
  BY DEF IsPred

LEMMA PredHi ==
  ASSUME NEW p, NEW d, IsPred(p)
  PROVE  [p EXCEPT !.enable = d.enable, !.op = d.op, !.combine = d.combine,
                   !.column = d.column] =
           [enable |-> d.enable, op |-> d.op, combine |-> d.combine,
            column |-> d.column, imm |-> p.imm]
  <1> DEFINE q == [p EXCEPT !.enable = d.enable, !.op = d.op,
                            !.combine = d.combine, !.column = d.column]
             Fields == {"enable", "op", "combine", "column", "imm"}
  <1>1. DOMAIN p = Fields
    BY DEF IsPred
  <1>2. /\ q.enable = d.enable /\ q.op = d.op /\ q.combine = d.combine
        /\ q.column = d.column /\ q.imm = p.imm
    BY <1>1
  <1>3. q = [f \in Fields |-> q[f]]
    BY <1>1
  <1> HIDE DEF q
  <1>4. q = [enable |-> q.enable, op |-> q.op, combine |-> q.combine,
             column |-> q.column, imm |-> q.imm]
    BY <1>3
  <1> QED BY <1>2, <1>4 DEF q

\* An accepted write puts its word, as far as the register keeps it, into the
\* register it addresses and leaves every other one alone: no write leaks into
\* another field, another predicate slot or another column.  CTRL and the load
\* strobe are not stored.
LEMMA WriteEffect ==
  ASSUME Shape, NEW bus, wr_cap(bus), RegisterFile(bus),
         bus.awaddr \in Config \cup Commands, IsWord(bus.awaddr, bus.wdata)
  PROVE  /\ Shape'
         /\ \A a \in Config : register(a)' =
              IF a = bus.awaddr THEN Kept(a, bus.wdata) ELSE register(a)
  <1> DEFINE addr == bus.awaddr
             data == bus.wdata
  <1>0. /\ cfg' = WrittenCfg(addr, data)
        /\ load_addr_q' = IF addr = Reg("LOAD_ADDR") THEN data % NUM_ROWS ELSE load_addr_q
        /\ load_data_q' = IF addr.reg = "LOAD_DATA"
                          THEN [load_data_q EXCEPT ![addr.idx] = data] ELSE load_data_q
        /\ addr \in Config \cup Commands /\ IsWord(addr, data)
    BY DEF RegisterFile
  <1> HIDE DEF addr, data
  <1>1. CASE addr = Reg("QUERY")
    <2>1. /\ cfg' = [cfg EXCEPT !.num_rows = data % NUM_ROWS]
          /\ load_addr_q' = load_addr_q /\ load_data_q' = load_data_q
      BY <1>0, <1>1 DEF WrittenCfg, Reg
    <2>2. Shape'
      BY <2>1 DEF Shape
    <2>3. /\ cfg'.num_rows = data % NUM_ROWS /\ cfg'.op = cfg.op
          /\ cfg'.groupby = cfg.groupby /\ cfg'.column = cfg.column
          /\ cfg'.gby_key = cfg.gby_key /\ cfg'.proj = cfg.proj
          /\ cfg'.pred = cfg.pred
      BY <2>1 DEF Shape
    <2>4. ASSUME NEW a \in Config
          PROVE  register(a)' = IF a = addr THEN Kept(a, data) ELSE register(a)
      BY <1>1, <2>1, <2>3, ConfigCases, RegisterWord, RegisterWordPrime
      DEF Kept, RowRegisters, Reg
    <2> QED BY <2>2, <2>4 DEF addr, data
  <1>2. CASE addr = Reg("AGG_CFG")
    <2>1. /\ cfg' = [cfg EXCEPT !.op = data.op, !.groupby = data.groupby,
                                !.column = data.column, !.gby_key = data.gby_key]
          /\ load_addr_q' = load_addr_q /\ load_data_q' = load_data_q
      BY <1>0, <1>2 DEF WrittenCfg, Reg
    <2>2. Shape'
      BY <2>1 DEF Shape
    <2>3. /\ cfg'.num_rows = cfg.num_rows /\ cfg'.op = data.op
          /\ cfg'.groupby = data.groupby /\ cfg'.column = data.column
          /\ cfg'.gby_key = data.gby_key /\ cfg'.proj = cfg.proj
          /\ cfg'.pred = cfg.pred
      BY <2>1 DEF Shape
    <2>4. data = [op |-> data.op, groupby |-> data.groupby,
                  column |-> data.column, gby_key |-> data.gby_key]
      BY <1>0, <1>2 DEF IsWord
    <2>5. ASSUME NEW a \in Config
          PROVE  register(a)' = IF a = addr THEN Kept(a, data) ELSE register(a)
      BY <1>2, <2>1, <2>3, <2>4, ConfigCases, RegisterWord, RegisterWordPrime
      DEF Kept, RowRegisters, Reg
    <2> QED BY <2>2, <2>5 DEF addr, data
  <1>3. CASE addr = Reg("PROJ_MASK")
    <2>1. /\ cfg' = [cfg EXCEPT !.proj = data]
          /\ load_addr_q' = load_addr_q /\ load_data_q' = load_data_q
      BY <1>0, <1>3 DEF WrittenCfg, Reg
    <2>2. Shape'
      BY <2>1 DEF Shape
    <2>3. /\ cfg'.num_rows = cfg.num_rows /\ cfg'.op = cfg.op
          /\ cfg'.groupby = cfg.groupby /\ cfg'.column = cfg.column
          /\ cfg'.gby_key = cfg.gby_key /\ cfg'.proj = data
          /\ cfg'.pred = cfg.pred
      BY <2>1 DEF Shape
    <2>4. ASSUME NEW a \in Config
          PROVE  register(a)' = IF a = addr THEN Kept(a, data) ELSE register(a)
      BY <1>3, <2>1, <2>3, ConfigCases, RegisterWord, RegisterWordPrime
      DEF Kept, RowRegisters, Reg
    <2> QED BY <2>2, <2>4 DEF addr, data
  <1>4. CASE addr = Reg("LOAD_ADDR")
    <2>1. /\ cfg' = cfg /\ load_addr_q' = data % NUM_ROWS
          /\ load_data_q' = load_data_q
      BY <1>0, <1>4 DEF WrittenCfg, Reg
    <2>2. Shape'
      BY <2>1 DEF Shape
    <2>3. ASSUME NEW a \in Config
          PROVE  register(a)' = IF a = addr THEN Kept(a, data) ELSE register(a)
      BY <1>4, <2>1, ConfigCases, RegisterWord, RegisterWordPrime
      DEF Kept, RowRegisters, Reg
    <2> QED BY <2>2, <2>3 DEF addr, data
  <1>5. CASE addr \in Config /\ addr.reg \in {"PRED_LO", "PRED_HI"}
    <2> DEFINE i == addr.idx
               lo == addr.reg = "PRED_LO"
               p == cfg.pred[i]
    <2>1. i \in Slots /\ addr = [reg |-> addr.reg, idx |-> i]
      BY <1>5, ConfigCases DEF Reg
    <2>2. /\ cfg' = IF lo THEN [cfg EXCEPT !.pred[i].imm = data]
                    ELSE [cfg EXCEPT !.pred[i].enable = data.enable,
                                     !.pred[i].op = data.op,
                                     !.pred[i].combine = data.combine,
                                     !.pred[i].column = data.column]
          /\ load_addr_q' = load_addr_q /\ load_data_q' = load_data_q
      BY <1>0, <1>5 DEF WrittenCfg, pred_slot, Reg
    <2>3. /\ cfg'.num_rows = cfg.num_rows /\ cfg'.op = cfg.op
          /\ cfg'.groupby = cfg.groupby /\ cfg'.column = cfg.column
          /\ cfg'.gby_key = cfg.gby_key /\ cfg'.proj = cfg.proj
          /\ cfg' = [op |-> cfg.op, groupby |-> cfg.groupby, num_rows |-> cfg.num_rows,
                     column |-> cfg.column, gby_key |-> cfg.gby_key,
                     proj |-> cfg.proj, pred |-> cfg'.pred]
      BY <2>2 DEF Shape
    <2>4. /\ DOMAIN cfg.pred = Slots
          /\ \A j \in Slots : IsPred(cfg.pred[j])
      BY DEF Shape
    <2> DEFINE new == IF lo THEN [enable |-> p.enable, op |-> p.op,
                                  combine |-> p.combine, column |-> p.column,
                                  imm |-> data]
                      ELSE [enable |-> data.enable, op |-> data.op,
                            combine |-> data.combine, column |-> data.column,
                            imm |-> p.imm]
    <2>5. cfg'.pred = [cfg.pred EXCEPT ![i] = new]
      <3>1. CASE lo
        <4>1. cfg'.pred = [cfg.pred EXCEPT ![i] = [p EXCEPT !.imm = data]]
          BY <2>1, <2>2, <3>1 DEF Shape
        <4> QED BY <2>1, <2>4, <3>1, <4>1, PredLo
      <3>2. CASE ~lo
        <4>1. cfg'.pred = [cfg.pred EXCEPT ![i] =
                [p EXCEPT !.enable = data.enable, !.op = data.op,
                          !.combine = data.combine, !.column = data.column]]
          BY <2>1, <2>2, <3>2 DEF Shape
        <4> QED BY <2>1, <2>4, <3>2, <4>1, PredHi
      <3> QED BY <3>1, <3>2
    <2>6. IsPred(new)
      BY DEF IsPred
    <2>7. /\ cfg'.pred = [j \in Slots |-> cfg'.pred[j]]
          /\ cfg'.pred[i] = new
          /\ \A j \in Slots : j # i => cfg'.pred[j] = cfg.pred[j]
          /\ \A j \in Slots : IsPred(cfg'.pred[j])
      <3> HIDE DEF new
      <3> QED BY <2>1, <2>4, <2>5, <2>6
    <2>8. Shape'
      BY <2>2, <2>3, <2>7 DEF Shape
    <2>9. ASSUME NEW a \in Config
          PROVE  register(a)' = IF a = addr THEN Kept(a, data) ELSE register(a)
      <3>1. CASE a = addr /\ lo
        BY <2>1, <2>7, <3>1, RegisterWordPrime DEF Kept, RowRegisters, Reg
      <3>2. CASE a = addr /\ ~lo
        <4>1. data = [enable |-> data.enable, op |-> data.op,
                      combine |-> data.combine, column |-> data.column]
          BY <1>0, <1>5, <3>2 DEF IsWord
        <4> QED
          BY <1>5, <2>1, <2>7, <3>2, <4>1, RegisterWordPrime
          DEF Kept, RowRegisters, Reg
      <3>3. CASE a # addr
        <4>1. a.reg \in {"PRED_LO", "PRED_HI"} => a.idx \in Slots
          BY ConfigCases DEF Reg
        <4>2. CASE a.reg \in {"PRED_LO", "PRED_HI"} /\ a.idx = i
          <5>1. a.reg # addr.reg
            BY <2>1, <3>3, <4>2, ConfigCases DEF Reg
          <5> QED
            BY <1>5, <2>1, <2>7, <3>3, <4>2, <5>1, RegisterWord,
               RegisterWordPrime DEF Reg
        <4>3. CASE ~(a.reg \in {"PRED_LO", "PRED_HI"} /\ a.idx = i)
          <5>1. CASE a.reg \in {"PRED_LO", "PRED_HI"}
            <6>1. cfg'.pred[a.idx] = cfg.pred[a.idx]
              BY <2>7, <4>1, <4>3, <5>1
            <6> QED
              BY <3>3, <5>1, <6>1, RegisterWord, RegisterWordPrime DEF Reg
          <5>2. CASE a.reg \notin {"PRED_LO", "PRED_HI"}
            <6>1. register(a)' = register(a)
              <7>1. CASE a.reg = "LOAD_DATA"
                BY <2>2, <7>1, RegisterWord, RegisterWordPrime
              <7>2. CASE a = Reg("QUERY")
                BY <2>3, <7>2, RegisterWord, RegisterWordPrime
              <7>3. CASE a = Reg("AGG_CFG")
                BY <2>3, <7>3, RegisterWord, RegisterWordPrime
              <7>4. CASE a = Reg("PROJ_MASK")
                BY <2>3, <7>4, RegisterWord, RegisterWordPrime
              <7>5. CASE a = Reg("LOAD_ADDR")
                BY <2>2, <7>5, RegisterWord, RegisterWordPrime
              <7> QED BY <5>2, <7>1, <7>2, <7>3, <7>4, <7>5, ConfigCases
            <6> QED BY <3>3, <6>1
          <5> QED BY <5>1, <5>2
        <4> QED BY <4>2, <4>3
      <3> QED BY <3>1, <3>2, <3>3
    <2> QED BY <2>8, <2>9 DEF addr, data
  <1>6. CASE addr \in Config /\ addr.reg = "LOAD_DATA"
    <2>1. addr.idx \in ColIdx /\ addr = [reg |-> "LOAD_DATA", idx |-> addr.idx]
      BY <1>6, ConfigCases DEF Reg
    <2>2. /\ cfg' = cfg /\ load_addr_q' = load_addr_q
          /\ load_data_q' = [load_data_q EXCEPT ![addr.idx] = data]
      BY <1>0, <1>6 DEF WrittenCfg, Reg
    <2>3. /\ load_data_q' = [c \in ColIdx |-> load_data_q'[c]]
          /\ load_data_q'[addr.idx] = data
          /\ \A c \in ColIdx : c # addr.idx => load_data_q'[c] = load_data_q[c]
      BY <2>1, <2>2 DEF Shape
    <2>4. Shape'
      BY <2>2, <2>3 DEF Shape
    <2>5. ASSUME NEW a \in Config
          PROVE  register(a)' = IF a = addr THEN Kept(a, data) ELSE register(a)
      BY <2>1, <2>2, <2>3, ConfigCases, RegisterWord, RegisterWordPrime
      DEF Kept, RowRegisters, Reg
    <2> QED BY <2>4, <2>5 DEF addr, data
  <1>7. CASE addr \in Commands
    <2>1. /\ cfg' = cfg /\ load_addr_q' = load_addr_q
          /\ load_data_q' = load_data_q
      BY <1>0, <1>7 DEF WrittenCfg, Reg, Commands
    <2>2. addr \notin Config
      BY <1>7 DEF Commands, Config, Reg
    <2> QED BY <2>1, <2>2, Untouched DEF addr, data, Shape
  <1> QED
    BY <1>0, <1>1, <1>2, <1>3, <1>4, <1>5, <1>6, <1>7, ConfigCases
    DEF addr, data

-----------------------------------------------------------------------------
(* What a sequence of writes leaves in a register *)

LEMMA LatestIs ==
  ASSUME NEW h \in SUBSET Nat, NEW m \in h, \A j \in h : j <= m
  PROVE  Latest(h) = m
  <1>1. \A i \in h : (\A j \in h : j <= i) => i = m
    OBVIOUS
  <1> QED BY <1>1 DEF Latest

\* The writes of an address have a latest one.
HasLatest(a, w) ==
  Hits(a, w) # {} => \E i \in Hits(a, w) : \A j \in Hits(a, w) : j <= i

\* One more write changes what its own register holds and nothing else.
LEMMA LastWrittenAppend ==
  ASSUME NEW S, NEW w \in Seq(S), NEW x \in S, NEW a, HasLatest(a, w)
  PROVE  /\ HasLatest(a, Append(w, x))
         /\ LastWritten(a, Append(w, x)) =
              IF x.addr = a THEN Kept(a, x.data) ELSE LastWritten(a, w)
  <1> DEFINE v == Append(w, x)
             n == Len(w)
  <1>1. /\ n \in Nat /\ Len(v) = n + 1
        /\ \A i \in 1 .. n : v[i] = w[i]
        /\ v[n + 1] = x
    BY AppendProperties
  <1> HIDE DEF v, n
  <1>2. Hits(a, w) \subseteq 1 .. n
    BY DEF Hits, n
  <1>3. CASE x.addr = a
    <2>1. n + 1 \in Hits(a, v) /\ \A j \in Hits(a, v) : j \in Nat /\ j <= n + 1
      BY <1>1, <1>3 DEF Hits
    <2>2. Latest(Hits(a, v)) = n + 1
      BY <2>1, LatestIs
    <2> QED BY <1>1, <1>3, <2>1, <2>2 DEF LastWritten, HasLatest, v
  <1>4. CASE x.addr # a
    <2>1. Hits(a, v) = Hits(a, w)
      BY <1>1, <1>4 DEF Hits, n
    <2>2. CASE Hits(a, w) = {}
      BY <1>4, <2>1, <2>2 DEF LastWritten, HasLatest, v
    <2>3. CASE Hits(a, w) # {}
      <3>1. PICK m \in Hits(a, w) : \A j \in Hits(a, w) : j <= m
        BY <2>3 DEF HasLatest
      <3>2. Latest(Hits(a, w)) = m /\ v[m] = w[m]
        BY <1>1, <1>2, <3>1, LatestIs
      <3> QED BY <1>4, <2>1, <2>3, <3>2 DEF LastWritten, HasLatest, v
    <2> QED BY <2>2, <2>3
  <1> QED BY <1>3, <1>4

-----------------------------------------------------------------------------
(* The bus *)

\* The ready wires of a channel are low exactly while its response is pending.
Serial ==
  /\ bvalid_q \in BOOLEAN /\ awready_q = ~bvalid_q /\ wready_q = ~bvalid_q
  /\ rvalid_q \in BOOLEAN /\ arready_q = ~rvalid_q

\* The writes a master of the model may offer.
Legal(addr, data) ==
  \/ \E w \in Writes : addr = w.addr /\ data = w.data
  \/ addr \in Config \cup Commands /\ data \in WriteData(addr)
LegalWrites ==
  {[addr |-> w.addr, data |-> w.data] : w \in Writes}
  \cup UNION {{[addr |-> a, data |-> d] : d \in WriteData(a)} :
              a \in Config \cup Commands}

\* The history and the registers agree.
Landed ==
  /\ accepted \in Seq(LegalWrites)
  /\ responses \in Nat
  /\ Len(accepted) = responses + (IF bvalid_q THEN 1 ELSE 0)
  /\ \A a \in Config : /\ HasLatest(a, accepted)
                       /\ register(a) = LastWritten(a, accepted)

\* The invariant of the slave under any master that offers legal writes.
SlaveInv == Shape /\ Serial /\ Landed

LEMMA LegalWord ==
  ASSUME NEW addr, NEW data, Legal(addr, data)
  PROVE  /\ addr \in Config \cup Commands
         /\ IsWord(addr, data)
         /\ [addr |-> addr, data |-> data] \in LegalWrites
  <1>1. CASE \E w \in Writes : addr = w.addr /\ data = w.data
    BY <1>1, RegisterAssumption DEF LegalWrites
  <1>2. CASE addr \in Config \cup Commands /\ data \in WriteData(addr)
    <2>1. addr \in Commands => IsWord(addr, data)
      BY DEF Commands, IsWord, RowRegisters, Reg
    <2>2. addr \in Config => IsWord(addr, data)
      BY <1>2, WriteDataAssumption
    <2> QED BY <1>2, <2>1, <2>2 DEF LegalWrites
  <1> QED BY <1>1, <1>2 DEF Legal

\* The state after reset.
LEMMA InitSlaveInv == Init => SlaveInv
  <1> SUFFICES ASSUME Init PROVE SlaveInv
    OBVIOUS
  <1>1. cfg = ResetCfg /\ load_addr_q = 0 /\ load_data_q = [c \in ColIdx |-> 0]
    BY DEF Init, SlaveInit
  <1>2. Shape
    BY <1>1 DEF Shape, ResetCfg, IsPred
  <1>3. Serial
    BY DEF Init, SlaveInit, Serial
  <1>4. accepted = <<>> /\ responses = 0 /\ ~bvalid_q
    BY DEF Init, SlaveInit
  <1>5. ASSUME NEW a \in Config
        PROVE  HasLatest(a, accepted) /\ register(a) = LastWritten(a, accepted)
    <2>1. Hits(a, accepted) = {}
      BY <1>4 DEF Hits
    <2>2. register(a) = ResetWord(a)
      <3>1. /\ cfg.num_rows = 0 /\ cfg.op = "SELECT" /\ cfg.groupby = FALSE
            /\ cfg.column = 0 /\ cfg.gby_key = 0
            /\ cfg.proj = [c \in ColIdx |-> FALSE]
            /\ \A i \in Slots : cfg.pred[i] =
                 [enable |-> FALSE, op |-> "EQ", combine |-> "AND", column |-> 0,
                  imm |-> 0]
        BY <1>1 DEF ResetCfg
      <3>2. CASE a = Reg("AGG_CFG")
        BY <3>1, <3>2, RegisterWord DEF ResetWord
      <3>3. CASE a = Reg("PROJ_MASK")
        BY <3>1, <3>3, RegisterWord DEF ResetWord, Reg
      <3>4. CASE a \in {Reg("QUERY"), Reg("LOAD_ADDR")}
        BY <1>1, <3>1, <3>4, RegisterWord DEF ResetWord, Reg
      <3>5. CASE a.reg = "PRED_LO" /\ a.idx \in Slots
        BY <3>1, <3>5, RegisterWord DEF ResetWord, Reg
      <3>6. CASE a.reg = "PRED_HI" /\ a.idx \in Slots
        BY <3>1, <3>6, RegisterWord DEF ResetWord, Reg
      <3>7. CASE a.reg = "LOAD_DATA" /\ a.idx \in ColIdx
        BY <1>1, <3>7, RegisterWord DEF ResetWord, Reg
      <3> QED BY <3>2, <3>3, <3>4, <3>5, <3>6, <3>7, ConfigCases
    <2> QED BY <2>1, <2>2 DEF HasLatest, LastWritten
  <1> QED BY <1>2, <1>3, <1>4, <1>5 DEF SlaveInv, Landed

\* One clock edge under a legal master.
LEMMA TransferKeeps ==
  ASSUME SlaveInv, NEW bus, Transfer(bus),
         bus.awvalid /\ bus.wvalid => Legal(bus.awaddr, bus.wdata)
  PROVE  /\ SlaveInv'
         /\ \A a \in Config : register(a)' =
              IF wr_cap(bus) /\ a = bus.awaddr THEN Kept(a, bus.wdata)
              ELSE register(a)
  <1>1. Serial'
    BY DEF SlaveInv, Serial, Transfer, SlaveEdge, WriteChannel, ReadChannel, wr_cap
  <1>2. CASE wr_cap(bus)
    <2>1. /\ bus.awaddr \in Config \cup Commands
          /\ IsWord(bus.awaddr, bus.wdata)
          /\ [addr |-> bus.awaddr, data |-> bus.wdata] \in LegalWrites
      BY <1>2, LegalWord DEF wr_cap
    <2>2. /\ Shape'
          /\ \A a \in Config : register(a)' =
               IF a = bus.awaddr THEN Kept(a, bus.wdata) ELSE register(a)
      BY <1>2, <2>1, WriteEffect DEF SlaveInv, Transfer, SlaveEdge
    <2> DEFINE x == [addr |-> bus.awaddr, data |-> bus.wdata]
    <2>3. accepted' = Append(accepted, x)
      BY <1>2 DEF Transfer, wr_cap
    <2>4. ~bvalid_q /\ bvalid_q' /\ responses' = responses
      BY <1>2 DEF SlaveInv, Serial, Transfer, SlaveEdge, WriteChannel, wr_cap
    <2>5. x \in LegalWrites /\ x.addr = bus.awaddr /\ x.data = bus.wdata
      BY <2>1
    <2> HIDE DEF x
    <2>6. accepted' \in Seq(LegalWrites) /\ Len(accepted') = Len(accepted) + 1
      BY <2>3, <2>5, AppendProperties DEF SlaveInv, Landed
    <2>7. ASSUME NEW a \in Config
          PROVE  HasLatest(a, accepted') /\ register(a)' = LastWritten(a, accepted')
      BY <2>2, <2>3, <2>5, LastWrittenAppend DEF SlaveInv, Landed
    <2>8. Landed'
      BY <2>4, <2>6, <2>7 DEF SlaveInv, Landed
    <2> QED BY <1>1, <1>2, <2>2, <2>8 DEF SlaveInv
  <1>3. CASE ~wr_cap(bus)
    <2>1. /\ cfg' = cfg /\ load_addr_q' = load_addr_q
          /\ load_data_q' = load_data_q
      BY <1>3 DEF Transfer, SlaveEdge, RegisterFile
    <2>2. Shape' /\ \A a \in Config : register(a)' = register(a)
      BY <2>1, Untouched DEF SlaveInv, Shape
    <2>3. accepted' = accepted
      BY <1>3 DEF Transfer, wr_cap
    <2>4. responses' = responses + (IF bvalid_q THEN 1 ELSE 0)
                                 - (IF bvalid_q' THEN 1 ELSE 0)
      <3>1. CASE bvalid_q /\ bus.bready
        <4>1. bvalid_q' = FALSE
          BY <3>1 DEF Transfer, SlaveEdge, WriteChannel
        <4>2. responses' = responses + 1
          BY <3>1 DEF Transfer
        <4> QED BY <3>1, <4>1, <4>2 DEF SlaveInv, Landed
      <3>2. CASE ~(bvalid_q /\ bus.bready)
        <4>1. responses' = responses /\ bvalid_q' = bvalid_q
          BY <1>3, <3>2
          DEF SlaveInv, Serial, Transfer, SlaveEdge, WriteChannel
        <4> QED BY <4>1 DEF SlaveInv, Landed
      <3> QED BY <3>1, <3>2
    <2>5. responses' \in Nat
      BY <1>3 DEF SlaveInv, Landed, Transfer
    <2>6. Landed'
      BY <2>2, <2>3, <2>4, <2>5 DEF SlaveInv, Landed
    <2> QED BY <1>1, <1>3, <2>2, <2>6 DEF SlaveInv
  <1> QED BY <1>2, <1>3

-----------------------------------------------------------------------------
(* The testbench *)

\* The free master offers one of its writes and keeps it.
Offering ==
  /\ offer = [awvalid |-> offer.awvalid, wvalid |-> offer.wvalid,
              addr |-> offer.addr, data |-> offer.data]
  /\ Offered => \E w \in Writes : offer.addr = w.addr /\ offer.data = w.data

\* The call in progress, or the one that has returned.
CallShape ==
  /\ txn = [kind |-> txn.kind, phase |-> txn.phase, addr |-> txn.addr,
            data |-> txn.data, gated |-> txn.gated, cyc |-> txn.cyc]
  /\ txn.phase \in {"idle", "addr", "hold", "done"}
  /\ txn.phase # "idle" => txn.kind \in {"W", "R"}
  /\ txn.phase # "idle" /\ txn.kind = "W" =>
       txn.addr \in Config \cup Commands /\ txn.data \in WriteData(txn.addr)
  /\ txn.phase # "idle" /\ txn.kind = "R" =>
       txn.addr \in Config \cup ReadOnly \cup Commands

\* A response is on the bus in the hold phase of its call only, and a read
\* response is the one to the address the call asked for: the word sampled is
\* that of the mux under the status of the first response cycle, and stays so
\* while the status moves on.
CallBus ==
  /\ bvalid_q <=> txn.phase = "hold" /\ txn.kind = "W"
  /\ rvalid_q <=> txn.phase = "hold" /\ txn.kind = "R"
  /\ rvalid_q => araddr_q = txn.addr
  /\ txn.phase \in {"hold", "done"} /\ txn.kind = "R" =>
       txn.data = rdata(txn.addr, atResponse)

\* The status inputs, now and when the last read was answered, are those of
\* the reset or of the instance.
IsStatus(s) == s.result \in Nat /\ s.count \in Nat
Inputs == IsStatus(status) /\ IsStatus(atResponse)

\* What the bench expects runs ahead of the registers by the write it has
\* called and the slave has not yet accepted.
Expectation ==
  /\ \A a \in Config :
       \/ register(a) = expected[a]
       \/ txn.phase = "addr" /\ txn.kind = "W" /\ a = txn.addr
  /\ expected = [a \in Config |-> expected[a]]
  /\ txn.phase # "idle" /\ txn.kind = "W" /\ txn.addr \in Config =>
       expected[txn.addr] = txn.data

\* The strobes a write causes, all of them in the cycle after its acceptance.
Due == [start |-> IF txn.addr = Reg("CTRL") /\ txn.data.start THEN 1 ELSE 0,
        abort |-> IF txn.addr = Reg("CTRL") /\ txn.data.abort THEN 1 ELSE 0,
        load |-> IF txn.addr = Reg("LOAD_ROW") THEN 1 ELSE 0]
Pulses ==
  /\ txn.phase = "addr" => pulses = NoPulse
  /\ txn.phase \in {"hold", "done"} /\ txn.kind = "W" => pulses = Due

\* The inductive invariant of the bench.
BenchInv ==
  /\ SlaveInv
  /\ Inputs
  /\ pc \in {"bench", "free"}
  /\ pc = "free" => Offering /\ txn = NoTxn
  /\ pc = "bench" => CallShape /\ CallBus /\ Expectation /\ Pulses

LEMMA SlaveStutter ==
  ASSUME SlaveInv, UNCHANGED <<slaveVars, accepted, responses>>
  PROVE  SlaveInv' /\ \A a \in Config : register(a)' = register(a)
  <1>1. /\ cfg' = cfg /\ load_addr_q' = load_addr_q
        /\ load_data_q' = load_data_q /\ bvalid_q' = bvalid_q
        /\ accepted' = accepted /\ responses' = responses
    BY DEF slaveVars
  <1>2. Shape' /\ \A a \in Config : register(a)' = register(a)
    BY <1>1, Untouched DEF SlaveInv, Shape
  <1>3. Serial'
    BY DEF SlaveInv, Serial, slaveVars
  <1> QED BY <1>1, <1>2, <1>3 DEF SlaveInv, Landed

\* The free master keeps the slave's invariant.
LEMMA FreeKeeps ==
  ASSUME BenchInv, FreeStep
  PROVE  BenchInv'
  <1>0. SlaveInv /\ Offering /\ pc = "free" /\ txn = NoTxn
        /\ pc' = "free" /\ txn' = NoTxn
    BY DEF BenchInv, FreeStep, bench
  <1>5. Inputs'
    <2>1. status' = status \/ status' \in Statuses
      BY DEF FreeStep, Next, OfferWrite, CompleteOffer, OfferRead, Clock
    <2>2. atResponse' = atResponse
      BY DEF FreeStep, bench
    <2> QED BY <2>1, <2>2, RegisterAssumption DEF BenchInv, Inputs, IsStatus
  <1>1. CASE OfferWrite
    <2>1. SlaveInv'
      BY <1>0, <1>1, SlaveStutter DEF OfferWrite, slaveVars
    <2>2. Offering'
      BY <1>1 DEF OfferWrite, Offering, Offered
    <2> QED BY <1>0, <1>5, <2>1, <2>2 DEF BenchInv
  <1>2. CASE CompleteOffer
    <2>1. SlaveInv'
      BY <1>0, <1>2, SlaveStutter DEF CompleteOffer, slaveVars
    <2>2. offer' = [awvalid |-> TRUE, wvalid |-> TRUE, addr |-> offer.addr,
                    data |-> offer.data]
      BY <1>0, <1>2 DEF CompleteOffer, Offering
    <2>3. Offering'
      BY <1>0, <1>2, <2>2 DEF CompleteOffer, Offering, Offered
    <2> QED BY <1>0, <1>5, <2>1, <2>3 DEF BenchInv
  <1>3. CASE OfferRead
    <2>1. SlaveInv'
      BY <1>0, <1>3, SlaveStutter DEF OfferRead, slaveVars
    <2>2. Offering'
      BY <1>0, <1>3 DEF OfferRead, Offering, Offered
    <2> QED BY <1>0, <1>5, <2>1, <2>2 DEF BenchInv
  <1>4. ASSUME NEW b \in BOOLEAN, NEW r \in BOOLEAN, Clock(b, r)
        PROVE  BenchInv'
    <2> DEFINE bus == [awvalid |-> offer.awvalid, awaddr |-> offer.addr,
                       wvalid |-> offer.wvalid, wdata |-> offer.data,
                       bready |-> b, arvalid |-> rd.arvalid,
                       araddr |-> rd.addr, rready |-> r]
    <2>1. Transfer(bus)
      BY <1>4 DEF Clock
    <2>2. bus.awvalid /\ bus.wvalid => Legal(bus.awaddr, bus.wdata)
      BY <1>0 DEF Offering, Offered, Legal
    <2>3. SlaveInv'
      <3> HIDE DEF bus
      <3> QED BY <1>0, <2>1, <2>2, TransferKeeps
    <2>4. Offering'
      BY <1>0, <1>4 DEF Clock, Offering, Offered, NoOffer
    <2> QED BY <1>0, <1>5, <2>3, <2>4 DEF BenchInv
  <1> QED BY <1>1, <1>2, <1>3, <1>4 DEF FreeStep, Next

\* A call begins only when nothing is in flight, and changes no register.
LEMMA CallKeeps ==
  ASSUME BenchInv, NEW addr, NEW g,
         \/ addr \in Config \cup Commands /\ CallWrite(addr, g)
         \/ addr \in Config \cup ReadOnly \cup Commands /\ CallRead(addr, g)
  PROVE  BenchInv'
  <1>0. /\ SlaveInv /\ CallShape /\ CallBus /\ Expectation /\ Pulses
        /\ pc = "bench" /\ pc' = "bench"
        /\ ~Calling /\ UNCHANGED vars
    BY DEF BenchInv, CallWrite, CallRead, NextOperation, Call
  <1>1. SlaveInv' /\ \A a \in Config : register(a)' = register(a)
    BY <1>0, SlaveStutter DEF vars
  <1>2. ~bvalid_q /\ ~rvalid_q /\ \A a \in Config : register(a) = expected[a]
    BY <1>0 DEF Calling, CallBus, Expectation
  <1>5. Inputs'
    BY <1>0 DEF BenchInv, Inputs, CallWrite, CallRead, vars
  <1>3. CASE addr \in Config \cup Commands /\ CallWrite(addr, g)
    <2>1. PICK data \in WriteData(addr) :
            /\ txn' = [kind |-> "W", phase |-> "addr", addr |-> addr,
                       data |-> data, gated |-> g, cyc |-> 0]
            /\ expected' = IF addr \in Config
                           THEN [expected EXCEPT ![addr] = data] ELSE expected
      BY <1>3 DEF CallWrite, Call
    <2>2. CallShape' /\ Pulses'
      BY <1>3, <2>1 DEF CallShape, CallWrite, Pulses
    <2>3. CallBus'
      BY <1>0, <1>2, <2>1 DEF CallBus, vars, slaveVars
    <2>4. Expectation'
      BY <1>0, <1>1, <1>2, <2>1 DEF Expectation
    <2> QED BY <1>0, <1>1, <1>5, <2>2, <2>3, <2>4 DEF BenchInv
  <1>4. CASE addr \in Config \cup ReadOnly \cup Commands /\ CallRead(addr, g)
    <2>1. /\ txn' = [kind |-> "R", phase |-> "addr", addr |-> addr,
                     data |-> NoData, gated |-> g, cyc |-> 0]
          /\ expected' = expected
      BY <1>4 DEF CallRead, Call
    <2>2. CallShape' /\ Pulses'
      BY <1>4, <2>1 DEF CallShape, CallRead, Pulses
    <2>3. CallBus'
      BY <1>0, <1>2, <2>1 DEF CallBus, vars, slaveVars
    <2>4. Expectation'
      BY <1>0, <1>1, <1>2, <2>1 DEF Expectation
    <2> QED BY <1>0, <1>1, <1>5, <2>2, <2>3, <2>4 DEF BenchInv
  <1> QED BY <1>3, <1>4

\* What a clock does under the wires of a helper: outside the addr phase no
\* write is accepted.
LEMMA HelperClock ==
  ASSUME BenchInv, pc = "bench", NEW b \in BOOLEAN, BenchClock(b, b)
  PROVE  /\ SlaveInv'
         /\ \A a \in Config : register(a)' =
              IF txn.phase = "addr" /\ txn.kind = "W" /\ a = txn.addr
              THEN Kept(a, txn.data) ELSE register(a)
         /\ ~(txn.phase = "addr" /\ txn.kind = "W") =>
              /\ ~start_q' /\ ~abort_req_q' /\ ~load_wen_q'
              /\ cfg' = cfg /\ load_addr_q' = load_addr_q
              /\ load_data_q' = load_data_q
  <1> DEFINE bus == Wires(b, b)
  <1>1. CallShape /\ CallBus /\ SlaveInv /\ Transfer(bus)
    BY DEF BenchInv, BenchClock
  <1>2. /\ bus.awvalid = (txn.kind = "W" /\ txn.phase = "addr")
        /\ bus.wvalid = bus.awvalid
        /\ bus.awaddr = txn.addr /\ bus.wdata = txn.data
    BY DEF Wires
  <1>3. bus.awvalid /\ bus.wvalid => Legal(bus.awaddr, bus.wdata)
    BY <1>1, <1>2 DEF CallShape, Legal
  <1>4. wr_cap(bus) <=> txn.phase = "addr" /\ txn.kind = "W"
    BY <1>1, <1>2 DEF wr_cap, SlaveInv, Serial, CallBus
  <1> HIDE DEF bus
  <1>5. SlaveInv' /\ \A a \in Config : register(a)' =
          IF wr_cap(bus) /\ a = bus.awaddr THEN Kept(a, bus.wdata) ELSE register(a)
    BY <1>1, <1>3, TransferKeeps
  <1>6. ~wr_cap(bus) => /\ ~start_q' /\ ~abort_req_q' /\ ~load_wen_q'
                        /\ cfg' = cfg /\ load_addr_q' = load_addr_q
                        /\ load_data_q' = load_data_q
    BY <1>1 DEF Transfer, SlaveEdge, Strobes, RegisterFile
  <1> QED BY <1>2, <1>4, <1>5, <1>6

\* A clock of a call: the slave answers in the cycle after it accepted, the
\* response stays until the gated ready takes it, and then the call returns.
LEMMA TickKeeps ==
  ASSUME BenchInv, BusTick
  PROVE  BenchInv'
  <1>0. PICK b \in BOOLEAN :
          /\ BenchClock(b, b)
          /\ txn' = AfterTick(bvalid_q', rvalid_q', rdata(araddr_q, status)')
    BY DEF BusTick, ReadyChoices
  <1>1. /\ txn.phase \in {"addr", "hold"} /\ pc = "bench" /\ pc' = "bench"
        /\ SlaveInv /\ CallShape /\ CallBus /\ Expectation /\ Pulses
        /\ expected' = expected
        /\ atResponse' = IF rvalid_q' /\ ~rvalid_q THEN status' ELSE atResponse
    BY DEF BenchInv, BusTick, Calling, NoTxn, CallShape
  <1> DEFINE bus == Wires(b, b)
  <1>2. /\ bvalid_q' = ((bvalid_q \/ wr_cap(bus)) /\ ~(bvalid_q /\ b))
        /\ LET take == bus.arvalid /\ arready_q
           IN  /\ rvalid_q' = ((rvalid_q \/ take) /\ ~(rvalid_q /\ b))
               /\ araddr_q' = IF take THEN txn.addr ELSE araddr_q
    BY <1>0 DEF BenchClock, Transfer, SlaveEdge, WriteChannel, ReadChannel, Wires
  <1>3. /\ wr_cap(bus) <=> txn.phase = "addr" /\ txn.kind = "W"
        /\ bus.arvalid /\ arready_q <=> txn.phase = "addr" /\ txn.kind = "R"
    BY <1>1 DEF wr_cap, SlaveInv, Serial, CallBus, Wires
  <1>4. txn.kind \in {"W", "R"}
    BY <1>1 DEF CallShape
  <1>9. Inputs'
    <2>1. status' \in Statuses
      BY DEF BusTick
    <2> QED BY <1>1, <2>1, RegisterAssumption DEF BenchInv, Inputs, IsStatus
  <1> HIDE DEF bus
  <1>5. CASE txn.phase = "addr" /\ txn.kind = "W"
    <2>1. bvalid_q' /\ ~rvalid_q'
      BY <1>1, <1>2, <1>3, <1>5 DEF CallBus
    <2>2. txn' = [txn EXCEPT !.phase = "hold", !.data = txn.data]
      BY <1>0, <1>5, <2>1 DEF AfterTick
    <2>3. /\ CallShape' /\ txn'.phase = "hold" /\ txn'.kind = "W"
          /\ txn'.addr = txn.addr /\ txn'.data = txn.data
      BY <1>1, <1>5, <2>2 DEF CallShape
    <2>4. CallBus'
      BY <2>1, <2>3 DEF CallBus
    <2>5. Expectation'
      <3>1. ASSUME NEW a \in Config PROVE register(a)' = expected[a]
        <4>1. CASE a = txn.addr
          BY <1>0, <1>1, <1>5, <4>1, HelperClock, WriteDataAssumption
          DEF Expectation, CallShape
        <4>2. CASE a # txn.addr
          BY <1>0, <1>1, <1>5, <4>2, HelperClock DEF Expectation
        <4> QED BY <4>1, <4>2
      <3> QED BY <1>1, <1>5, <2>3, <3>1 DEF Expectation
    <2>6. Pulses'
      <3>1. /\ start_q' = (txn.addr = Reg("CTRL") /\ txn.data.start)
            /\ abort_req_q' = (txn.addr = Reg("CTRL") /\ txn.data.abort)
            /\ load_wen_q' = (txn.addr = Reg("LOAD_ROW"))
        BY <1>0, <1>3, <1>5
        DEF BenchClock, Transfer, SlaveEdge, Strobes, Wires, bus
      <3>2. pulses = [start |-> 0, abort |-> 0, load |-> 0]
        BY <1>1, <1>5 DEF Pulses, NoPulse
      <3>3. pulses' = [start |-> IF start_q' THEN 1 ELSE 0,
                       abort |-> IF abort_req_q' THEN 1 ELSE 0,
                       load |-> IF load_wen_q' THEN 1 ELSE 0]
        BY <1>0, <3>2 DEF BenchClock
      <3> QED BY <2>3, <3>1, <3>3 DEF Pulses, Due
    <2> QED BY <1>0, <1>1, <1>9, <2>3, <2>4, <2>5, <2>6, HelperClock DEF BenchInv
  <1>6. CASE txn.phase = "addr" /\ txn.kind = "R"
    <2>1. /\ rvalid_q' /\ ~bvalid_q' /\ araddr_q' = txn.addr
          /\ atResponse' = status'
      BY <1>1, <1>2, <1>3, <1>6 DEF CallBus
    <2>2. txn' = [txn EXCEPT !.phase = "hold", !.data = rdata(araddr_q, status)']
      BY <1>0, <1>6, <2>1 DEF AfterTick
    <2>3. /\ CallShape' /\ txn'.phase = "hold" /\ txn'.kind = "R"
          /\ txn'.addr = txn.addr /\ txn'.data = rdata(araddr_q, status)'
      BY <1>1, <1>6, <2>2 DEF CallShape
    <2>4. CallBus'
      BY <2>1, <2>3 DEF CallBus, rdata, register
    <2>5. Expectation'
      BY <1>0, <1>1, <1>6, <2>3, HelperClock DEF Expectation
    <2>6. Pulses'
      BY <2>3 DEF Pulses
    <2> QED BY <1>0, <1>1, <1>9, <2>3, <2>4, <2>5, <2>6, HelperClock DEF BenchInv
  <1>7. CASE txn.phase = "hold" /\ txn.kind = "W"
    <2>1. (bvalid_q' <=> ~b) /\ ~rvalid_q'
      BY <1>1, <1>2, <1>3, <1>7 DEF CallBus
    <2>2. txn' = [txn EXCEPT !.phase = IF b THEN "done" ELSE "hold",
                             !.data = txn.data]
      BY <1>0, <1>7, <2>1 DEF AfterTick
    <2>3. /\ CallShape' /\ txn'.phase = (IF b THEN "done" ELSE "hold")
          /\ txn'.kind = "W" /\ txn'.addr = txn.addr /\ txn'.data = txn.data
      BY <1>1, <1>7, <2>2 DEF CallShape
    <2>4. CallBus'
      BY <2>1, <2>3 DEF CallBus
    <2>5. Expectation'
      BY <1>0, <1>1, <1>7, <2>3, HelperClock DEF Expectation
    <2>6. Pulses'
      <3>1. pulses = Due /\ ~start_q' /\ ~abort_req_q' /\ ~load_wen_q'
        BY <1>0, <1>1, <1>7, HelperClock DEF Pulses
      <3>2. pulses' = [start |-> pulses.start + 0, abort |-> pulses.abort + 0,
                       load |-> pulses.load + 0]
        BY <1>0, <3>1 DEF BenchClock
      <3>3. pulses' = pulses
        BY <3>1, <3>2 DEF Due
      <3>4. Due' = Due
        BY <2>3 DEF Due
      <3> QED BY <2>3, <3>1, <3>3, <3>4 DEF Pulses
    <2> QED BY <1>0, <1>1, <1>9, <2>3, <2>4, <2>5, <2>6, HelperClock DEF BenchInv
  <1>8. CASE txn.phase = "hold" /\ txn.kind = "R"
    <2>1. (rvalid_q' <=> ~b) /\ ~bvalid_q' /\ araddr_q' = txn.addr
      BY <1>1, <1>2, <1>3, <1>8 DEF CallBus
    <2>2. txn' = [txn EXCEPT !.phase = IF b THEN "done" ELSE "hold",
                             !.data = txn.data]
      BY <1>0, <1>8, <2>1 DEF AfterTick
    <2>3. /\ CallShape' /\ txn'.phase = (IF b THEN "done" ELSE "hold")
          /\ txn'.kind = "R" /\ txn'.addr = txn.addr /\ txn'.data = txn.data
      BY <1>1, <1>8, <2>2 DEF CallShape
    <2>4. /\ cfg' = cfg /\ load_addr_q' = load_addr_q
          /\ load_data_q' = load_data_q
      BY <1>0, <1>1, <1>8, HelperClock
    <2>5. rdata(txn.addr, atResponse)' = rdata(txn.addr, atResponse)
      <3>1. atResponse' = atResponse
        BY <1>1, <1>8 DEF CallBus
      <3> QED BY <2>3, <2>4, <3>1 DEF rdata, register
    <2>6. CallBus'
      BY <1>1, <1>8, <2>1, <2>3, <2>5 DEF CallBus
    <2>7. Expectation'
      BY <1>0, <1>1, <1>8, <2>3, HelperClock DEF Expectation
    <2>8. Pulses'
      BY <2>3 DEF Pulses
    <2> QED BY <1>0, <1>1, <1>9, <2>3, <2>6, <2>7, <2>8, HelperClock DEF BenchInv
  <1> QED BY <1>1, <1>4, <1>5, <1>6, <1>7, <1>8

\* Between calls the status inputs move and nothing else does.
LEMMA DriveKeeps ==
  ASSUME BenchInv, DriveStatus
  PROVE  BenchInv'
  <1>1. /\ BenchClock(TRUE, TRUE) /\ txn' = NoTxn /\ expected' = expected
        /\ txn.phase \in {"idle", "done"} /\ pc = "bench" /\ pc' = "bench"
        /\ CallShape /\ CallBus /\ Expectation /\ SlaveInv
    BY DEF BenchInv, DriveStatus, NextOperation, Calling, CallShape
  <1>2. SlaveInv' /\ \A a \in Config : register(a)' = register(a)
    BY <1>1, HelperClock
  <1>3. ~bvalid_q' /\ ~rvalid_q'
    BY <1>1
    DEF BenchClock, Transfer, SlaveEdge, WriteChannel, ReadChannel, Wires,
        wr_cap, CallBus
  <1>4. CallShape' /\ CallBus' /\ Pulses'
    BY <1>1, <1>3 DEF CallShape, CallBus, Pulses, NoTxn
  <1>5. Expectation'
    BY <1>1, <1>2 DEF Expectation, NoTxn
  <1>6. Inputs'
    BY RegisterAssumption DEF BenchInv, DriveStatus, Inputs, IsStatus
  <1> QED BY <1>1, <1>2, <1>4, <1>5, <1>6 DEF BenchInv

LEMMA BenchInvStep == BenchInv /\ [BenchNext]_benchVars => BenchInv'
  <1> SUFFICES ASSUME BenchInv, [BenchNext]_benchVars PROVE BenchInv'
    OBVIOUS
  <1>1. CASE BenchNext
    BY <1>1, CallKeeps, TickKeeps, DriveKeeps, FreeKeeps DEF BenchNext
  <1>2. CASE UNCHANGED benchVars
    <2>1. SlaveInv' /\ \A a \in Config : register(a)' = register(a)
      BY <1>2, SlaveStutter DEF BenchInv, benchVars, vars
    <2>2. rdata(txn.addr, atResponse)' = rdata(txn.addr, atResponse)
      BY <1>2 DEF benchVars, vars, bench, slaveVars, rdata, register
    <2> QED
      BY <1>2, <2>1, <2>2
      DEF benchVars, vars, bench, slaveVars, BenchInv, Offering, Offered,
          CallShape, CallBus, Expectation, Pulses, Due, Inputs
  <1> QED BY <1>1, <1>2

LEMMA BenchInitInv == BenchInit => BenchInv
  <1> SUFFICES ASSUME BenchInit PROVE BenchInv
    OBVIOUS
  <1>1. SlaveInv /\ ~bvalid_q /\ ~rvalid_q
    BY InitSlaveInv DEF BenchInit, Init, SlaveInit
  <1>2. Offering
    BY DEF BenchInit, Init, NoOffer, Offering, Offered
  <1>3. CallShape /\ CallBus /\ Expectation /\ Pulses
    BY <1>1 DEF BenchInit, NoTxn, CallShape, CallBus, Expectation, Pulses
  <1>4. Inputs
    BY DEF BenchInit, Init, Inputs, IsStatus
  <1> QED BY <1>1, <1>2, <1>3, <1>4 DEF BenchInit, BenchInv

LEMMA BenchInvariant == BenchSpec => []BenchInv
  BY BenchInitInv, BenchInvStep, PTL DEF BenchSpec

\* Whatever the master does, each accepted write takes effect exactly once, on
\* its own register, and no write is accepted while the response to its
\* predecessor is pending (axi_lite_slave.sv, m_write_serialized).
THEOREM EveryWriteLands == BenchSpec => []WritesLand
  <1>1. BenchInv => WritesLand
    BY DEF BenchInv, SlaveInv, Landed, WritesLand
  <1> QED BY <1>1, BenchInvariant, PTL

\* The round trips of tb_axilite.cpp: between two calls every register holds
\* the word last written to it and nothing is in flight.
THEOREM RegistersRoundTrip == BenchSpec => []RoundTrip
  <1>1. BenchInv => RoundTrip
    BY DEF BenchInv, CallShape, CallBus, Expectation, Calling, SlaveInv, Serial,
           RoundTrip
  <1> QED BY <1>1, BenchInvariant, PTL

\* The halves of a wide value are its quotient and remainder.
LEMMA Halves ==
  ASSUME NEW v \in Nat
  PROVE  IsLow(v % WordSpan, v) /\ IsHigh(v \div WordSpan, v)
  <1> DEFINE q == v \div WordSpan
             r == v % WordSpan
  <1>1. WordSpan \in Nat /\ WordSpan > 0
    BY RegisterAssumption
  <1>2. q \in Int /\ r \in 0 .. WordSpan - 1
    BY <1>1
  <1>3. v = WordSpan * q + r
    BY <1>1
  <1> HIDE DEF q, r
  <1>4. q >= 0
    BY <1>1, <1>2, <1>3
  <1>5. q <= v
    BY <1>1, <1>2, <1>3, <1>4
  <1>6. v = q * WordSpan + r
    BY <1>1, <1>2, <1>3
  <1>7. IsLow(r, v)
    BY <1>2, <1>4, <1>5, <1>6 DEF IsLow
  <1>8. IsHigh(q, v)
    BY <1>2, <1>6 DEF IsHigh
  <1> QED BY <1>7, <1>8 DEF q, r

\* A register has one name.
LEMMA RegNames == \A m, n : Reg(m) = Reg(n) => m = n
  BY DEF Reg

\* Every read helper returns the register of the address it asked for, and of
\* no other: a configuration register as last written; STATUS, each half of
\* result and count, and overflow as they were in the first cycle of the
\* response, whatever the status does while RREADY is gated; zero for CTRL,
\* LOAD_ROW and unmapped words.
THEOREM ReadsReturnTheRegister == BenchSpec => []ReadsBack
  <1>1. BenchInv => ReadsBack
    <2> SUFFICES ASSUME BenchInv, Returned, txn.kind = "R" PROVE ReadsBack
      BY DEF ReadsBack
    <2>1. /\ txn.data = rdata(txn.addr, atResponse)
          /\ txn.addr \in Config \cup ReadOnly \cup Commands
          /\ \A a \in Config : register(a) = expected[a]
      BY DEF BenchInv, Returned, NoTxn, CallShape, CallBus, Expectation
    <2>2. txn.addr \in Config => txn.addr \notin ReadOnly \cup Commands
      BY DEF Config, ReadOnly, Commands, Reg
    <2>3. /\ IsLow(atResponse.result % WordSpan, atResponse.result)
          /\ IsHigh(atResponse.result \div WordSpan, atResponse.result)
          /\ IsLow(atResponse.count % WordSpan, atResponse.count)
          /\ IsHigh(atResponse.count \div WordSpan, atResponse.count)
      BY Halves DEF BenchInv, Inputs, IsStatus
    <2>4. CASE txn.addr \in Config
      BY <2>1, <2>2, <2>4 DEF ReadsBack, rdata, ReadOnly, Commands, Reg
    <2>5. CASE txn.addr = Reg("STATUS")
      <3>1. txn.data = [busy |-> atResponse.busy, done |-> atResponse.done,
                         error |-> atResponse.error]
        BY <2>1, <2>2, <2>5, RegNames DEF rdata, ReadOnly, Commands
      <3> QED BY <2>2, <2>5, <3>1, RegNames DEF ReadsBack, ReadOnly
    <2>6. CASE txn.addr = Reg("RESULT")
      <3>1. txn.data = atResponse.result % WordSpan
        BY <2>1, <2>2, <2>6, RegNames DEF rdata, ReadOnly, Commands
      <3> QED BY <2>2, <2>3, <2>6, <3>1, RegNames DEF ReadsBack, ReadOnly
    <2>7. CASE txn.addr = Reg("RESULT_HI")
      <3>1. txn.data = atResponse.result \div WordSpan
        BY <2>1, <2>2, <2>7, RegNames DEF rdata, ReadOnly, Commands
      <3> QED BY <2>2, <2>3, <2>7, <3>1, RegNames DEF ReadsBack, ReadOnly
    <2>8. CASE txn.addr = Reg("COUNT")
      <3>1. txn.data = atResponse.count % WordSpan
        BY <2>1, <2>2, <2>8, RegNames DEF rdata, ReadOnly, Commands
      <3> QED BY <2>2, <2>3, <2>8, <3>1, RegNames DEF ReadsBack, ReadOnly
    <2>9. CASE txn.addr = Reg("COUNT_HI")
      <3>1. txn.data = atResponse.count \div WordSpan
        BY <2>1, <2>2, <2>9, RegNames DEF rdata, ReadOnly, Commands
      <3> QED BY <2>2, <2>3, <2>9, <3>1, RegNames DEF ReadsBack, ReadOnly
    <2>10. CASE txn.addr = Reg("OVERFLOW")
      <3>1. txn.data = (IF atResponse.overflow THEN 1 ELSE 0)
        BY <2>1, <2>2, <2>10, RegNames DEF rdata, ReadOnly, Commands
      <3> QED BY <2>2, <2>10, <3>1, RegNames DEF ReadsBack, ReadOnly
    <2>11. CASE txn.addr = Reg("CTRL")
      <3>1. txn.data = [start |-> FALSE, abort |-> FALSE]
        BY <2>1, <2>2, <2>11, RegNames DEF rdata, ReadOnly, Commands
      <3> QED BY <2>2, <2>11, <3>1, RegNames DEF ReadsBack, Commands
    <2>12. CASE txn.addr \in {Reg("LOAD_ROW"), Reg("UNMAPPED")}
      <3>1. txn.data = 0
        BY <2>1, <2>2, <2>12, RegNames DEF rdata, ReadOnly, Commands
      <3> QED BY <2>2, <2>12, <3>1, RegNames DEF ReadsBack, ReadOnly, Commands
    <2> QED
      BY <2>1, <2>4, <2>5, <2>6, <2>7, <2>8, <2>9, <2>10, <2>11, <2>12
      DEF ReadOnly, Commands
  <1> QED BY <1>1, BenchInvariant, PTL

\* A strobe is high for exactly one cycle per write that asks for it, also
\* while the response to that write is held up.
THEOREM StrobesPulseOnce == BenchSpec => []StrobeOnce
  <1>1. BenchInv => StrobeOnce
    BY DEF BenchInv, Returned, NoTxn, Pulses, Due, StrobeOnce
  <1> QED BY <1>1, BenchInvariant, PTL

=============================================================================
