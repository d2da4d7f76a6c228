--------------------------- MODULE GroupByProofs ---------------------------
(***************************************************************************)
(* Proofs about the GROUP BY engine for every number of buckets, every     *)
(* hash and every set of keys and values.  The argument is about Settled,  *)
(* the RAM with the write on its way included: every edge makes it the     *)
(* contents of the RAM, a read returns it because no write is under way    *)
(* while a bucket is read, and the table is sound in terms of it.          *)
(***************************************************************************)
EXTENDS GroupBySystem, FiniteSetTheorems, FunctionTheorems, SequenceTheorems,
        WellFoundedInduction, TLAPS

-----------------------------------------------------------------------------
(* The inductive invariant *)

\* No write is under way while buckets are read.
WritesIdle ==
  busy_q /\ state_q \in {"AGG_RD", "SCAN", "PRESENT"} => ~wen_q

\* The read data is the bucket whose address was issued two edges before.
ReadLatency ==
  /\ busy_q /\ state_q = "AGG_RD" =>
       /\ raddr_q = probe_idx_q /\ rd_stage_q \in {1, 2}
       /\ rd_stage_q = 2 => rd_bucket = bucket_mem[raddr_q]
  /\ busy_q /\ state_q \in {"SCAN", "PRESENT"} =>
       /\ rd_stage_q # 0 => raddr_q = dump_idx_q
       /\ rd_stage_q = 2 => rd_bucket = bucket_mem[raddr_q]

\* The sweep has emptied the buckets before clear_idx_q.
Swept ==
  busy_q /\ state_q = "CLEAR" =>
    \A b \in Bucket : b < clear_idx_q => ~Settled[b].valid

\* Only rows of this query are in the table.
KeysKnown ==
  /\ busy_q /\ state_q # "CLEAR" => \A b \in ValidBuckets : Settled[b].key \in Keys
  /\ busy_q /\ state_q = "AGG_RD" => row_key_q \in Keys

\* The buckets already probed for the current row hold other keys.
Probed ==
  busy_q /\ state_q = "AGG_RD" =>
    \A c \in ChainBefore(row_key_q, probe_idx_q) :
      Settled[c].valid /\ Settled[c].key # row_key_q

\* How far the probe has come: probe_count_q is one less than the buckets
\* found taken, and from BUCKETS - 1 on every bucket has been seen.
ProbeCounted ==
  busy_q /\ state_q = "AGG_RD" =>
    \/ probe_count_q = 2 * BUCKETS - 1 /\ probe_idx_q = hash_key(row_key_q)
    \/ /\ probe_count_q < BUCKETS - 1
       /\ Distance(row_key_q, probe_idx_q) = probe_count_q + 1
    \/ /\ probe_count_q \in BUCKETS - 1 .. BUCKETS
       /\ \A c \in Bucket : Settled[c].valid /\ Settled[c].key # row_key_q

\* The groups the table holds.
GroupAt(b) ==
  [key |-> Settled[b].key, count |-> Settled[b].count, sum |-> Settled[b].sum,
   min |-> Settled[b].min, max |-> Settled[b].max]
TableKeys == {Settled[b].key : b \in ValidBuckets}
TableGroups ==
  [k \in TableKeys |-> GroupAt(CHOOSE b \in ValidBuckets : Settled[b].key = k)]

\* Between rows the table holds the groups of the accepted rows; while a row
\* is on its way through the RAM it lacks that row and no other.
Mirrored ==
  /\ busy_q /\ state_q = "CLEAR" => groups = <<>>
  /\ busy_q /\ state_q = "AGG_RD" =>
       groups = Absorbed(TableGroups, row_key_q, row_val_q)
  /\ busy_q /\ state_q \in {"AGG_IDLE", "AGG_WRITE", "SCAN", "PRESENT"} =>
       groups = TableGroups

\* No count exceeds the rows it counts, so none of them wraps.
CountsBounded ==
  /\ busy_q /\ state_q # "CLEAR" =>
       \A b \in ValidBuckets :
         Settled[b].count + (IF state_q = "AGG_RD" THEN 1 ELSE 0) <= sent
  /\ busy_q /\ state_q = "AGG_RD" => sent > 0

\* What the first pass knows: the latest valid bucket it has seen, and after
\* it the last of all.
ScanSeen ==
  /\ busy_q /\ state_q = "SCAN" =>
       \A b \in Bucket : b < dump_idx_q /\ Settled[b].valid =>
         b <= last_valid_q /\ last_valid_q < dump_idx_q /\ Settled[last_valid_q].valid
  /\ busy_q /\ state_q = "PRESENT" =>
       \A b \in Bucket : Settled[b].valid =>
         b <= last_valid_q /\ Settled[last_valid_q].valid

\* The group held on m_axis.
Held ==
  /\ present_hold_q => busy_q /\ state_q = "PRESENT"
  /\ present_hold_q => /\ Settled[dump_idx_q].valid
                       /\ present_is_last_q = (dump_idx_q = last_valid_q)
                       /\ present_out_q = GroupAt(dump_idx_q)
                       /\ rd_stage_q = 2

\* tlast is on the final beat and on no other.
Closed == out # <<>> /\ \A i \in 1 .. Len(out) : out[i].last <=> i = Len(out)
\* No beat with tlast so far.
Open == \A i \in 1 .. Len(out) : ~out[i].last

\* The stream is closed when the second pass has left the last valid bucket.
Delivered ==
  /\ busy_q /\ state_q # "PRESENT" => out = <<>>
  /\ busy_q /\ state_q = "PRESENT" =>
       /\ out # <<>> => Settled[last_valid_q].valid
       /\ IF Settled[last_valid_q].valid /\ last_valid_q < dump_idx_q
          THEN Closed ELSE Open
  /\ ~busy_q => out = <<>> \/ (done_q /\ Closed)

\* The second pass has delivered the groups of the buckets behind it, each
\* once.
OutGroups == {out[i].group : i \in 1 .. Len(out)}
OutDistinct == \A i, j \in 1 .. Len(out) : out[i].group.key = out[j].group.key => i = j
DumpedSoFar ==
  /\ busy_q /\ state_q = "PRESENT" =>
       /\ OutGroups = {GroupAt(b) : b \in {c \in ValidBuckets : c < dump_idx_q}}
       /\ OutDistinct
  /\ done_q => ~busy_q /\ GroupsDelivered

IInv ==
  /\ TypeOK /\ WritesIdle /\ ReadLatency
  /\ Swept /\ KeysKnown /\ TableSound /\ CountsBounded /\ Mirrored
  /\ Probed /\ ProbeCounted
  /\ ScanSeen /\ Held /\ Delivered /\ DumpedSoFar

-----------------------------------------------------------------------------
(* Addresses *)

LEMMA Sizes ==
  /\ BUCKETS \in Nat /\ BUCKETS > 1 /\ GbAccMax \in Nat /\ GbAccMax >= 1
  /\ RowLimit \in Nat /\ RowLimit <= GbAccMax /\ RowLimit > 0
  BY GroupByAssumption

\* A sum of two addresses wraps at most once.
LEMMA OneTurn ==
  ASSUME NEW x \in Nat, x < BUCKETS + BUCKETS
  PROVE  x % BUCKETS = IF x < BUCKETS THEN x ELSE x - BUCKETS
  <1>1. CASE x < BUCKETS
    BY <1>1, Sizes
  <1>2. CASE ~(x < BUCKETS)
    <2> DEFINE y == x - BUCKETS
    <2>1. y \in Nat /\ y < BUCKETS /\ x = y + BUCKETS
      BY <1>2, Sizes
    <2> HIDE DEF y
    <2>2. (y + BUCKETS) % BUCKETS = y
      BY <2>1, Sizes
    <2> QED BY <1>2, <2>1, <2>2, Sizes
  <1> QED BY <1>1, <1>2

\* The two counters that wrap.
LEMMA BucketSuccIs ==
  ASSUME NEW b \in Bucket
  PROVE  /\ BucketSucc(b) = IF b = BUCKETS - 1 THEN 0 ELSE b + 1
         /\ BucketSucc(b) \in Bucket
  BY Sizes DEF Bucket, BucketSucc

LEMMA ProbeSuccIs ==
  ASSUME NEW c \in 0 .. 2 * BUCKETS - 1
  PROVE  /\ ProbeSucc(c) = IF c = 2 * BUCKETS - 1 THEN 0 ELSE c + 1
         /\ ProbeSucc(c) \in 0 .. 2 * BUCKETS - 1
  <1> DEFINE m == 2 * BUCKETS
  <1>0. m \in Nat /\ m > 1 /\ c \in 0 .. m - 1
    BY Sizes
  <1>1. ProbeSucc(c) = (c + 1) % m
    BY DEF ProbeSucc
  <1> HIDE DEF m
  <1>2. /\ (c + 1) % m = IF c = m - 1 THEN 0 ELSE c + 1
        /\ (c + 1) % m \in 0 .. m - 1
    BY <1>0
  <1> QED BY <1>1, <1>2 DEF m

LEMMA DistanceIs ==
  ASSUME NEW k \in Keys, NEW b \in Bucket
  PROVE  /\ hash_key(k) \in Bucket
         /\ Distance(k, b) = IF hash_key(k) <= b THEN b - hash_key(k)
                             ELSE b + BUCKETS - hash_key(k)
         /\ Distance(k, b) \in Bucket
  <1> DEFINE h == hash_key(k)
  <1>1. h \in Bucket
    BY GroupByAssumption
  <1> HIDE DEF h
  <1>2. CASE h <= b
    <2>1. b + BUCKETS - h \in Nat /\ BUCKETS <= b + BUCKETS - h
          /\ b + BUCKETS - h < BUCKETS + BUCKETS
      BY <1>1, <1>2, Sizes DEF Bucket
    <2> DEFINE x == b + BUCKETS - h
    <2>2. x % BUCKETS = x - BUCKETS
      <3>1. x \in Nat /\ ~(x < BUCKETS) /\ x < BUCKETS + BUCKETS
        BY <2>1, <1>1, Sizes DEF Bucket
      <3> HIDE DEF x
      <3> QED BY <3>1, OneTurn
    <2> QED BY <1>1, <1>2, <2>2, Sizes DEF Bucket, Distance, h
  <1>3. CASE ~(h <= b)
    <2>1. b + BUCKETS - h \in Nat /\ b + BUCKETS - h < BUCKETS
      BY <1>1, <1>3, Sizes DEF Bucket
    <2>2. (b + BUCKETS - h) % BUCKETS = b + BUCKETS - h
      BY <2>1, Sizes
    <2> QED BY <1>1, <1>3, <2>1, <2>2, Sizes DEF Bucket, Distance, h
  <1> QED BY <1>2, <1>3

\* The chain before a bucket, by distance from the hash.
LEMMA ChainIs ==
  ASSUME NEW k \in Keys, NEW b \in Bucket
  PROVE  ChainBefore(k, b) = {c \in Bucket : Distance(k, c) < Distance(k, b)}
  <1> DEFINE h == hash_key(k)
             At(d) == IF h + d < BUCKETS THEN h + d ELSE h + d - BUCKETS
  <1>1. h \in Bucket /\ Distance(k, b) \in Bucket
    BY DistanceIs
  <1>2. ASSUME NEW d \in Bucket PROVE (h + d) % BUCKETS = At(d)
    <2>1. h + d \in Nat /\ h + d < BUCKETS + BUCKETS
      BY <1>1, Sizes DEF Bucket
    <2> DEFINE x == h + d
    <2>2. x % BUCKETS = IF x < BUCKETS THEN x ELSE x - BUCKETS
      <3>1. x \in Nat /\ x < BUCKETS + BUCKETS
        BY <2>1
      <3> HIDE DEF x
      <3> QED BY <3>1, OneTurn
    <2> QED BY <1>1, <2>1, <2>2, Sizes DEF Bucket
  <1>3. ASSUME NEW d \in 0 .. Distance(k, b) - 1
        PROVE  /\ (h + d) % BUCKETS \in Bucket
               /\ Distance(k, (h + d) % BUCKETS) < Distance(k, b)
    <2>1. d \in Bucket /\ At(d) \in Bucket
      BY <1>1, Sizes DEF Bucket
    <2>2. Distance(k, At(d)) = d
      BY <1>1, <2>1, DistanceIs, Sizes DEF Bucket
    <2> QED BY <1>2, <2>1, <2>2, <1>1, Sizes DEF Bucket
  <1>4. ASSUME NEW c \in Bucket, Distance(k, c) < Distance(k, b)
        PROVE  \E d \in 0 .. Distance(k, b) - 1 : c = (h + d) % BUCKETS
    <2>1. Distance(k, c) \in Bucket /\ Distance(k, c) \in 0 .. Distance(k, b) - 1
      BY <1>1, <1>4, DistanceIs, Sizes DEF Bucket
    <2>2. At(Distance(k, c)) = c
      BY <1>1, DistanceIs, Sizes DEF Bucket
    <2> QED BY <1>2, <2>1, <2>2
  <1> QED BY <1>3, <1>4 DEF ChainBefore

\* One bucket further on.
LEMMA ChainGrows ==
  ASSUME NEW k \in Keys, NEW b \in Bucket
  PROVE  /\ ChainBefore(k, BucketSucc(b)) \subseteq ChainBefore(k, b) \cup {b}
         /\ Distance(k, BucketSucc(b)) =
              IF Distance(k, b) = BUCKETS - 1 THEN 0 ELSE Distance(k, b) + 1
  <1>1. BucketSucc(b) \in Bucket
        /\ BucketSucc(b) = IF b = BUCKETS - 1 THEN 0 ELSE b + 1
    BY BucketSuccIs
  <1>2. Distance(k, BucketSucc(b)) =
              IF Distance(k, b) = BUCKETS - 1 THEN 0 ELSE Distance(k, b) + 1
    BY <1>1, DistanceIs, Sizes DEF Bucket
  <1>3. ASSUME NEW c \in Bucket, Distance(k, c) = Distance(k, b) PROVE c = b
    BY <1>3, DistanceIs, Sizes DEF Bucket
  <1>4. ASSUME NEW c \in ChainBefore(k, BucketSucc(b))
        PROVE  c \in ChainBefore(k, b) \cup {b}
    <2>1. c \in Bucket /\ Distance(k, c) < Distance(k, BucketSucc(b))
      BY <1>1, ChainIs
    <2>2. Distance(k, c) \in Bucket /\ Distance(k, b) \in Bucket
      BY <2>1, DistanceIs
    <2>3. Distance(k, c) <= Distance(k, b)
      BY <1>2, <2>1, <2>2, Sizes DEF Bucket
    <2>4. CASE Distance(k, c) = Distance(k, b)
      BY <1>3, <2>1, <2>4
    <2>5. CASE Distance(k, c) # Distance(k, b)
      <3>1. Distance(k, c) < Distance(k, b)
        BY <2>2, <2>3, <2>5 DEF Bucket
      <3> QED BY <2>1, <3>1, ChainIs
    <2> QED BY <2>4, <2>5
  <1> QED BY <1>2, <1>4

\* At distance BUCKETS - 1 the chain holds every other bucket.
LEMMA ChainWhole ==
  ASSUME NEW k \in Keys, NEW b \in Bucket, Distance(k, b) = BUCKETS - 1
  PROVE  Bucket \subseteq ChainBefore(k, b) \cup {b}
  <1>1. ASSUME NEW c \in Bucket, c # b PROVE Distance(k, c) < BUCKETS - 1
    BY <1>1, DistanceIs, Sizes DEF Bucket
  <1> QED BY <1>1, ChainIs

-----------------------------------------------------------------------------
(* One clock edge *)

\* The RAM catches up with Settled at every edge.
LEMMA SettledStep ==
  ASSUME TypeOK, WritePort
  PROVE  /\ Settled \in [Bucket -> BucketWord]
         /\ bucket_mem' = Settled
         /\ Settled' = IF wen_q' THEN [Settled EXCEPT ![waddr_q'] = wdata_q']
                       ELSE Settled
  BY DEF TypeOK, WritePort, Settled

\* A cycle without an accepted beat, by what the engine does in it.
LEMMA TickCases ==
  ASSUME NEW m \in BOOLEAN, Tick(m)
  PROVE  /\ WritePort /\ ReadPort
         /\ UNCHANGED <<sent, rows, groups>>
         /\ out' = IF m_axis_tvalid /\ m
                   THEN Append(out, [group |-> present_out_q,
                                     last |-> present_is_last_q])
                   ELSE out
         /\ \/ /\ busy_q
               /\ \/ Clear
                  \/ AcceptRow(FALSE, FALSE, 0, 0, FALSE)
                  \/ AwaitBucket \/ Probe \/ Update \/ WriteDone
                  \/ ScanPass \/ Hold(m) \/ PresentPass
            \/ /\ ~busy_q
               /\ UNCHANGED <<raddr_q, writeVars, state_q, busy_q, done_q,
                              rd_stage_q, rowVars, probeVars, dump_idx_q,
                              last_valid_q, clear_idx_q, presentVars>>
  BY DEF Tick, GbEdge

\* A cycle with an accepted beat.
LEMMA BeatIs ==
  ASSUME NEW pass, NEW k, NEW v, NEW last, Beat(pass, k, v, last)
  PROVE  /\ WritePort /\ ReadPort
         /\ AcceptRow(TRUE, pass, k, v, last)
         /\ busy_q /\ state_q = "AGG_IDLE" /\ sent < RowLimit
         /\ sent' = sent + 1 /\ out' = out
         /\ rows' = IF pass THEN Append(rows, [key |-> k, val |-> v]) ELSE rows
         /\ groups' = IF pass THEN Absorbed(groups, k, v) ELSE groups
  BY DEF Beat, GbEdge, s_axis_tready, Clear, AwaitBucket, Probe, Update,
         WriteDone, ScanPass, Hold, PresentPass

-----------------------------------------------------------------------------
(* Reset, start, and the cycles between queries *)

\* TypeOK by groups of registers.
RamTypes ==
  /\ bucket_mem \in [Bucket -> BucketWord]
  /\ rd_bucket \in BucketWord /\ wdata_q \in BucketWord
AddressTypes ==
  /\ raddr_q \in Bucket /\ waddr_q \in Bucket /\ probe_idx_q \in Bucket
  /\ dump_idx_q \in Bucket /\ last_valid_q \in Bucket /\ clear_idx_q \in Bucket
  /\ probe_count_q \in 0 .. 2 * BUCKETS - 1
ControlTypes == state_q \in States /\ rd_stage_q \in 0 .. 2
FlagTypes ==
  /\ wen_q \in BOOLEAN /\ busy_q \in BOOLEAN /\ done_q \in BOOLEAN
  /\ row_last_q \in BOOLEAN
  /\ present_hold_q \in BOOLEAN /\ present_is_last_q \in BOOLEAN
DataTypes == row_key_q \in Nat /\ row_val_q \in Acc /\ present_out_q \in Group
HistoryTypes ==
  /\ sent \in 0 .. RowLimit
  /\ rows \in Seq([key : Keys, val : Vals])
  /\ DOMAIN groups \subseteq Keys /\ \A k \in DOMAIN groups : groups[k] \in Group
  /\ out \in Seq([group : Group, last : BOOLEAN])

LEMMA TypeParts ==
  /\ TypeOK <=> /\ RamTypes /\ AddressTypes /\ ControlTypes /\ FlagTypes
                /\ DataTypes /\ HistoryTypes
  /\ TypeOK' <=> /\ RamTypes' /\ AddressTypes' /\ ControlTypes' /\ FlagTypes'
                 /\ DataTypes' /\ HistoryTypes'
  <1>1. TypeOK <=> /\ RamTypes /\ AddressTypes /\ ControlTypes /\ FlagTypes
                   /\ DataTypes /\ HistoryTypes
    BY Zenon DEF TypeOK, RamTypes, AddressTypes, ControlTypes, FlagTypes, DataTypes,
           HistoryTypes
  <1>2. TypeOK' <=> /\ RamTypes' /\ AddressTypes' /\ ControlTypes' /\ FlagTypes'
                    /\ DataTypes' /\ HistoryTypes'
    BY Zenon DEF TypeOK, RamTypes, AddressTypes, ControlTypes, FlagTypes, DataTypes,
           HistoryTypes
  <1> QED BY <1>1, <1>2

LEMMA EmptyIsWord == EmptyBucket \in BucketWord /\ NoGroup \in Group /\ 0 \in Bucket
  BY Sizes DEF EmptyBucket, BucketWord, NoGroup, Group, Acc, Bucket

\* Nothing is required of a table that is not in use.
LEMMA IdleKeeps ==
  ASSUME TypeOK', ~busy_q', ~present_hold_q',
         \/ ~done_q' /\ out' = <<>>
         \/ done_q' /\ GroupsDelivered' /\ (out' = <<>> \/ Closed')
  PROVE  IInv'
  BY DEF IInv, WritesIdle, ReadLatency, Swept, KeysKnown, TableSound, Probed,
         ProbeCounted, Mirrored, CountsBounded, ScanSeen, Held, Delivered,
         DumpedSoFar, GroupsDelivered

LEMMA InitKeeps == Init => IInv
  <1> SUFFICES ASSUME Init PROVE IInv
    OBVIOUS
  <1>1. TypeOK
    <2>1. bucket_mem \in [Bucket -> BucketWord]
      BY GroupByAssumption DEF Init, GbInit
    <2>2. rows \in Seq([key : Keys, val : Vals])
          /\ out \in Seq([group : Group, last : BOOLEAN])
          /\ DOMAIN groups = {}
      BY DEF Init
    <2> QED
      BY <2>1, <2>2, EmptyIsWord, Sizes DEF Init, GbInit, TypeOK, States, Acc
  <1> QED
    BY <1>1
    DEF Init, GbInit, IInv, WritesIdle, ReadLatency, Swept, KeysKnown,
        TableSound, Probed, ProbeCounted, Mirrored, CountsBounded, ScanSeen,
        Held, Delivered, DumpedSoFar

LEMMA ResetKeeps ==
  ASSUME IInv, Reset
  PROVE  IInv'
  <1>1. TypeOK'
    <2>1. bucket_mem' \in [Bucket -> BucketWord]
      BY SettledStep DEF IInv, Reset, GbReset
    <2>2. RamTypes'
      BY <2>1, EmptyIsWord DEF Reset, GbReset, RamTypes
    <2>3. AddressTypes'
      BY EmptyIsWord, Sizes DEF IInv, TypeOK, Reset, GbReset, AddressTypes
    <2>4. ControlTypes'
      BY DEF Reset, GbReset, ControlTypes, States
    <2>5. DataTypes'
      BY EmptyIsWord, Sizes DEF Reset, GbReset, DataTypes, Acc
    <2>7. FlagTypes'
      BY Zenon DEF Reset, GbReset, FlagTypes
    <2>6. HistoryTypes'
      BY Sizes DEF Reset, Forget, HistoryTypes
    <2> QED BY <2>2, <2>3, <2>4, <2>5, <2>6, <2>7, TypeParts
  <1> QED BY <1>1, IdleKeeps DEF Reset, GbReset, Forget

\* A start needs nothing of the registers but their ranges.
LEMMA StartFrom ==
  ASSUME RamTypes, AddressTypes, ControlTypes, FlagTypes, DataTypes,
         WritePort, ReadPort, GbStart, Forget
  PROVE  IInv'
  <1>2. TypeOK'
    <2>1. Settled \in [Bucket -> BucketWord] /\ bucket_mem' = Settled
      BY DEF RamTypes, AddressTypes, FlagTypes, WritePort, Settled
    <2>2. RamTypes'
      BY <2>1 DEF RamTypes, AddressTypes, ReadPort, GbStart
    <2>3. AddressTypes'
      BY EmptyIsWord DEF GbStart, probeVars, AddressTypes
    <2>4. ControlTypes'
      BY DEF GbStart, ControlTypes, States
    <2>5. DataTypes'
      BY DEF GbStart, rowVars, DataTypes
    <2>7. FlagTypes'
      <3>1. UNCHANGED <<row_last_q, present_is_last_q>>
        BY DEF GbStart, rowVars
      <3> QED BY <3>1, Zenon DEF GbStart, FlagTypes
    <2>6. HistoryTypes'
      BY Sizes DEF Forget, HistoryTypes
    <2> QED BY <2>2, <2>3, <2>4, <2>5, <2>6, <2>7, TypeParts
  <1>3. Swept'
    BY DEF GbStart, Swept, Bucket
  <1> QED
    BY <1>2, <1>3
    DEF GbStart, Forget, IInv, WritesIdle, ReadLatency, KeysKnown, TableSound,
        Probed, ProbeCounted, Mirrored, CountsBounded, ScanSeen, Held,
        Delivered, DumpedSoFar

LEMMA StartKeeps ==
  ASSUME IInv, Start
  PROVE  IInv'
  <1>1. WritePort /\ ReadPort /\ GbStart /\ Forget
    BY DEF Start, GbEdge
  <1>2. RamTypes /\ AddressTypes /\ ControlTypes /\ FlagTypes /\ DataTypes
    BY TypeParts DEF IInv
  <1> QED BY <1>1, <1>2, StartFrom

LEMMA QuietKeeps ==
  ASSUME IInv, NEW m \in BOOLEAN, Tick(m), ~busy_q
  PROVE  IInv'
  <1>1. /\ WritePort /\ ReadPort
        /\ UNCHANGED <<sent, rows, groups>>
        /\ UNCHANGED <<raddr_q, writeVars, state_q, busy_q, done_q,
                       rd_stage_q, rowVars, probeVars, dump_idx_q,
                       last_valid_q, clear_idx_q, presentVars>>
    BY TickCases
  <1>2. ~present_hold_q /\ ~present_hold_q' /\ ~busy_q'
    BY <1>1 DEF IInv, Held, presentVars
  <1>3. out' = out
    BY <1>2, TickCases DEF m_axis_tvalid
  <1>4. TypeOK'
    <2>2. RamTypes'
      BY <1>1, SettledStep DEF IInv, TypeOK, ReadPort, writeVars, RamTypes
    <2>3. AddressTypes' /\ ControlTypes' /\ FlagTypes' /\ DataTypes' /\ HistoryTypes'
      BY <1>1, <1>3, TypeParts
      DEF IInv, writeVars, rowVars, probeVars, presentVars, AddressTypes,
          ControlTypes, FlagTypes, DataTypes, HistoryTypes
    <2> QED BY <2>2, <2>3, TypeParts
  <1>5. done_q' = done_q
    BY <1>1
  <1>6. CASE done_q
    <2>1. GroupsDelivered
      BY <1>6 DEF IInv, DumpedSoFar
    <2>2. GroupsDelivered'
      <3>1. UNCHANGED <<done_q, out, groups>>
        BY <1>1, <1>3, <1>5
      <3> QED BY <2>1, <3>1, Zenon DEF GroupsDelivered
    <2>3. out' = <<>> \/ Closed'
      BY <1>3 DEF IInv, Delivered, Closed
    <2> QED BY <1>2, <1>4, <1>5, <1>6, <2>2, <2>3, IdleKeeps
  <1>7. CASE ~done_q
    <2>1. out' = <<>>
      BY <1>3, <1>7 DEF IInv, Delivered
    <2> QED BY <1>2, <1>4, <1>5, <1>7, <2>1, IdleKeeps
  <1> QED BY <1>6, <1>7

-----------------------------------------------------------------------------
(* The phases of a query: what the invariant says in each of them *)

\* The table is sound and holds keys of this query only.
SoundTable ==
  \A b \in ValidBuckets :
    /\ Settled[b].key \in Keys
    /\ \A c \in ValidBuckets : Settled[c].key = Settled[b].key => c = b
    /\ ChainBefore(Settled[b].key, b) \subseteq ValidBuckets
CountsUpTo(n) == \A b \in ValidBuckets : Settled[b].count <= n

\* Nothing is delivered before the second pass.
Gathering == busy_q /\ out = <<>> /\ ~done_q /\ ~present_hold_q

LEMMA GatheringIs ==
  ASSUME IInv, busy_q, state_q # "PRESENT"
  PROVE  Gathering
  BY DEF IInv, Delivered, DumpedSoFar, Held, Gathering

LEMMA TableIs ==
  ASSUME IInv, busy_q, state_q # "CLEAR"
  PROVE  /\ SoundTable
         /\ state_q = "AGG_RD" =>
              sent > 0 /\ \A b \in ValidBuckets : Settled[b].count + 1 <= sent
         /\ state_q # "AGG_RD" => CountsUpTo(sent)
  <1>1. SoundTable
    BY DEF IInv, KeysKnown, TableSound, SoundTable
  <1>2. \A b \in ValidBuckets : Settled[b].count \in Nat
    BY SettledStep DEF IInv, TypeOK, Settled, ValidBuckets, BucketWord, Acc
  <1> QED BY <1>1, <1>2 DEF IInv, CountsBounded, CountsUpTo

LEMMA SweepPhase ==
  ASSUME TypeOK', Gathering', state_q' = "CLEAR", Swept', groups' = <<>>
  PROVE  IInv'
  BY DEF Gathering, IInv, WritesIdle, ReadLatency, KeysKnown, TableSound,
         Probed, ProbeCounted, Mirrored, CountsBounded, ScanSeen, Held,
         Delivered, DumpedSoFar

LEMMA CountsPrimed ==
  ASSUME TypeOK', CountsUpTo(sent)', state_q' # "AGG_RD"
  PROVE  CountsBounded'
  <1>1. \A b \in ValidBuckets' : Settled'[b].count \in Nat
    BY DEF TypeOK, Settled, ValidBuckets, BucketWord, Acc
  <1> QED BY <1>1 DEF CountsUpTo, CountsBounded

LEMMA SoundPrimed ==
  ASSUME SoundTable', state_q' # "AGG_RD"
  PROVE  KeysKnown' /\ TableSound'
  BY DEF SoundTable, KeysKnown, TableSound

LEMMA BetweenRows ==
  ASSUME TypeOK', Gathering', state_q' \in {"AGG_IDLE", "AGG_WRITE"},
         SoundTable', CountsUpTo(sent)', groups' = TableGroups'
  PROVE  IInv'
  <1>1. CountsBounded' /\ KeysKnown' /\ TableSound'
    BY CountsPrimed, SoundPrimed
  <1> QED
    BY <1>1
    DEF Gathering, IInv, WritesIdle, ReadLatency, Swept, Probed, ProbeCounted,
        Mirrored, ScanSeen, Held, Delivered, DumpedSoFar

LEMMA RowPhase ==
  ASSUME TypeOK', Gathering', state_q' = "AGG_RD", sent' > 0,
         SoundTable', \A b \in ValidBuckets' : Settled'[b].count + 1 <= sent',
         row_key_q' \in Keys, groups' = Absorbed(TableGroups, row_key_q, row_val_q)',
         WritesIdle', ReadLatency', Probed', ProbeCounted'
  PROVE  IInv'
  <1>1. KeysKnown' /\ TableSound'
    BY DEF SoundTable, KeysKnown, TableSound
  <1> QED
    BY <1>1
    DEF Gathering, IInv, Swept, Mirrored, CountsBounded, ScanSeen, Held,
        Delivered, DumpedSoFar

LEMMA ScanPhase ==
  ASSUME TypeOK', Gathering', state_q' = "SCAN",
         SoundTable', CountsUpTo(sent)', groups' = TableGroups',
         WritesIdle', ReadLatency', ScanSeen'
  PROVE  IInv'
  <1>1. CountsBounded' /\ KeysKnown' /\ TableSound'
    BY CountsPrimed, SoundPrimed
  <1> QED
    BY <1>1
    DEF Gathering, IInv, Swept, Probed, ProbeCounted, Mirrored, Held,
        Delivered, DumpedSoFar

LEMMA PresentPhase ==
  ASSUME TypeOK', busy_q', ~done_q', state_q' = "PRESENT",
         SoundTable', CountsUpTo(sent)', groups' = TableGroups',
         WritesIdle', ReadLatency', ScanSeen', Held', Delivered',
         OutGroups' = {GroupAt(b)' : b \in {c \in ValidBuckets' : c < dump_idx_q'}},
         OutDistinct'
  PROVE  IInv'
  <1>1. CountsBounded' /\ KeysKnown' /\ TableSound'
    BY CountsPrimed, SoundPrimed
  <1>2. DumpedSoFar'
    BY DEF DumpedSoFar
  <1> QED
    BY <1>1, <1>2
    DEF IInv, Swept, Probed, ProbeCounted, Mirrored

\* The table is the same when nothing is written.
LEMMA TableSame ==
  ASSUME TypeOK, WritePort, ~wen_q'
  PROVE  /\ Settled' = Settled /\ bucket_mem' = Settled
         /\ ValidBuckets' = ValidBuckets
         /\ TableGroups' = TableGroups /\ TableKeys' = TableKeys
         /\ \A b \in Bucket : GroupAt(b)' = GroupAt(b)
         /\ SoundTable' <=> SoundTable
         /\ \A n \in Nat : CountsUpTo(n)' <=> CountsUpTo(n)
  <1>1. Settled' = Settled /\ bucket_mem' = Settled
    BY SettledStep
  <1>2. ValidBuckets' = ValidBuckets
    BY <1>1 DEF ValidBuckets
  <1>3. TableKeys' = TableKeys
    BY <1>1, <1>2, Zenon DEF TableKeys
  <1>4. TableGroups' = TableGroups
    BY <1>1, <1>2, <1>3, Zenon DEF TableGroups, GroupAt
  <1>5. \A b \in Bucket : GroupAt(b)' = GroupAt(b)
    BY <1>1, Zenon DEF GroupAt
  <1>6. SoundTable' <=> SoundTable
    BY <1>1, <1>2 DEF SoundTable
  <1>7. \A n \in Nat : CountsUpTo(n)' <=> CountsUpTo(n)
    BY <1>1, <1>2, Zenon DEF CountsUpTo
  <1> QED BY <1>1, <1>2, <1>3, <1>4, <1>5, <1>6, <1>7


\* A table without a valid bucket holds no group.
LEMMA EmptyTable ==
  ASSUME ValidBuckets' = {}
  PROVE  TableGroups' = <<>> /\ SoundTable' /\ \A n \in Nat : CountsUpTo(n)'
  <1>1. TableKeys' = {}
    BY DEF TableKeys
  <1>2. TableGroups' = <<>>
    BY <1>1 DEF TableGroups
  <1> QED BY <1>2 DEF SoundTable, CountsUpTo

-----------------------------------------------------------------------------
(* The sweep *)

LEMMA ClearKeeps ==
  ASSUME IInv, busy_q, Clear, WritePort, ReadPort,
         UNCHANGED <<sent, rows, groups, out>>
  PROVE  IInv'
  <1>0. TypeOK /\ state_q = "CLEAR" /\ clear_idx_q \in Bucket
    BY DEF IInv, TypeOK, Clear
  <1>1. TypeOK'
    <2>2. RamTypes'
      BY <1>0, SettledStep, EmptyIsWord DEF TypeOK, ReadPort, Clear, RamTypes
    <2>3. AddressTypes'
      BY <1>0, BucketSuccIs DEF TypeOK, Clear, probeVars, AddressTypes
    <2>4. ControlTypes'
      BY <1>0 DEF TypeOK, Clear, ControlTypes, States
    <2>5. DataTypes' /\ HistoryTypes'
      BY <1>0, TypeParts DEF Clear, rowVars, presentVars, DataTypes, HistoryTypes
    <2>7. FlagTypes'
      <3>1. /\ wen_q' = TRUE
            /\ UNCHANGED <<busy_q, done_q, row_last_q, present_hold_q, present_is_last_q>>
        BY DEF Clear, rowVars, presentVars
      <3> QED BY <1>0, <3>1, TypeParts, Zenon DEF FlagTypes
    <2> QED BY <2>2, <2>3, <2>4, <2>5, <2>7, TypeParts
  <1>2. /\ Settled \in [Bucket -> BucketWord]
        /\ Settled' = [Settled EXCEPT ![clear_idx_q] = EmptyBucket]
    BY <1>0, SettledStep DEF Clear
  <1>3. Gathering' /\ groups' = <<>>
    BY <1>0, GatheringIs DEF Gathering, IInv, Mirrored, Clear, presentVars
  <1>4. \A b \in Bucket : b <= clear_idx_q => ~Settled'[b].valid
    BY <1>0, <1>2 DEF IInv, Swept, EmptyBucket, Bucket
  <1>5. CASE clear_idx_q = BUCKETS - 1
    <2>1. ValidBuckets' = {}
      BY <1>4, <1>5, Sizes DEF ValidBuckets, Bucket
    <2>2. state_q' = "AGG_IDLE" /\ sent' \in Nat
      BY <1>0, <1>5, Sizes DEF Clear, TypeOK
    <2> QED BY <1>1, <1>3, <2>1, <2>2, EmptyTable, BetweenRows
  <1>6. CASE clear_idx_q # BUCKETS - 1
    <2>1. clear_idx_q' = clear_idx_q + 1 /\ state_q' = "CLEAR"
      BY <1>0, <1>6, BucketSuccIs DEF Clear
    <2>2. Swept'
      BY <1>0, <1>4, <2>1 DEF Swept, Bucket
    <2> QED BY <1>1, <1>3, <2>1, <2>2, SweepPhase
  <1> QED BY <1>5, <1>6

-----------------------------------------------------------------------------
(* Rows *)

\* What every way into the first pass has in common: the table has settled
\* and nothing of it has been seen.
LEMMA IntoScan ==
  ASSUME TypeOK', Gathering', state_q' = "SCAN", dump_idx_q' = 0, rd_stage_q' = 0,
         ~wen_q', SoundTable', CountsUpTo(sent)', groups' = TableGroups'
  PROVE  IInv'
  <1>1. WritesIdle' /\ ReadLatency' /\ ScanSeen'
    BY DEF WritesIdle, ReadLatency, ScanSeen, Bucket
  <1> QED BY <1>1, ScanPhase

\* A cycle between rows, or a row that does not pass.
LEMMA PassOverKeeps ==
  ASSUME IInv, busy_q, NEW sValid \in BOOLEAN, NEW pass \in BOOLEAN,
         NEW key, NEW val, NEW last \in BOOLEAN,
         ~sValid \/ ~pass, AcceptRow(sValid, pass, key, val, last),
         WritePort, ReadPort, UNCHANGED <<groups, out>>,
         rows' \in Seq([key : Keys, val : Vals]),
         sent' \in 0 .. RowLimit, sent <= sent'
  PROVE  IInv'
  <1>0. TypeOK /\ state_q = "AGG_IDLE" /\ ~wen_q'
    BY DEF IInv, AcceptRow
  <1>1. /\ UNCHANGED <<row_key_q, row_val_q, probeVars, raddr_q, waddr_q, wdata_q,
                       busy_q, done_q, last_valid_q, clear_idx_q, presentVars>>
        /\ row_last_q' = IF sValid THEN last ELSE row_last_q
        /\ \/ BeginDump
           \/ UNCHANGED <<rd_stage_q, state_q, dump_idx_q>>
    BY DEF AcceptRow
  <1>2. TypeOK'
    <2>2. RamTypes'
      BY <1>0, <1>1, SettledStep DEF TypeOK, ReadPort, RamTypes
    <2>3. AddressTypes' /\ ControlTypes'
      BY <1>0, <1>1, EmptyIsWord DEF TypeOK, BeginDump, probeVars, AddressTypes, ControlTypes, States
    <2>5. DataTypes' /\ HistoryTypes'
      BY <1>0, <1>1, TypeParts DEF presentVars, DataTypes, HistoryTypes
    <2>7. FlagTypes'
      <3>1. wen_q' = FALSE
            /\ UNCHANGED <<busy_q, done_q, present_hold_q, present_is_last_q>>
        BY <1>1 DEF AcceptRow, presentVars
      <3>2. row_last_q' \in BOOLEAN
        BY <1>0, <1>1, TypeParts, Zenon DEF FlagTypes
      <3> QED BY <1>0, <3>1, <3>2, TypeParts, Zenon DEF FlagTypes
    <2> QED BY <2>2, <2>3, <2>5, <2>7, TypeParts
  <1>3. Gathering'
    BY <1>0, <1>1, GatheringIs DEF Gathering, presentVars
  <1>4. SoundTable' /\ CountsUpTo(sent)' /\ groups' = TableGroups'
    <2>1. SoundTable /\ CountsUpTo(sent) /\ groups = TableGroups
      BY <1>0, TableIs DEF IInv, Mirrored
    <2>2. sent \in Nat /\ sent' \in Nat
      BY <1>0 DEF TypeOK
    <2>3. CountsUpTo(sent)
      BY <2>1
    <2>4. \A b \in ValidBuckets : Settled[b].count \in Nat
      BY <1>0, SettledStep DEF ValidBuckets, BucketWord, Acc
    <2>5. \A b \in ValidBuckets' : Settled'[b].count <= sent'
      BY <1>0, <2>1, <2>2, <2>4, TableSame DEF CountsUpTo
    <2> QED BY <1>0, <2>1, <2>5, TableSame DEF CountsUpTo
  <1>5. CASE BeginDump
    BY <1>0, <1>2, <1>3, <1>4, <1>5, IntoScan DEF BeginDump
  <1>6. CASE UNCHANGED <<rd_stage_q, state_q, dump_idx_q>>
    BY <1>0, <1>2, <1>3, <1>4, <1>6, BetweenRows
  <1> QED BY <1>1, <1>5, <1>6

LEMMA AwaitKeeps ==
  ASSUME IInv, busy_q, AwaitBucket, WritePort, ReadPort,
         UNCHANGED <<sent, rows, groups, out>>
  PROVE  IInv'
  <1>0. TypeOK /\ state_q = "AGG_RD" /\ rd_stage_q = 1 /\ ~wen_q
    BY DEF IInv, AwaitBucket, WritesIdle, ReadLatency
  <1>1. /\ UNCHANGED <<raddr_q, wen_q, waddr_q, wdata_q, state_q, busy_q, done_q,
                       row_key_q, row_val_q, row_last_q, probe_idx_q,
                       probe_count_q, dump_idx_q, last_valid_q, clear_idx_q,
                       present_hold_q, present_is_last_q, present_out_q>>
        /\ rd_stage_q' = 2
    BY <1>0 DEF AwaitBucket, writeVars, rowVars, probeVars, presentVars
  <1>2. TypeOK'
    <2>2. RamTypes'
      BY <1>0, <1>1, SettledStep DEF TypeOK, ReadPort, RamTypes
    <2>3. AddressTypes' /\ ControlTypes' /\ DataTypes' /\ HistoryTypes' /\ FlagTypes'
      BY <1>0, <1>1, TypeParts
      DEF AddressTypes, ControlTypes, DataTypes, HistoryTypes, FlagTypes
    <2> QED BY <2>2, <2>3, TypeParts
  <1>3. Gathering'
    BY <1>0, <1>1, GatheringIs DEF Gathering
  <1>4. bucket_mem = Settled
    BY <1>0 DEF Settled
  <1>5. WritesIdle' /\ ReadLatency'
    BY <1>0, <1>1, <1>4, TableSame
    DEF IInv, ReadLatency, WritesIdle, ReadPort
  <1>6. Probed'
    BY <1>0, <1>1, TableSame DEF IInv, Probed, ChainBefore, Distance
  <1>7. ProbeCounted'
    BY <1>0, <1>1, TableSame DEF IInv, ProbeCounted, Distance
  <1>8. groups' = Absorbed(TableGroups, row_key_q, row_val_q)'
    <2>1. groups = Absorbed(TableGroups, row_key_q, row_val_q)
      BY <1>0 DEF IInv, Mirrored
    <2> QED BY <1>0, <1>1, <2>1, TableSame, Zenon DEF Absorbed, Joined, Opened, Clip
  <1>9. /\ SoundTable' /\ sent' > 0
        /\ \A b \in ValidBuckets' : Settled'[b].count + 1 <= sent'
    BY <1>0, <1>1, TableIs, TableSame
  <1>10. row_key_q' \in Keys
    BY <1>0, <1>1 DEF IInv, KeysKnown
  <1> QED
    BY <1>0, <1>1, <1>2, <1>3, <1>5, <1>6, <1>7, <1>8, <1>9, <1>10, RowPhase
\* Each group of the table is in the one bucket that holds its key.
GroupsInBuckets ==
  /\ DOMAIN TableGroups = TableKeys
  /\ TableKeys \subseteq Keys
  /\ \A b \in ValidBuckets :
       Settled[b].key \in TableKeys /\ TableGroups[Settled[b].key] = GroupAt(b)
  /\ \A k \in TableKeys : \E b \in ValidBuckets : Settled[b].key = k

LEMMA TableGroupsIs == SoundTable => GroupsInBuckets
  <1> SUFFICES ASSUME SoundTable PROVE GroupsInBuckets
    OBVIOUS
  <1>1. DOMAIN TableGroups = TableKeys
    BY DEF TableGroups
  <1>2. TableKeys \subseteq Keys
    BY DEF SoundTable, TableKeys
  <1>3. \A k \in TableKeys : \E b \in ValidBuckets : Settled[b].key = k
    BY DEF TableKeys
  <1>4. ASSUME NEW b \in ValidBuckets
        PROVE  Settled[b].key \in TableKeys /\ TableGroups[Settled[b].key] = GroupAt(b)
    <2> DEFINE k == Settled[b].key
               c == CHOOSE x \in ValidBuckets : Settled[x].key = k
    <2>1. k \in TableKeys
      BY DEF TableKeys
    <2>2. c \in ValidBuckets /\ Settled[c].key = k
      OBVIOUS
    <2>3. c = b
      BY <2>2 DEF SoundTable
    <2>4. TableGroups[k] = GroupAt(c)
      BY <2>1 DEF TableGroups
    <2> QED BY <2>1, <2>3, <2>4
  <1> QED BY <1>1, <1>2, <1>3, <1>4 DEF GroupsInBuckets

LEMMA TableGroupsPrimed == SoundTable' => GroupsInBuckets'
  BY TableGroupsIs, PTL

LEMMA GroupAtTyped ==
  ASSUME TypeOK, NEW b \in ValidBuckets
  PROVE  GroupAt(b) \in Group /\ GroupAt(b).count = Settled[b].count
  BY SettledStep DEF TypeOK, Settled, ValidBuckets, BucketWord, GroupAt, Group

\* A row more: the groups stay groups, provided that no count is at its limit.
LEMMA AbsorbedTyped ==
  ASSUME NEW table, DOMAIN table \subseteq Keys,
         \A k \in DOMAIN table : table[k] \in Group /\ table[k].count < GbAccMax,
         NEW key \in Keys, NEW val \in Vals
  PROVE  /\ DOMAIN Absorbed(table, key, val) \subseteq Keys
         /\ \A k \in DOMAIN Absorbed(table, key, val) :
              Absorbed(table, key, val)[k] \in Group
  <1>0. key \in Nat /\ val \in Acc /\ GbAccMax \in Nat /\ 1 \in Acc
    BY GroupByAssumption, Sizes DEF Acc
  <1>1. Opened(key, val) \in Group
    BY <1>0 DEF Opened, Group
  <1>2. ASSUME key \in DOMAIN table
        PROVE  Joined(table[key], val) \in Group
    <2>1. table[key] \in Group /\ table[key].count + 1 \in Acc
      BY <1>0, <1>2 DEF Group, Acc
    <2>2. Clip(table[key].sum + val) \in Acc
      BY <1>0, <2>1 DEF Group, Acc, Clip
    <2> QED BY <1>0, <2>1, <2>2 DEF Joined, Group
  <1>3. CASE key \in DOMAIN table
    BY <1>2, <1>3 DEF Absorbed
  <1>4. CASE key \notin DOMAIN table /\ Cardinality(DOMAIN table) < BUCKETS
    <2> DEFINE t == [k \in DOMAIN table \cup {key} |->
                       IF k = key THEN Opened(key, val) ELSE table[k]]
    <2>1. Absorbed(table, key, val) = t
      BY <1>4 DEF Absorbed
    <2>2. DOMAIN t = DOMAIN table \cup {key}
          /\ \A k \in DOMAIN t : t[k] = IF k = key THEN Opened(key, val) ELSE table[k]
      OBVIOUS
    <2> HIDE DEF t
    <2> QED BY <1>1, <2>1, <2>2
  <1>5. CASE key \notin DOMAIN table /\ ~(Cardinality(DOMAIN table) < BUCKETS)
    BY <1>5 DEF Absorbed
  <1> QED BY <1>3, <1>4, <1>5

\* The engine takes a beat; of the history of rows only its type matters.
LEMMA AcceptKeeps ==
  ASSUME IInv, NEW pass \in BOOLEAN, NEW last \in BOOLEAN,
         NEW k \in Keys, NEW v \in Vals,
         WritePort, ReadPort, AcceptRow(TRUE, pass, k, v, last), busy_q,
         sent < RowLimit, sent' = sent + 1, out' = out,
         rows' \in Seq([key : Keys, val : Vals]),
         groups' = IF pass THEN Absorbed(groups, k, v) ELSE groups
  PROVE  IInv'
  <1>0. /\ WritePort /\ ReadPort /\ AcceptRow(TRUE, pass, k, v, last)
        /\ busy_q /\ state_q = "AGG_IDLE" /\ sent < RowLimit
        /\ sent' = sent + 1 /\ out' = out
        /\ groups' = IF pass THEN Absorbed(groups, k, v) ELSE groups
    BY DEF AcceptRow
  <1>1. TypeOK /\ sent \in Nat /\ sent' \in 0 .. RowLimit /\ sent <= sent'
    BY <1>0, Sizes DEF IInv, TypeOK
  <1>2. CASE ~pass
    <2>1. UNCHANGED <<groups, out>> /\ TRUE \in BOOLEAN
      BY <1>0, <1>2
    <2>2. \A s \in BOOLEAN : s /\ AcceptRow(s, pass, k, v, last) => IInv'
      <3> SUFFICES ASSUME NEW s \in BOOLEAN, s, AcceptRow(s, pass, k, v, last)
                   PROVE  IInv'
        OBVIOUS
      <3> QED BY <1>0, <1>1, <1>2, <2>1, PassOverKeeps
    <2> QED BY <1>0, <2>2
  <1>3. CASE pass
    <2>1. /\ row_key_q' = k /\ row_val_q' = v
          /\ probe_idx_q' = hash_key(k) /\ probe_count_q' = 2 * BUCKETS - 1
          /\ raddr_q' = hash_key(k) /\ rd_stage_q' = 1
          /\ state_q' = "AGG_RD" /\ row_last_q' = last /\ wen_q' = FALSE
          /\ UNCHANGED <<dump_idx_q, waddr_q, wdata_q, busy_q, done_q,
                         last_valid_q, clear_idx_q, present_hold_q,
                         present_is_last_q, present_out_q>>
      BY <1>0, <1>3 DEF AcceptRow, IssueRead, presentVars
    <2>2. /\ hash_key(k) \in Bucket /\ k \in Nat /\ v \in Acc
          /\ 2 * BUCKETS - 1 \in 0 .. 2 * BUCKETS - 1
      BY DistanceIs, GroupByAssumption, Sizes DEF Acc
    <2>3. SoundTable /\ CountsUpTo(sent) /\ groups = TableGroups
      BY <1>0, TableIs DEF IInv, Mirrored
    <2>4. \A b \in ValidBuckets : Settled[b].count \in Nat
      BY <1>1, SettledStep, <1>0 DEF ValidBuckets, BucketWord, Acc
    <2>5. \A j \in DOMAIN groups : groups[j] \in Group /\ groups[j].count < GbAccMax
      <3> SUFFICES ASSUME NEW j \in TableKeys
                   PROVE  TableGroups[j] \in Group /\ TableGroups[j].count < GbAccMax
        BY <2>3, TableGroupsIs DEF GroupsInBuckets
      <3>1. PICK b \in ValidBuckets : TableGroups[j] = GroupAt(b)
        BY <2>3, TableGroupsIs DEF GroupsInBuckets
      <3>2. Settled[b].count <= sent
        BY <2>3 DEF CountsUpTo
      <3> QED BY <1>0, <1>1, <2>4, <3>1, <3>2, GroupAtTyped, Sizes
    <2>6. TypeOK'
      <3>2. RamTypes'
        BY <1>0, <1>1, <2>1, SettledStep DEF TypeOK, ReadPort, RamTypes
      <3>3. AddressTypes' /\ ControlTypes'
        BY <1>1, <2>1, <2>2 DEF TypeOK, AddressTypes, ControlTypes, States
      <3>4. DataTypes'
        BY <1>1, <2>1, <2>2 DEF TypeOK, DataTypes
      <3>5. FlagTypes'
        BY <1>1, <2>1, TypeParts, Zenon DEF FlagTypes
      <3>6. HistoryTypes'
        <4>1. rows' \in Seq([key : Keys, val : Vals])
          OBVIOUS
        <4>2. DOMAIN groups' \subseteq Keys /\ \A j \in DOMAIN groups' : groups'[j] \in Group
          BY <1>0, <1>1, <1>3, <2>5, AbsorbedTyped DEF TypeOK
        <4> QED BY <1>0, <1>1, <4>1, <4>2 DEF TypeOK, HistoryTypes
      <3> QED BY <3>2, <3>3, <3>4, <3>5, <3>6, TypeParts
    <2>7. Gathering'
      BY <1>0, <2>1, GatheringIs DEF Gathering
    <2>8. /\ SoundTable' /\ sent' > 0
          /\ \A b \in ValidBuckets' : Settled'[b].count + 1 <= sent'
      BY <1>0, <1>1, <2>1, <2>3, <2>4, TableSame DEF CountsUpTo
    <2>9. groups' = Absorbed(TableGroups, row_key_q, row_val_q)'
      <3>1. TableGroups' = groups
        BY <1>0, <1>1, <2>1, <2>3, TableSame
      <3> QED BY <1>0, <1>3, <2>1, <3>1, Zenon DEF Absorbed, Joined, Opened, Clip
    <2>10. WritesIdle' /\ ReadLatency'
      BY <2>1 DEF WritesIdle, ReadLatency
    <2>11. Distance(k, hash_key(k)) = 0
      BY <2>2, DistanceIs, Sizes DEF Bucket
    <2>12. ChainBefore(k, hash_key(k)) = {}
      <3>1. \A c \in Bucket : Distance(k, c) \in Nat
        BY DistanceIs DEF Bucket
      <3> QED BY <2>2, <2>11, <3>1, ChainIs
    <2>13. Probed'
      BY <2>1, <2>12 DEF Probed
    <2>14. ProbeCounted'
      BY <2>1 DEF ProbeCounted
    <2> QED
      BY <2>1, <2>6, <2>7, <2>8, <2>9, <2>10, <2>13, <2>14, RowPhase
  <1> QED BY <1>2, <1>3

LEMMA BeatKeeps ==
  ASSUME IInv, NEW pass \in BOOLEAN, NEW last \in BOOLEAN,
         NEW k \in Keys, NEW v \in Vals, Beat(pass, k, v, last)
  PROVE  IInv'
  <1>1. /\ WritePort /\ ReadPort /\ AcceptRow(TRUE, pass, k, v, last)
        /\ busy_q /\ sent < RowLimit /\ sent' = sent + 1 /\ out' = out
        /\ rows' = IF pass THEN Append(rows, [key |-> k, val |-> v]) ELSE rows
        /\ groups' = IF pass THEN Absorbed(groups, k, v) ELSE groups
    BY BeatIs
  <1>2. rows' \in Seq([key : Keys, val : Vals])
    <2>1. rows \in Seq([key : Keys, val : Vals])
      BY DEF IInv, TypeOK
    <2>2. Append(rows, [key |-> k, val |-> v]) \in Seq([key : Keys, val : Vals])
      BY <2>1
    <2>3. CASE pass
      BY <1>1, <2>2, <2>3
    <2>4. CASE ~pass
      BY <1>1, <2>1, <2>4
    <2> QED BY <2>3, <2>4
  <1> QED BY <1>1, <1>2, AcceptKeeps

\* As many groups as valid buckets.
LEMMA TableSize ==
  ASSUME SoundTable
  PROVE  /\ IsFiniteSet(TableKeys) /\ IsFiniteSet(ValidBuckets)
         /\ Cardinality(TableKeys) = Cardinality(ValidBuckets)
         /\ Cardinality(TableKeys) < BUCKETS <=> ValidBuckets # Bucket
  <1> DEFINE f == [b \in ValidBuckets |-> Settled[b].key]
  <1>1. f \in Bijection(ValidBuckets, TableKeys)
    <2>1. f \in [ValidBuckets -> TableKeys]
      BY DEF TableKeys
    <2>2. \A b, c \in ValidBuckets : f[b] = f[c] => b = c
      BY DEF SoundTable
    <2>3. \A k \in TableKeys : \E b \in ValidBuckets : f[b] = k
      BY DEF TableKeys
    <2> HIDE DEF f
    <2> QED BY <2>1, <2>2, <2>3, Fun_IsBij
  <1>2. IsFiniteSet(Bucket) /\ Cardinality(Bucket) = BUCKETS
    BY FS_Interval, Sizes DEF Bucket
  <1>3. ValidBuckets \in SUBSET Bucket
    BY DEF ValidBuckets
  <1>4. /\ IsFiniteSet(ValidBuckets) /\ Cardinality(ValidBuckets) \in Nat
        /\ Cardinality(ValidBuckets) <= BUCKETS
        /\ Cardinality(ValidBuckets) = BUCKETS <=> ValidBuckets = Bucket
    BY <1>2, <1>3, FS_Subset, FS_CardinalityType
  <1>5. ExistsBijection(ValidBuckets, TableKeys)
    BY <1>1 DEF ExistsBijection
  <1>6. IsFiniteSet(TableKeys) /\ Cardinality(TableKeys) = Cardinality(ValidBuckets)
    BY <1>4, <1>5, FS_Bijection
  <1> QED BY <1>4, <1>6, Sizes

\* The engine is finished with a row: the next one, or the first pass.
LEMMA AfterRowKeeps ==
  ASSUME IInv, TypeOK', busy_q, state_q # "PRESENT", AfterRow,
         UNCHANGED <<busy_q, done_q, present_hold_q, out>>, ~wen_q',
         SoundTable', CountsUpTo(sent)', groups' = TableGroups'
  PROVE  IInv'
  <1>1. Gathering'
    BY GatheringIs DEF Gathering
  <1>2. CASE row_last_q
    BY <1>1, <1>2, IntoScan DEF AfterRow, BeginDump
  <1>3. CASE ~row_last_q
    BY <1>1, <1>3, BetweenRows DEF AfterRow
  <1> QED BY <1>2, <1>3

\* A row whose key no bucket holds, in a full table: dropped.
LEMMA DropKeeps ==
  ASSUME IInv, busy_q, Probe, probe_count_q = BUCKETS, WritePort, ReadPort,
         UNCHANGED <<sent, rows, groups, out>>
  PROVE  IInv'
  <1>0. TypeOK /\ state_q = "AGG_RD" /\ ~wen_q
    BY DEF IInv, Probe, WritesIdle
  <1>1. /\ AfterRow
        /\ UNCHANGED <<wen_q, waddr_q, wdata_q, busy_q, done_q, row_key_q,
                       row_val_q, row_last_q, raddr_q, probe_idx_q, probe_count_q,
                       last_valid_q, clear_idx_q, present_hold_q,
                       present_is_last_q, present_out_q>>
    BY DEF Probe, writeVars, rowVars, probeVars, presentVars
  <1>2. TypeOK'
    <2>1. RamTypes'
      BY <1>0, <1>1, SettledStep DEF TypeOK, ReadPort, RamTypes
    <2>2. AddressTypes' /\ ControlTypes'
      BY <1>0, <1>1, EmptyIsWord
      DEF TypeOK, AfterRow, BeginDump, AddressTypes, ControlTypes, States
    <2>3. DataTypes' /\ HistoryTypes' /\ FlagTypes'
      BY <1>0, <1>1, TypeParts DEF DataTypes, HistoryTypes, FlagTypes
    <2> QED BY <2>1, <2>2, <2>3, TypeParts
  <1>3. \A c \in Bucket : Settled[c].valid /\ Settled[c].key # row_key_q
    BY <1>0, Sizes DEF IInv, ProbeCounted
  <1>4. SoundTable /\ \A b \in ValidBuckets : Settled[b].count + 1 <= sent
    BY <1>0, TableIs
  <1>5. groups = TableGroups
    <2>1. row_key_q \notin TableKeys /\ ValidBuckets = Bucket
      BY <1>3 DEF TableKeys, ValidBuckets
    <2>2. ~(Cardinality(TableKeys) < BUCKETS) /\ DOMAIN TableGroups = TableKeys
      BY <1>4, <2>1, TableSize, TableGroupsIs DEF GroupsInBuckets
    <2> QED BY <1>0, <2>1, <2>2 DEF IInv, Mirrored, Absorbed
  <1>6. CountsUpTo(sent)
    <2>1. \A b \in ValidBuckets : Settled[b].count \in Nat
      BY <1>0, SettledStep DEF ValidBuckets, BucketWord, Acc
    <2> QED BY <1>0, <1>4, <2>1 DEF CountsUpTo, TypeOK
  <1>7. SoundTable' /\ CountsUpTo(sent)' /\ groups' = TableGroups'
    BY <1>0, <1>1, <1>4, <1>5, <1>6, TableSame DEF CountsUpTo
  <1> QED BY <1>0, <1>1, <1>2, <1>7, AfterRowKeeps

\* A bucket taken by another key: the next one on the chain.
LEMMA CollideKeeps ==
  ASSUME IInv, busy_q, Probe, probe_count_q # BUCKETS, WritePort, ReadPort,
         UNCHANGED <<sent, rows, groups, out>>
  PROVE  IInv'
  <1>0. TypeOK /\ state_q = "AGG_RD" /\ ~wen_q /\ row_key_q \in Keys
        /\ probe_idx_q \in Bucket /\ probe_count_q \in 0 .. 2 * BUCKETS - 1
    BY DEF IInv, Probe, WritesIdle, KeysKnown, TypeOK
  <1>1. /\ UNCHANGED <<wen_q, waddr_q, wdata_q, state_q, busy_q, done_q, row_key_q,
                       row_val_q, row_last_q, dump_idx_q, last_valid_q,
                       clear_idx_q, present_hold_q, present_is_last_q,
                       present_out_q>>
        /\ probe_idx_q' = BucketSucc(probe_idx_q) /\ raddr_q' = probe_idx_q'
        /\ probe_count_q' = ProbeSucc(probe_count_q)
        /\ rd_stage_q' = 1
    BY DEF Probe, IssueRead, writeVars, rowVars, presentVars
  <1>2. BucketSucc(probe_idx_q) \in Bucket
        /\ ProbeSucc(probe_count_q) \in 0 .. 2 * BUCKETS - 1
        /\ ProbeSucc(probe_count_q) = IF probe_count_q = 2 * BUCKETS - 1 THEN 0
                                      ELSE probe_count_q + 1
    BY <1>0, BucketSuccIs, ProbeSuccIs
  <1>3. TypeOK'
    <2>1. RamTypes'
      BY <1>0, <1>1, SettledStep DEF TypeOK, ReadPort, RamTypes
    <2>2. AddressTypes' /\ ControlTypes'
      BY <1>0, <1>1, <1>2 DEF TypeOK, AddressTypes, ControlTypes
    <2>3. DataTypes' /\ HistoryTypes' /\ FlagTypes'
      BY <1>0, <1>1, TypeParts DEF DataTypes, HistoryTypes, FlagTypes
    <2> QED BY <2>1, <2>2, <2>3, TypeParts
  <1>4. Settled[probe_idx_q].valid /\ Settled[probe_idx_q].key # row_key_q
    BY <1>0 DEF IInv, ReadLatency, Probe, Collision, Settled
  <1>5. \A c \in ChainBefore(row_key_q, probe_idx_q) \cup {probe_idx_q} :
          Settled[c].valid /\ Settled[c].key # row_key_q
    BY <1>0, <1>4 DEF IInv, Probed
  <1>6. \A c \in ChainBefore(row_key_q, BucketSucc(probe_idx_q)) :
          Settled[c].valid /\ Settled[c].key # row_key_q
    BY <1>0, <1>5, ChainGrows
  <1>7. Probed'
    BY <1>0, <1>1, <1>6, TableSame DEF Probed
  <1>8. ProbeCounted'
    <2> DEFINE n == probe_count_q
               m == ProbeSucc(probe_count_q)
               d == Distance(row_key_q, probe_idx_q)
               e == Distance(row_key_q, BucketSucc(probe_idx_q))
               Full == \A c \in Bucket : Settled[c].valid /\ Settled[c].key # row_key_q
    <2>1. e = IF d = BUCKETS - 1 THEN 0 ELSE d + 1
      BY <1>0, ChainGrows
    <2>2. d = BUCKETS - 1 => Full
      BY <1>0, <1>5, ChainWhole
    <2>3. d \in Bucket /\ (probe_idx_q = hash_key(row_key_q) => d = 0)
      BY <1>0, DistanceIs, Sizes DEF Bucket
    <2>4. \/ n = 2 * BUCKETS - 1 /\ d = 0
          \/ n < BUCKETS - 1 /\ d = n + 1
          \/ n \in BUCKETS - 1 .. BUCKETS /\ Full
      BY <1>0, <2>3 DEF IInv, ProbeCounted
    <2>5. \/ m < BUCKETS - 1 /\ e = m + 1
          \/ m \in BUCKETS - 1 .. BUCKETS /\ Full
      <3>1. n # BUCKETS /\ m = (IF n = 2 * BUCKETS - 1 THEN 0 ELSE n + 1) /\ n \in Nat
        BY <1>0, <1>2
      <3> HIDE DEF n, m, d, e, Full
      <3> QED BY <2>1, <2>2, <2>3, <2>4, <3>1, Sizes DEF Bucket
    <2> HIDE DEF n, d
    <2> QED BY <1>0, <1>1, <2>5, TableSame DEF ProbeCounted
  <1>9. Gathering'
    BY <1>0, <1>1, GatheringIs DEF Gathering
  <1>10. /\ SoundTable' /\ sent' > 0
         /\ \A b \in ValidBuckets' : Settled'[b].count + 1 <= sent'
    BY <1>0, <1>1, TableIs, TableSame
  <1>11. groups' = Absorbed(TableGroups, row_key_q, row_val_q)'
    <2>1. groups = Absorbed(TableGroups, row_key_q, row_val_q)
      BY <1>0 DEF IInv, Mirrored
    <2> QED BY <1>0, <1>1, <2>1, TableSame, Zenon DEF Absorbed, Joined, Opened, Clip
  <1>12. WritesIdle' /\ ReadLatency'
    BY <1>0, <1>1 DEF WritesIdle, ReadLatency
  <1> QED
    BY <1>0, <1>1, <1>3, <1>7, <1>8, <1>9, <1>10, <1>11, <1>12, RowPhase


\* The bucket the update writes: the row's key, the group opened or joined.
LEMMA UpdatedIs ==
  ASSUME TypeOK, rd_bucket.valid => rd_bucket.key = row_key_q,
         rd_bucket.valid => rd_bucket.count < GbAccMax
  PROVE  /\ updated_bucket \in BucketWord
         /\ updated_bucket.valid /\ updated_bucket.key = row_key_q
         /\ updated_bucket.count = IF rd_bucket.valid THEN rd_bucket.count + 1 ELSE 1
         /\ [key |-> updated_bucket.key, count |-> updated_bucket.count,
             sum |-> updated_bucket.sum, min |-> updated_bucket.min,
             max |-> updated_bucket.max] =
              IF rd_bucket.valid
              THEN Joined([key |-> rd_bucket.key, count |-> rd_bucket.count,
                           sum |-> rd_bucket.sum, min |-> rd_bucket.min,
                           max |-> rd_bucket.max], row_val_q)
              ELSE Opened(row_key_q, row_val_q)
  <1> DEFINE r == rd_bucket
             v == row_val_q
             u == updated_bucket
  <1>1. r \in BucketWord /\ v \in Acc /\ row_key_q \in Nat
    BY DEF TypeOK
  <1>2. CASE ~r.valid
    <2>1. u = [valid |-> TRUE, key |-> row_key_q, count |-> 1, sum |-> v,
               min |-> v, max |-> v]
      BY <1>2 DEF updated_bucket
    <2>2. u \in BucketWord
      BY <1>1, <2>1, Sizes DEF BucketWord, Acc
    <2> QED BY <1>2, <2>1, <2>2 DEF Opened
  <1>3. CASE r.valid
    <2> DEFINE n == (r.count + 1) % (GbAccMax + 1)
               s == IF r.sum + v > GbAccMax THEN GbAccMax ELSE r.sum + v
               lo == IF v < r.min THEN v ELSE r.min
               hi == IF v > r.max THEN v ELSE r.max
    <2>1. /\ r = [valid |-> r.valid, key |-> r.key, count |-> r.count, sum |-> r.sum,
                  min |-> r.min, max |-> r.max]
          /\ r.valid \in BOOLEAN /\ r.key \in Nat
          /\ r.count \in Acc /\ r.sum \in Acc /\ r.min \in Acc /\ r.max \in Acc
      BY <1>1 DEF BucketWord
    <2>2. u = [r EXCEPT !.count = n, !.sum = s, !.min = lo, !.max = hi]
      BY <1>3 DEF updated_bucket
    <2>3. n = r.count + 1
      <3>1. r.count \in Nat /\ r.count + 1 < GbAccMax + 1
        BY <1>3, <2>1, Sizes DEF Acc
      <3> QED BY <3>1, Sizes
    <2>4. n \in Acc /\ s \in Acc /\ lo \in Acc /\ hi \in Acc
      BY <1>1, <1>3, <2>1, <2>3, Sizes DEF Acc
    <2> HIDE DEF n, s, lo, hi
    <2>5. u = [valid |-> r.valid, key |-> r.key, count |-> n, sum |-> s,
               min |-> lo, max |-> hi]
      BY <2>1, <2>2
    <2>6. u \in BucketWord
      BY <2>1, <2>4, <2>5 DEF BucketWord
    <2>7. Joined([key |-> r.key, count |-> r.count, sum |-> r.sum, min |-> r.min,
                  max |-> r.max], v) =
            [key |-> r.key, count |-> n, sum |-> s, min |-> lo, max |-> hi]
      BY <2>3 DEF Joined, Clip, s, lo, hi
    <2> QED BY <1>3, <2>3, <2>5, <2>6, <2>7
  <1> QED BY <1>2, <1>3

\* A free bucket ends the chain: no bucket holds the key of the row.
LEMMA FreeBucket ==
  ASSUME TypeOK, SoundTable, row_key_q \in Keys, probe_idx_q \in Bucket,
         ~Settled[probe_idx_q].valid,
         \A c \in ChainBefore(row_key_q, probe_idx_q) : Settled[c].key # row_key_q
  PROVE  \A c \in ValidBuckets : Settled[c].key # row_key_q
  <1> SUFFICES ASSUME NEW c \in ValidBuckets, Settled[c].key = row_key_q
               PROVE  FALSE
    OBVIOUS
  <1> DEFINE p == probe_idx_q
             k == row_key_q
  <1>1. c \in Bucket /\ c # p
    BY DEF ValidBuckets
  <1>2. p \notin ChainBefore(k, c)
    BY DEF SoundTable, ValidBuckets
  <1>3. ~(Distance(k, p) < Distance(k, c))
    BY <1>1, <1>2, ChainIs
  <1>4. Distance(k, p) # Distance(k, c)
    BY <1>1, DistanceIs, Sizes DEF Bucket
  <1>5. Distance(k, p) \in Nat /\ Distance(k, c) \in Nat
    BY <1>1, DistanceIs DEF Bucket
  <1>6. c \in ChainBefore(k, p)
    BY <1>1, <1>3, <1>4, <1>5, ChainIs
  <1> QED BY <1>6

LEMMA UpdateKeeps ==
  ASSUME IInv, busy_q, Update, WritePort, ReadPort,
         UNCHANGED <<sent, rows, groups, out>>
  PROVE  IInv'
  <1> DEFINE p == probe_idx_q
             k == row_key_q
             u == updated_bucket
  <1>0. TypeOK /\ state_q = "AGG_RD" /\ ~wen_q /\ k \in Keys /\ p \in Bucket
        /\ groups = Absorbed(TableGroups, k, row_val_q)
    BY DEF IInv, Update, WritesIdle, KeysKnown, TypeOK, Mirrored
  <1>1. /\ UNCHANGED <<raddr_q, busy_q, done_q, rd_stage_q, row_key_q,
                       row_val_q, row_last_q, probe_idx_q, probe_count_q,
                       dump_idx_q, last_valid_q, clear_idx_q, present_hold_q,
                       present_is_last_q, present_out_q>>
        /\ wen_q' = TRUE /\ waddr_q' = p /\ wdata_q' = u
        /\ state_q' = "AGG_WRITE"
    BY DEF Update, rowVars, probeVars, presentVars
  <1>2. /\ rd_bucket = Settled[p]
        /\ rd_bucket.valid => rd_bucket.key = k
    BY <1>0 DEF IInv, ReadLatency, Update, Collision, Settled
  <1>3. /\ SoundTable /\ sent > 0 /\ sent \in Nat /\ sent <= GbAccMax
        /\ \A b \in ValidBuckets : Settled[b].count + 1 <= sent
        /\ \A b \in ValidBuckets : Settled[b].count \in Nat
        /\ p \in ValidBuckets <=> rd_bucket.valid
    <2>1. sent \in Nat /\ sent <= GbAccMax
      BY <1>0, Sizes DEF TypeOK
    <2>2. \A b \in ValidBuckets : Settled[b].count \in Nat
      BY <1>0, SettledStep DEF ValidBuckets, BucketWord, Acc
    <2> QED BY <1>0, <1>2, <2>1, <2>2, TableIs DEF ValidBuckets
  <1>4. /\ u \in BucketWord /\ u.valid /\ u.key = k
        /\ u.count = IF rd_bucket.valid THEN rd_bucket.count + 1 ELSE 1
        /\ [key |-> u.key, count |-> u.count, sum |-> u.sum, min |-> u.min,
            max |-> u.max] =
             IF rd_bucket.valid THEN Joined(GroupAt(p), row_val_q)
             ELSE Opened(k, row_val_q)
    <2>1. rd_bucket.valid => rd_bucket.count < GbAccMax
      <3>1. CASE rd_bucket.valid
        <4>1. p \in ValidBuckets /\ Settled[p].count + 1 <= sent /\ Settled[p].count \in Nat
          BY <1>3, <3>1
        <4> QED BY <1>2, <1>3, <4>1, Sizes
      <3> QED BY <3>1
    <2>2. GroupAt(p) = [key |-> rd_bucket.key, count |-> rd_bucket.count,
                        sum |-> rd_bucket.sum, min |-> rd_bucket.min,
                        max |-> rd_bucket.max]
      BY <1>2 DEF GroupAt
    <2> HIDE DEF u
    <2> QED BY <1>0, <1>2, <2>1, <2>2, UpdatedIs DEF u
  <1> HIDE DEF u
  <1>5. TypeOK'
    <2>1. RamTypes'
      BY <1>0, <1>1, <1>4, SettledStep DEF TypeOK, ReadPort, RamTypes
    <2>2. AddressTypes' /\ ControlTypes'
      BY <1>0, <1>1 DEF TypeOK, AddressTypes, ControlTypes, States
    <2>3. DataTypes' /\ HistoryTypes'
      BY <1>0, <1>1, TypeParts DEF DataTypes, HistoryTypes
    <2>4. FlagTypes'
      BY <1>0, <1>1, TypeParts, Zenon DEF FlagTypes
    <2> QED BY <2>1, <2>2, <2>3, <2>4, TypeParts
  <1>6. /\ Settled \in [Bucket -> BucketWord]
        /\ Settled' = [Settled EXCEPT ![p] = u]
    BY <1>0, <1>1, SettledStep
  <1>7. /\ ValidBuckets' = ValidBuckets \cup {p}
        /\ Settled'[p] = u
        /\ \A b \in Bucket : b # p => Settled'[b] = Settled[b]
    BY <1>0, <1>4, <1>6 DEF ValidBuckets
  <1>8. \A c \in ValidBuckets : c # p => Settled[c].key # k
    <2>1. CASE rd_bucket.valid
      BY <1>2, <1>3, <2>1 DEF SoundTable
    <2>2. CASE ~rd_bucket.valid
      BY <1>0, <1>2, <1>3, <2>2, FreeBucket DEF IInv, Probed
    <2> QED BY <2>1, <2>2
  <1>9. SoundTable'
    <2> SUFFICES ASSUME NEW b \in ValidBuckets'
                 PROVE  /\ Settled'[b].key \in Keys
                        /\ \A c \in ValidBuckets' : Settled'[c].key = Settled'[b].key => c = b
                        /\ ChainBefore(Settled'[b].key, b) \subseteq ValidBuckets'
      BY DEF SoundTable
    <2>1. ValidBuckets \subseteq Bucket
      BY DEF ValidBuckets
    <2>2. CASE b = p
      <3>1. ChainBefore(k, p) \subseteq ValidBuckets
        BY <1>0, ChainIs DEF IInv, Probed, ValidBuckets
      <3> QED BY <1>0, <1>4, <1>7, <1>8, <2>1, <2>2, <3>1
    <2>3. CASE b # p
      <3>1. b \in ValidBuckets /\ Settled'[b] = Settled[b]
        BY <1>7, <2>1, <2>3
      <3> QED BY <1>3, <1>4, <1>7, <1>8, <2>1, <2>3, <3>1 DEF SoundTable
    <2> QED BY <2>2, <2>3
  <1>10. CountsUpTo(sent)'
    <2> SUFFICES ASSUME NEW b \in ValidBuckets' PROVE Settled'[b].count <= sent
      BY DEF CountsUpTo
    <2>1. CASE b = p
      BY <1>2, <1>3, <1>4, <1>7, <2>1
    <2>2. CASE b # p
      <3>1. b \in ValidBuckets /\ Settled'[b] = Settled[b]
        BY <1>7, <2>2 DEF ValidBuckets
      <3> QED BY <1>3, <3>1
    <2> QED BY <2>1, <2>2
  <1>11. groups' = TableGroups'
    <2> DEFINE t == TableGroups
    <2>1. GroupsInBuckets /\ GroupsInBuckets'
      BY <1>3, <1>9, TableGroupsIs, TableGroupsPrimed
    <2>2. /\ GroupAt(p)' = IF rd_bucket.valid THEN Joined(GroupAt(p), row_val_q)
                           ELSE Opened(k, row_val_q)
          /\ k \in TableKeys' /\ TableGroups'[k] = GroupAt(p)'
      <3>1. GroupAt(p)' = [key |-> u.key, count |-> u.count, sum |-> u.sum,
                           min |-> u.min, max |-> u.max]
        BY <1>1, <1>7 DEF GroupAt
      <3> QED BY <1>1, <1>4, <1>7, <2>1, <3>1 DEF GroupsInBuckets
    <2>3. \A b \in ValidBuckets : b # p =>
            LET j == Settled[b].key
            IN  j # k /\ j \in TableKeys' /\ TableGroups'[j] = t[j]
      <3> SUFFICES ASSUME NEW b \in ValidBuckets, b # p
                   PROVE  /\ Settled[b].key # k
                          /\ Settled[b].key \in TableKeys'
                          /\ TableGroups'[Settled[b].key] = t[Settled[b].key]
        OBVIOUS
      <3>1. b \in ValidBuckets' /\ Settled'[b] = Settled[b]
        BY <1>7 DEF ValidBuckets
      <3>2. GroupAt(b)' = GroupAt(b)
        BY <3>1 DEF GroupAt
      <3> QED BY <1>8, <2>1, <3>1, <3>2 DEF GroupsInBuckets
    <2>4. TableKeys' = TableKeys \cup {k}
      <3>1. \A j \in TableKeys' : j \in TableKeys \cup {k}
        <4> SUFFICES ASSUME NEW b \in ValidBuckets'
                     PROVE  Settled'[b].key \in TableKeys \cup {k}
          BY <2>1 DEF GroupsInBuckets
        <4>1. CASE b = p
          BY <1>4, <1>7, <4>1
        <4>2. CASE b # p
          <5>1. b \in ValidBuckets /\ Settled'[b] = Settled[b]
            BY <1>7, <4>2 DEF ValidBuckets
          <5> QED BY <2>1, <5>1 DEF GroupsInBuckets
        <4> QED BY <4>1, <4>2
      <3>2. \A j \in TableKeys : j \in TableKeys'
        <4> SUFFICES ASSUME NEW b \in ValidBuckets
                     PROVE  Settled[b].key \in TableKeys'
          BY <2>1 DEF GroupsInBuckets
        <4>1. CASE b = p
          BY <1>2, <1>3, <2>2, <4>1
        <4>2. CASE b # p
          BY <2>3, <4>2
        <4> QED BY <4>1, <4>2
      <3> QED BY <2>2, <3>1, <3>2
    <2>5. \A j \in TableKeys : j # k => TableGroups'[j] = t[j]
      <3> SUFFICES ASSUME NEW b \in ValidBuckets, Settled[b].key # k
                   PROVE  TableGroups'[Settled[b].key] = t[Settled[b].key]
        BY <2>1 DEF GroupsInBuckets
      <3>1. b # p
        BY <1>2, <1>3
      <3> QED BY <2>3, <3>1
    <2>6. TableGroups' = [j \in TableKeys' |-> TableGroups'[j]]
      BY DEF TableGroups
    <2>7. DOMAIN t = TableKeys /\ t = [j \in TableKeys |-> t[j]]
      BY DEF TableGroups
    <2> HIDE DEF t
    <2>8. CASE rd_bucket.valid
      <3>1. k \in TableKeys /\ t[k] = GroupAt(p)
        BY <1>2, <1>3, <2>1, <2>8 DEF GroupsInBuckets, t
      <3>2. groups = [t EXCEPT ![k] = Joined(@, row_val_q)]
        BY <1>0, <2>7, <3>1 DEF Absorbed, t
      <3>3. groups = [j \in TableKeys |-> IF j = k THEN Joined(t[k], row_val_q) ELSE t[j]]
        BY <2>7, <3>2
      <3>4. TableKeys' = TableKeys
        BY <2>4, <3>1
      <3>5. \A j \in TableKeys :
              TableGroups'[j] = IF j = k THEN Joined(t[k], row_val_q) ELSE t[j]
        BY <2>2, <2>5, <2>8, <3>1
      <3> QED BY <2>6, <3>3, <3>4, <3>5
    <2>9. CASE ~rd_bucket.valid
      <3>1. k \notin TableKeys
        BY <1>3, <1>8, <2>1, <2>9 DEF GroupsInBuckets
      <3>2. Cardinality(TableKeys) < BUCKETS
        BY <1>0, <1>3, <2>9, TableSize
      <3>3. groups = [j \in TableKeys \cup {k} |->
                        IF j = k THEN Opened(k, row_val_q) ELSE t[j]]
        BY <1>0, <2>7, <3>1, <3>2 DEF Absorbed, t
      <3>4. \A j \in TableKeys' :
              TableGroups'[j] = IF j = k THEN Opened(k, row_val_q) ELSE t[j]
        BY <2>2, <2>4, <2>5, <2>9
      <3> QED BY <2>4, <2>6, <3>3, <3>4
    <2> QED BY <2>8, <2>9
  <1>12. Gathering'
    BY <1>0, <1>1, GatheringIs DEF Gathering
  <1> QED BY <1>1, <1>5, <1>9, <1>10, <1>11, <1>12, BetweenRows

LEMMA WriteDoneKeeps ==
  ASSUME IInv, busy_q, WriteDone, WritePort, ReadPort,
         UNCHANGED <<sent, rows, groups, out>>
  PROVE  IInv'
  <1>0. TypeOK /\ state_q = "AGG_WRITE"
    BY DEF IInv, WriteDone
  <1>1. /\ AfterRow /\ wen_q' = FALSE
        /\ UNCHANGED <<raddr_q, waddr_q, wdata_q, busy_q, done_q, row_key_q,
                       row_val_q, row_last_q, probe_idx_q, probe_count_q,
                       last_valid_q, clear_idx_q, present_hold_q,
                       present_is_last_q, present_out_q>>
    BY DEF WriteDone, rowVars, probeVars, presentVars
  <1>2. TypeOK'
    <2>1. RamTypes'
      BY <1>0, <1>1, SettledStep DEF TypeOK, ReadPort, RamTypes
    <2>2. AddressTypes' /\ ControlTypes'
      BY <1>0, <1>1, EmptyIsWord
      DEF TypeOK, AfterRow, BeginDump, AddressTypes, ControlTypes, States
    <2>3. DataTypes' /\ HistoryTypes'
      BY <1>0, <1>1, TypeParts DEF DataTypes, HistoryTypes
    <2>4. FlagTypes'
      BY <1>0, <1>1, TypeParts, Zenon DEF FlagTypes
    <2> QED BY <2>1, <2>2, <2>3, <2>4, TypeParts
  <1>3. SoundTable /\ CountsUpTo(sent) /\ groups = TableGroups /\ sent \in Nat
    BY <1>0, TableIs DEF IInv, Mirrored, TypeOK
  <1>4. SoundTable' /\ CountsUpTo(sent)' /\ groups' = TableGroups'
    BY <1>0, <1>1, <1>3, TableSame DEF CountsUpTo
  <1> QED BY <1>0, <1>1, <1>2, <1>4, AfterRowKeeps
-----------------------------------------------------------------------------
(* The dump passes *)

\* A pass waits for the bucket it reads: the address stays the bucket's.
LEMMA AwaitDumpReads ==
  ASSUME IInv, busy_q, state_q \in {"SCAN", "PRESENT"}, AwaitDump,
         WritePort, ReadPort, UNCHANGED <<wen_q, busy_q>>
  PROVE  /\ raddr_q' \in Bucket /\ rd_stage_q' \in 0 .. 2
         /\ rd_bucket' \in BucketWord
         /\ WritesIdle' /\ ReadLatency'
         /\ UNCHANGED <<state_q, dump_idx_q, last_valid_q>>
  <1>0. TypeOK /\ ~wen_q
    BY DEF IInv, WritesIdle
  <1>1. /\ rd_stage_q # 2 /\ rd_stage_q' = rd_stage_q + 1
        /\ raddr_q' = IF rd_stage_q = 0 THEN dump_idx_q ELSE raddr_q
        /\ UNCHANGED <<state_q, dump_idx_q, last_valid_q>>
    BY DEF AwaitDump
  <1>2. bucket_mem' = bucket_mem
    BY <1>0 DEF WritePort
  <1>3. rd_bucket' = bucket_mem[raddr_q] /\ rd_bucket' \in BucketWord
    BY <1>0 DEF ReadPort, TypeOK
  <1>4. raddr_q' \in Bucket /\ rd_stage_q' \in 1 .. 2
    BY <1>0, <1>1 DEF TypeOK
  <1>5. raddr_q' = dump_idx_q' /\ (rd_stage_q' = 2 => rd_bucket' = bucket_mem'[raddr_q'])
    BY <1>0, <1>1, <1>2, <1>3 DEF IInv, ReadLatency, TypeOK
  <1>6. WritesIdle' /\ ReadLatency'
    BY <1>0, <1>1, <1>5 DEF WritesIdle, ReadLatency
  <1> QED BY <1>1, <1>3, <1>4, <1>6

LEMMA ScanKeeps ==
  ASSUME IInv, busy_q, ScanPass, WritePort, ReadPort,
         UNCHANGED <<sent, rows, groups, out>>
  PROVE  IInv'
  <1>0. TypeOK /\ state_q = "SCAN" /\ ~wen_q /\ dump_idx_q \in Bucket
        /\ sent \in Nat
    BY DEF IInv, ScanPass, WritesIdle, TypeOK
  <1>1. /\ UNCHANGED <<wen_q, waddr_q, wdata_q, busy_q, done_q, row_key_q,
                       row_val_q, row_last_q, probe_idx_q, probe_count_q,
                       clear_idx_q, present_hold_q, present_is_last_q,
                       present_out_q>>
    BY DEF ScanPass, writeVars, rowVars, probeVars, presentVars
  <1>2. DataTypes' /\ HistoryTypes' /\ FlagTypes'
    BY <1>0, <1>1, TypeParts DEF DataTypes, HistoryTypes, FlagTypes
  <1>3. RamTypes'
    BY <1>0, <1>1, SettledStep DEF TypeOK, ReadPort, RamTypes
  <1>4. SoundTable' /\ CountsUpTo(sent)' /\ groups' = TableGroups'
    <2>1. SoundTable /\ CountsUpTo(sent) /\ groups = TableGroups
      BY <1>0, TableIs DEF IInv, Mirrored
    <2> QED BY <1>0, <1>1, <2>1, TableSame DEF CountsUpTo
  <1>5. Gathering /\ Gathering'
    BY <1>0, <1>1, GatheringIs DEF Gathering
  <1>6. Settled' = Settled /\ ValidBuckets' = ValidBuckets
    BY <1>0, <1>1, TableSame
  <1>7. CASE AwaitDump
    <2>1. /\ raddr_q' \in Bucket /\ rd_stage_q' \in 0 .. 2
          /\ WritesIdle' /\ ReadLatency'
          /\ UNCHANGED <<state_q, dump_idx_q, last_valid_q>>
      BY <1>0, <1>1, <1>7, AwaitDumpReads
    <2>2. AddressTypes' /\ ControlTypes'
      BY <1>0, <1>1, <2>1 DEF TypeOK, AddressTypes, ControlTypes
    <2>3. ScanSeen'
      BY <1>0, <1>1, <1>6, <2>1 DEF IInv, ScanSeen
    <2> QED
      BY <1>0, <1>2, <1>3, <1>4, <1>5, <2>1, <2>2, <2>3, TypeParts, ScanPhase
  <1>8. CASE rd_stage_q = 2
    <2>1. /\ last_valid_q' = LastValid
          /\ IF dump_idx_q = BUCKETS - 1
             THEN /\ state_q' = "PRESENT" /\ dump_idx_q' = 0 /\ rd_stage_q' = 0
                  /\ raddr_q' = raddr_q
             ELSE IssueNext /\ state_q' = state_q
      BY <1>8 DEF ScanPass, AwaitDump
    <2>2. rd_bucket = Settled[dump_idx_q]
      BY <1>0, <1>8 DEF IInv, ReadLatency, Settled
    <2>3. /\ last_valid_q' \in Bucket
          /\ \A b \in Bucket : b <= dump_idx_q /\ Settled[b].valid =>
               /\ b <= last_valid_q' /\ last_valid_q' <= dump_idx_q
               /\ Settled[last_valid_q'].valid
      BY <1>0, <2>1, <2>2 DEF IInv, TypeOK, ScanSeen, LastValid, Bucket
    <2>4. CASE dump_idx_q = BUCKETS - 1
      <3>1. /\ state_q' = "PRESENT" /\ dump_idx_q' = 0 /\ rd_stage_q' = 0
            /\ raddr_q' = raddr_q
        BY <2>1, <2>4
      <3>2. AddressTypes' /\ ControlTypes'
        BY <1>0, <1>1, <2>3, <3>1, EmptyIsWord
        DEF TypeOK, AddressTypes, ControlTypes, States
      <3>3. WritesIdle' /\ ReadLatency'
        BY <1>0, <1>1, <3>1 DEF WritesIdle, ReadLatency
      <3>4. ScanSeen'
        BY <1>0, <1>6, <2>3, <2>4, <3>1, Sizes DEF ScanSeen, Bucket
      <3>5. out' = <<>> /\ ~present_hold_q' /\ ~done_q' /\ busy_q'
        BY <1>1, <1>5 DEF Gathering
      <3>6. Held'
        BY <3>5 DEF Held
      <3>7. Delivered'
        BY <2>3, <3>1, <3>5 DEF Delivered, Open, Bucket
      <3>8. OutDistinct'
            /\ OutGroups' = {GroupAt(b)' : b \in {c \in ValidBuckets' : c < dump_idx_q'}}
        <4>1. OutGroups' = {} /\ OutDistinct'
          BY <3>5 DEF OutGroups, OutDistinct
        <4>2. {c \in ValidBuckets' : c < dump_idx_q'} = {}
          BY <3>1 DEF ValidBuckets, Bucket
        <4> QED BY <4>1, <4>2
      <3>9. TypeOK'
        BY <1>2, <1>3, <3>2, TypeParts
      <3> QED
        BY <1>4, <3>1, <3>3, <3>4, <3>5, <3>6, <3>7, <3>8, <3>9, PresentPhase
    <2>5. CASE dump_idx_q # BUCKETS - 1
      <3>1. /\ state_q' = "SCAN" /\ dump_idx_q' = dump_idx_q + 1
            /\ raddr_q' = dump_idx_q' /\ rd_stage_q' = 1 /\ dump_idx_q' \in Bucket
        BY <1>0, <2>1, <2>5, BucketSuccIs DEF IssueNext, IssueRead
      <3>2. AddressTypes' /\ ControlTypes'
        BY <1>0, <1>1, <2>3, <3>1
        DEF TypeOK, AddressTypes, ControlTypes, States
      <3>3. WritesIdle' /\ ReadLatency'
        BY <1>0, <1>1, <3>1 DEF WritesIdle, ReadLatency
      <3>4. ScanSeen'
        BY <1>0, <1>6, <2>3, <3>1 DEF ScanSeen, Bucket
      <3>9. TypeOK'
        BY <1>2, <1>3, <3>2, TypeParts
      <3> QED BY <1>4, <1>5, <3>1, <3>3, <3>4, <3>9, ScanPhase
    <2> QED BY <2>4, <2>5
  <1> QED BY <1>7, <1>8 DEF ScanPass

\* The second pass is finished with a bucket: the next one, or the end of the
\* query, where everything has been delivered.
LEMMA AdvanceKeeps ==
  ASSUME IInv, TypeOK', busy_q, state_q = "PRESENT", AdvanceOrEnd,
         WritePort, ReadPort, ~wen_q', ~present_hold_q',
         UNCHANGED <<state_q, last_valid_q, sent, groups>>,
         OutGroups' = {GroupAt(b) : b \in {c \in ValidBuckets : c <= dump_idx_q}},
         OutDistinct',
         out' # <<>> => Settled[last_valid_q].valid,
         IF Settled[last_valid_q].valid /\ last_valid_q <= dump_idx_q
         THEN Closed' ELSE Open'
  PROVE  IInv'
  <1>0. TypeOK /\ dump_idx_q \in Bucket /\ last_valid_q \in Bucket /\ sent \in Nat
    BY DEF IInv, TypeOK
  <1>1. SoundTable /\ CountsUpTo(sent) /\ groups = TableGroups /\ ~done_q
    BY TableIs DEF IInv, Mirrored, DumpedSoFar
  <1>2. SoundTable' /\ CountsUpTo(sent)' /\ groups' = TableGroups'
    BY <1>0, <1>1, TableSame DEF CountsUpTo
  <1>3. Settled' = Settled /\ ValidBuckets' = ValidBuckets
        /\ \A b \in Bucket : GroupAt(b)' = GroupAt(b)
    BY <1>0, TableSame
  <1>4. CASE dump_idx_q = BUCKETS - 1
    <2>1. ~busy_q' /\ done_q'
      BY <1>4 DEF AdvanceOrEnd
    <2>2. {c \in ValidBuckets : c <= dump_idx_q} = ValidBuckets
      BY <1>4, Sizes DEF ValidBuckets, Bucket
    <2>3. OutGroups' = {groups[k] : k \in DOMAIN groups}
      <3>1. GroupsInBuckets
        BY <1>1, TableGroupsIs
      <3> QED BY <1>1, <2>2, <3>1 DEF GroupsInBuckets
    <2>4. GroupsDelivered'
      BY <2>3 DEF GroupsDelivered, OutGroups, OutDistinct
    <2>5. out' = <<>> \/ Closed'
      BY <1>0, <1>4, Sizes DEF Bucket
    <2> QED BY <2>1, <2>4, <2>5, IdleKeeps
  <1>5. CASE dump_idx_q # BUCKETS - 1
    <2>1. /\ dump_idx_q' = dump_idx_q + 1 /\ raddr_q' = dump_idx_q'
          /\ rd_stage_q' = 1 /\ busy_q' /\ ~done_q'
      BY <1>0, <1>1, <1>5, BucketSuccIs DEF AdvanceOrEnd, IssueNext, IssueRead
    <2>2. WritesIdle' /\ ReadLatency' /\ Held'
      BY <2>1 DEF WritesIdle, ReadLatency, Held
    <2>3. ScanSeen'
      BY <1>3 DEF IInv, ScanSeen
    <2>4. \A b \in Bucket : b <= dump_idx_q <=> b < dump_idx_q'
      BY <1>0, <2>1 DEF Bucket
    <2>5. Delivered'
      BY <1>0, <1>3, <2>1, <2>4 DEF Delivered
    <2>6. OutGroups' = {GroupAt(b)' : b \in {c \in ValidBuckets' : c < dump_idx_q'}}
      <3>1. {c \in ValidBuckets : c <= dump_idx_q} = {c \in ValidBuckets' : c < dump_idx_q'}
        BY <1>3, <2>4 DEF ValidBuckets
      <3>2. \A b \in {c \in ValidBuckets : c <= dump_idx_q} : GroupAt(b)' = GroupAt(b)
        BY <1>3 DEF ValidBuckets
      <3> QED BY <3>1, <3>2
    <2> QED BY <1>2, <2>1, <2>2, <2>3, <2>5, <2>6, PresentPhase
  <1> QED BY <1>4, <1>5
LEMMA AdvanceTyped ==
  ASSUME TypeOK, AdvanceOrEnd, WritePort, ReadPort,
         UNCHANGED <<wen_q, waddr_q, wdata_q, state_q, row_key_q, row_val_q,
                     row_last_q, probe_idx_q, probe_count_q, last_valid_q,
                     clear_idx_q, present_is_last_q, present_out_q, sent, rows,
                     groups>>,
         present_hold_q' \in BOOLEAN,
         out' \in Seq([group : Group, last : BOOLEAN])
  PROVE  TypeOK'
  <1>1. RamTypes'
    BY SettledStep DEF TypeOK, ReadPort, RamTypes
  <1>2. /\ dump_idx_q' \in Bucket /\ raddr_q' \in Bucket /\ rd_stage_q' \in 0 .. 2
    BY BucketSuccIs DEF TypeOK, AdvanceOrEnd, IssueNext, IssueRead
  <1>3. AddressTypes' /\ ControlTypes' /\ DataTypes' /\ HistoryTypes'
    BY <1>2, TypeParts DEF AddressTypes, ControlTypes, DataTypes, HistoryTypes
  <1>4. busy_q' \in BOOLEAN /\ done_q' \in BOOLEAN
    <2>1. \/ busy_q' = FALSE /\ done_q' = TRUE
          \/ UNCHANGED <<busy_q, done_q>>
      BY DEF AdvanceOrEnd
    <2> QED BY <2>1, TypeParts, Zenon DEF FlagTypes
  <1>5. FlagTypes'
    BY <1>4, TypeParts, Zenon DEF FlagTypes
  <1> QED BY <1>1, <1>3, <1>5, TypeParts

LEMMA HoldKeeps ==
  ASSUME IInv, busy_q, NEW m \in BOOLEAN, Hold(m), WritePort, ReadPort,
         UNCHANGED <<sent, rows, groups>>,
         out' = IF m_axis_tvalid /\ m
                THEN Append(out, [group |-> present_out_q, last |-> present_is_last_q])
                ELSE out
  PROVE  IInv'
  <1> DEFINE e == [group |-> present_out_q, last |-> present_is_last_q]
             n == Len(out)
  <1>0. /\ TypeOK /\ state_q = "PRESENT" /\ present_hold_q /\ m_axis_tvalid /\ ~wen_q
        /\ dump_idx_q \in Bucket /\ last_valid_q \in Bucket /\ sent \in Nat
    BY DEF IInv, TypeOK, Hold, WritesIdle, m_axis_tvalid
  <1>1. /\ UNCHANGED <<wen_q, waddr_q, wdata_q, state_q, row_key_q, row_val_q,
                       row_last_q, probe_idx_q, probe_count_q, last_valid_q,
                       clear_idx_q, present_is_last_q, present_out_q>>
        /\ present_hold_q' = ~m
    BY DEF Hold, writeVars, rowVars, probeVars
  <1>2. /\ SoundTable /\ CountsUpTo(sent) /\ groups = TableGroups /\ ~done_q
        /\ Settled[dump_idx_q].valid /\ dump_idx_q <= last_valid_q
        /\ Settled[last_valid_q].valid
        /\ present_is_last_q = (dump_idx_q = last_valid_q)
        /\ present_out_q = GroupAt(dump_idx_q)
        /\ dump_idx_q \in ValidBuckets
    BY <1>0, TableIs DEF IInv, Mirrored, DumpedSoFar, ScanSeen, Held, ValidBuckets
  <1>3. CASE ~m
    <2>1. out' = out /\ UNCHANGED <<dump_idx_q, raddr_q, rd_stage_q, busy_q, done_q>>
          /\ present_hold_q'
      BY <1>0, <1>1, <1>3 DEF Hold
    <2>2. RamTypes'
      BY <1>0, <1>1, SettledStep DEF TypeOK, ReadPort, RamTypes
    <2>3. AddressTypes' /\ ControlTypes' /\ DataTypes' /\ HistoryTypes'
      BY <1>0, <1>1, <2>1, TypeParts
      DEF AddressTypes, ControlTypes, DataTypes, HistoryTypes
    <2>4. FlagTypes'
      <3>1. present_hold_q' \in BOOLEAN
        BY <1>1, Zenon
      <3> QED BY <1>0, <1>1, <2>1, <3>1, TypeParts, Zenon DEF FlagTypes
    <2>5. TypeOK'
      BY <2>2, <2>3, <2>4, TypeParts
    <2>6. /\ Settled' = Settled /\ ValidBuckets' = ValidBuckets
          /\ bucket_mem' = bucket_mem
          /\ SoundTable' /\ CountsUpTo(sent)' /\ groups' = TableGroups'
          /\ \A b \in Bucket : GroupAt(b)' = GroupAt(b)
      BY <1>0, <1>1, <1>2, TableSame DEF CountsUpTo, WritePort
    <2>7. rd_bucket' = bucket_mem'[raddr_q']
      BY <2>1, <2>6 DEF ReadPort
    <2>8. WritesIdle' /\ ReadLatency'
      BY <1>0, <1>1, <2>1, <2>7 DEF IInv, WritesIdle, ReadLatency
    <2>9. ScanSeen' /\ Held'
      BY <1>0, <1>1, <2>1, <2>6 DEF IInv, ScanSeen, Held
    <2>10. Delivered'
      BY <1>0, <1>1, <2>1, <2>6 DEF IInv, Delivered, Closed, Open
    <2>11. OutDistinct'
           /\ OutGroups' = {GroupAt(b)' : b \in {c \in ValidBuckets' : c < dump_idx_q'}}
      <3>1. OutGroups' = OutGroups /\ (OutDistinct' <=> OutDistinct)
        BY <2>1 DEF OutGroups, OutDistinct
      <3>2. OutDistinct /\ OutGroups = {GroupAt(b) : b \in {c \in ValidBuckets : c < dump_idx_q}}
        BY <1>0 DEF IInv, DumpedSoFar
      <3>3. {c \in ValidBuckets : c < dump_idx_q} = {c \in ValidBuckets' : c < dump_idx_q'}
        BY <2>1, <2>6
      <3>4. \A b \in {c \in ValidBuckets : c < dump_idx_q} : GroupAt(b)' = GroupAt(b)
        BY <2>6 DEF ValidBuckets
      <3> QED BY <3>1, <3>2, <3>3, <3>4
    <2> QED
      BY <1>0, <1>1, <1>2, <2>1, <2>5, <2>6, <2>8, <2>9, <2>10, <2>11, PresentPhase
  <1>4. CASE m
    <2>1. out' = Append(out, e) /\ AdvanceOrEnd /\ present_hold_q' = FALSE
      BY <1>0, <1>1, <1>4 DEF Hold
    <2>2. e \in [group : Group, last : BOOLEAN]
          /\ out \in Seq([group : Group, last : BOOLEAN])
      BY <1>0 DEF TypeOK
    <2>3. /\ out' \in Seq([group : Group, last : BOOLEAN])
          /\ n \in Nat /\ Len(out') = n + 1
          /\ out'[n + 1] = e /\ \A i \in 1 .. n : out'[i] = out[i]
          /\ out' # <<>>
      <3> HIDE DEF e
      <3>1. n \in Nat /\ DOMAIN out = 1 .. n
        BY <2>2
      <3> DEFINE s == out
                 t == Append(s, e)
                 S == [group : Group, last : BOOLEAN]
      <3>2. t \in Seq(S) /\ t # <<>>
            /\ Len(t) = Len(s) + 1 /\ t[Len(s) + 1] = e
            /\ \A i \in 1 .. Len(s) : t[i] = s[i]
        <4>1. e \in S /\ s \in Seq(S)
          BY <2>2
        <4> HIDE DEF S, s
        <4> QED BY <4>1, AppendProperties
      <3>3. out' = t
        BY <2>1
      <3> HIDE DEF t
      <3> QED BY <3>1, <3>2, <3>3
    <2> HIDE DEF e
    <2>4. TypeOK'
      <3>1. present_hold_q' \in BOOLEAN
        BY <2>1, Zenon
      <3> QED BY <1>0, <1>1, <2>1, <2>3, <3>1, AdvanceTyped
    <2>5. OutDistinct
          /\ OutGroups = {GroupAt(b) : b \in {c \in ValidBuckets : c < dump_idx_q}}
      BY <1>0 DEF IInv, DumpedSoFar
    <2>6. e.group = GroupAt(dump_idx_q) /\ e.last = (dump_idx_q = last_valid_q)
      BY <1>2 DEF e
    <2>7. OutGroups' = OutGroups \cup {GroupAt(dump_idx_q)}
      BY <2>3, <2>6 DEF OutGroups
    <2>8. OutGroups' = {GroupAt(b) : b \in {c \in ValidBuckets : c <= dump_idx_q}}
      <3>1. {c \in ValidBuckets : c <= dump_idx_q} =
              {c \in ValidBuckets : c < dump_idx_q} \cup {dump_idx_q}
        BY <1>0, <1>2 DEF ValidBuckets, Bucket
      <3> QED BY <2>5, <2>7, <3>1
    <2>9. \A i \in 1 .. n : out[i].group.key # e.group.key
      <3> SUFFICES ASSUME NEW i \in 1 .. n PROVE out[i].group.key # e.group.key
        OBVIOUS
      <3>1. out[i].group \in OutGroups
        BY DEF OutGroups
      <3>2. PICK b \in ValidBuckets : b < dump_idx_q /\ out[i].group = GroupAt(b)
        BY <2>5, <3>1
      <3>3. b # dump_idx_q
        BY <1>0, <3>2 DEF ValidBuckets, Bucket
      <3>4. Settled[b].key # Settled[dump_idx_q].key
        BY <1>2, <3>3 DEF SoundTable
      <3> QED BY <2>6, <3>2, <3>4 DEF GroupAt
    <2>10. OutDistinct'
      <3> SUFFICES ASSUME NEW i \in 1 .. n + 1, NEW j \in 1 .. n + 1,
                          out'[i].group.key = out'[j].group.key
                   PROVE  i = j
        BY <2>3 DEF OutDistinct
      <3>1. CASE i = n + 1 /\ j = n + 1
        BY <3>1
      <3>2. CASE i \in 1 .. n /\ j \in 1 .. n
        BY <2>3, <2>5, <3>2 DEF OutDistinct
      <3>3. CASE i = n + 1 /\ j \in 1 .. n
        BY <2>3, <2>9, <3>3
      <3>4. CASE i \in 1 .. n /\ j = n + 1
        BY <2>3, <2>9, <3>4
      <3> QED BY <2>3, <3>1, <3>2, <3>3, <3>4
    <2>11. Open
      BY <1>0, <1>2 DEF IInv, Delivered, Bucket
    <2>12. IF Settled[last_valid_q].valid /\ last_valid_q <= dump_idx_q
           THEN Closed' ELSE Open'
      <3>1. CASE dump_idx_q = last_valid_q
        <4>1. Closed'
          BY <2>3, <2>6, <2>11, <3>1 DEF Open, Closed
        <4> QED BY <1>0, <1>2, <3>1, <4>1 DEF Bucket
      <3>2. CASE dump_idx_q # last_valid_q
        <4>1. Open'
          BY <2>3, <2>6, <2>11, <3>2 DEF Open
        <4> QED BY <1>0, <1>2, <3>2, <4>1 DEF Bucket
      <3> QED BY <3>1, <3>2
    <2> QED
      BY <1>0, <1>1, <1>2, <2>1, <2>4, <2>8, <2>10, <2>12, AdvanceKeeps
  <1> QED BY <1>3, <1>4

LEMMA PresentPassKeeps ==
  ASSUME IInv, busy_q, PresentPass, WritePort, ReadPort,
         UNCHANGED <<sent, rows, groups, out>>
  PROVE  IInv'
  <1>0. /\ TypeOK /\ state_q = "PRESENT" /\ ~present_hold_q /\ ~wen_q
        /\ dump_idx_q \in Bucket /\ last_valid_q \in Bucket /\ sent \in Nat
    BY DEF IInv, TypeOK, PresentPass, WritesIdle
  <1>1. UNCHANGED <<wen_q, waddr_q, wdata_q, row_key_q, row_val_q,
                    row_last_q, probe_idx_q, probe_count_q, clear_idx_q>>
    BY DEF PresentPass, writeVars, rowVars, probeVars
  <1>2. /\ SoundTable /\ CountsUpTo(sent) /\ groups = TableGroups /\ ~done_q
        /\ OutDistinct
        /\ OutGroups = {GroupAt(b) : b \in {c \in ValidBuckets : c < dump_idx_q}}
    BY <1>0, TableIs DEF IInv, Mirrored, DumpedSoFar
  <1>3. /\ Settled' = Settled /\ ValidBuckets' = ValidBuckets
        /\ bucket_mem' = bucket_mem
        /\ SoundTable' /\ CountsUpTo(sent)' /\ groups' = TableGroups'
        /\ \A b \in Bucket : GroupAt(b)' = GroupAt(b)
    BY <1>0, <1>1, <1>2, TableSame DEF CountsUpTo, WritePort
  <1>4. RamTypes'
    BY <1>0, <1>1, SettledStep DEF TypeOK, ReadPort, RamTypes
  <1>5. OutGroups' = OutGroups /\ OutDistinct'
    BY <1>2 DEF OutGroups, OutDistinct
  <1>6. ASSUME UNCHANGED dump_idx_q
        PROVE  OutGroups' = {GroupAt(b)' : b \in {c \in ValidBuckets' : c < dump_idx_q'}}
    <2>1. {c \in ValidBuckets : c < dump_idx_q} = {c \in ValidBuckets' : c < dump_idx_q'}
      BY <1>3, <1>6
    <2>2. \A b \in {c \in ValidBuckets : c < dump_idx_q} : GroupAt(b)' = GroupAt(b)
      BY <1>3 DEF ValidBuckets
    <2> QED BY <1>2, <1>5, <2>1, <2>2
  <1>7. CASE AwaitDump /\ UNCHANGED <<busy_q, done_q, presentVars>>
    <2>1. UNCHANGED <<busy_q, done_q, present_hold_q, present_is_last_q, present_out_q>>
      BY <1>7 DEF presentVars
    <2>2. /\ raddr_q' \in Bucket /\ rd_stage_q' \in 0 .. 2
          /\ WritesIdle' /\ ReadLatency'
          /\ UNCHANGED <<state_q, dump_idx_q, last_valid_q>>
      BY <1>0, <1>1, <1>7, <2>1, AwaitDumpReads
    <2>3. AddressTypes' /\ ControlTypes' /\ DataTypes' /\ HistoryTypes' /\ FlagTypes'
      BY <1>0, <1>1, <2>1, <2>2, TypeParts
      DEF TypeOK, AddressTypes, ControlTypes, DataTypes, HistoryTypes, FlagTypes
    <2>4. TypeOK'
      BY <1>4, <2>3, TypeParts
    <2>5. ScanSeen' /\ Held'
      BY <1>0, <1>3, <2>1, <2>2 DEF IInv, ScanSeen, Held
    <2>6. Delivered'
      BY <1>0, <1>3, <2>1, <2>2 DEF IInv, Delivered, Closed, Open
    <2> QED
      BY <1>0, <1>2, <1>3, <1>5, <1>6, <2>1, <2>2, <2>4, <2>5, <2>6, PresentPhase
  <1>8. CASE /\ rd_stage_q = 2 /\ rd_bucket.valid
             /\ present_hold_q' = TRUE
             /\ present_is_last_q' = (dump_idx_q = last_valid_q)
             /\ present_out_q' = [f \in DOMAIN NoGroup |-> rd_bucket[f]]
             /\ UNCHANGED <<state_q, dump_idx_q, raddr_q, rd_stage_q, busy_q,
                            done_q, last_valid_q>>
    <2>1. rd_bucket = Settled[dump_idx_q] /\ rd_bucket \in BucketWord
      BY <1>0, <1>8 DEF IInv, ReadLatency, Settled, TypeOK
    <2>2. present_out_q' = GroupAt(dump_idx_q) /\ present_out_q' \in Group
      <3>1. DOMAIN NoGroup = {"key", "count", "sum", "min", "max"}
        BY DEF NoGroup
      <3>2. present_out_q' = [key |-> rd_bucket.key, count |-> rd_bucket.count,
                              sum |-> rd_bucket.sum, min |-> rd_bucket.min,
                              max |-> rd_bucket.max]
        BY <1>8, <3>1
      <3> QED BY <2>1, <3>2 DEF GroupAt, Group, BucketWord
    <2>3. AddressTypes' /\ ControlTypes' /\ DataTypes' /\ HistoryTypes'
      BY <1>0, <1>1, <1>8, <2>2, TypeParts
      DEF AddressTypes, ControlTypes, DataTypes, HistoryTypes
    <2>4. FlagTypes'
      <3>1. present_is_last_q' \in BOOLEAN /\ present_hold_q' \in BOOLEAN
        BY <1>8, Zenon
      <3>2. UNCHANGED <<wen_q, busy_q, done_q, row_last_q>>
        BY <1>1, <1>8
      <3> QED BY <1>0, <3>1, <3>2, TypeParts, Zenon DEF FlagTypes
    <2>5. TypeOK'
      BY <1>4, <2>3, <2>4, TypeParts
    <2>6. rd_bucket' = bucket_mem'[raddr_q']
      BY <1>3, <1>8 DEF ReadPort
    <2>7. WritesIdle' /\ ReadLatency'
      BY <1>0, <1>1, <1>8, <2>6 DEF IInv, WritesIdle, ReadLatency
    <2>8. ScanSeen'
      BY <1>0, <1>3, <1>8 DEF IInv, ScanSeen
    <2>9. Held'
      BY <1>0, <1>3, <1>8, <2>1, <2>2 DEF Held
    <2>10. Delivered'
      BY <1>0, <1>3, <1>8 DEF IInv, Delivered, Closed, Open
    <2> QED
      BY <1>0, <1>2, <1>3, <1>5, <1>6, <1>8, <2>5, <2>7, <2>8, <2>9, <2>10, PresentPhase
  <1>9. CASE /\ rd_stage_q = 2 /\ ~rd_bucket.valid
             /\ AdvanceOrEnd
             /\ UNCHANGED <<state_q, last_valid_q, presentVars>>
    <2>1. UNCHANGED <<state_q, last_valid_q, present_hold_q, present_is_last_q, present_out_q>>
      BY <1>9 DEF presentVars
    <2>2. ~Settled[dump_idx_q].valid
      BY <1>0, <1>9 DEF IInv, ReadLatency, Settled
    <2>3. TypeOK'
      <3>1. present_hold_q' \in BOOLEAN
        BY <1>0, <2>1 DEF TypeOK
      <3>2. out' \in Seq([group : Group, last : BOOLEAN])
        BY <1>0 DEF TypeOK
      <3> QED BY <1>0, <1>1, <1>9, <2>1, <3>1, <3>2, AdvanceTyped
    <2>4. {c \in ValidBuckets : c <= dump_idx_q} = {c \in ValidBuckets : c < dump_idx_q}
      BY <1>0, <2>2 DEF ValidBuckets, Bucket
    <2>5. out' # <<>> => Settled[last_valid_q].valid
      BY <1>0 DEF IInv, Delivered
    <2>6. IF Settled[last_valid_q].valid /\ last_valid_q <= dump_idx_q
          THEN Closed' ELSE Open'
      <3>1. Settled[last_valid_q].valid /\ last_valid_q <= dump_idx_q
              <=> Settled[last_valid_q].valid /\ last_valid_q < dump_idx_q
        BY <1>0, <2>2 DEF Bucket
      <3> QED BY <1>0, <3>1 DEF IInv, Delivered, Closed, Open
    <2> QED
      BY <1>0, <1>1, <1>2, <1>5, <1>9, <2>1, <2>3, <2>4, <2>5, <2>6, AdvanceKeeps
  <1> QED BY <1>7, <1>8, <1>9 DEF PresentPass



-----------------------------------------------------------------------------
(* The specification *)

LEMMA TickKeeps ==
  ASSUME IInv, NEW m \in BOOLEAN, Tick(m)
  PROVE  IInv'
  <1>0. /\ WritePort /\ ReadPort
        /\ UNCHANGED <<sent, rows, groups>>
        /\ out' = IF m_axis_tvalid /\ m
                  THEN Append(out, [group |-> present_out_q,
                                    last |-> present_is_last_q])
                  ELSE out
    BY TickCases
  <1>1. CASE ~busy_q
    BY <1>1, QuietKeeps
  <1>2. CASE busy_q /\ state_q = "PRESENT"
    <2>1. CASE Hold(m)
      BY <1>0, <1>2, <2>1, HoldKeeps
    <2>2. CASE PresentPass
      <3>1. out' = out
        BY <1>0, <2>2 DEF PresentPass, m_axis_tvalid
      <3> QED BY <1>0, <1>2, <2>2, <3>1, PresentPassKeeps
    <2> QED
      BY <1>2, <2>1, <2>2, TickCases
      DEF Clear, AcceptRow, AwaitBucket, Probe, Update, WriteDone, ScanPass
  <1>3. CASE busy_q /\ state_q # "PRESENT"
    <2>0. UNCHANGED <<sent, rows, groups, out>>
      BY <1>0, <1>3 DEF m_axis_tvalid
    <2>1. CASE Clear
      BY <1>0, <1>3, <2>0, <2>1, ClearKeeps
    <2>2. CASE AcceptRow(FALSE, FALSE, 0, 0, FALSE)
      <3>1. /\ sent' \in 0 .. RowLimit /\ sent <= sent'
            /\ rows' \in Seq([key : Keys, val : Vals])
        BY <2>0, Sizes DEF IInv, TypeOK
      <3>2. \A s, p, l \in BOOLEAN : ~s /\ AcceptRow(s, p, 0, 0, l) => IInv'
        <4> SUFFICES ASSUME NEW s \in BOOLEAN, NEW p \in BOOLEAN, NEW l \in BOOLEAN,
                            ~s, AcceptRow(s, p, 0, 0, l)
                     PROVE  IInv'
          OBVIOUS
        <4> QED BY <1>0, <1>3, <2>0, <3>1, PassOverKeeps
      <3> QED BY <2>2, <3>2
    <2>3. CASE AwaitBucket
      BY <1>0, <1>3, <2>0, <2>3, AwaitKeeps
    <2>4. CASE Probe
      <3>1. CASE probe_count_q = BUCKETS
        BY <1>0, <1>3, <2>0, <2>4, <3>1, DropKeeps
      <3>2. CASE probe_count_q # BUCKETS
        BY <1>0, <1>3, <2>0, <2>4, <3>2, CollideKeeps
      <3> QED BY <3>1, <3>2
    <2>5. CASE Update
      BY <1>0, <1>3, <2>0, <2>5, UpdateKeeps
    <2>6. CASE WriteDone
      BY <1>0, <1>3, <2>0, <2>6, WriteDoneKeeps
    <2>7. CASE ScanPass
      BY <1>0, <1>3, <2>0, <2>7, ScanKeeps
    <2> QED
      BY <1>3, <2>1, <2>2, <2>3, <2>4, <2>5, <2>6, <2>7, TickCases
      DEF Hold, PresentPass
  <1> QED BY <1>1, <1>2, <1>3

LEMMA StutterKeeps ==
  ASSUME IInv, UNCHANGED vars
  PROVE  IInv'
  <1>1. UNCHANGED <<bucket_mem, rd_bucket, raddr_q, wen_q, waddr_q, wdata_q,
                    state_q, busy_q, done_q, rd_stage_q, row_key_q, row_val_q,
                    row_last_q, probe_idx_q, probe_count_q, dump_idx_q,
                    last_valid_q, clear_idx_q, present_hold_q,
                    present_is_last_q, present_out_q, sent, rows, groups, out>>
    BY DEF vars, gbVars, ramVars, writeVars, rowVars, probeVars, presentVars
  <1>2. Settled' = Settled
    BY <1>1 DEF Settled
  <1>3. ValidBuckets' = ValidBuckets
    BY <1>2 DEF ValidBuckets
  <1>4. TableGroups' = TableGroups
    <2>1. TableKeys' = TableKeys
      BY <1>2, <1>3, Zenon DEF TableKeys
    <2> QED BY <1>2, <1>3, <2>1, Zenon DEF TableGroups, GroupAt
  <1>5. TypeOK'
    BY <1>1, TypeParts
    DEF IInv, RamTypes, AddressTypes, ControlTypes, FlagTypes, DataTypes, HistoryTypes
  <1>6. WritesIdle' /\ ReadLatency' /\ Swept' /\ ScanSeen'
    BY <1>1, <1>2 DEF IInv, WritesIdle, ReadLatency, Swept, ScanSeen
  <1>7. KeysKnown' /\ TableSound' /\ CountsBounded'
    BY <1>1, <1>2, <1>3 DEF IInv, KeysKnown, TableSound, CountsBounded
  <1>8. Mirrored'
    <2>1. Absorbed(TableGroups, row_key_q, row_val_q)' = Absorbed(TableGroups, row_key_q, row_val_q)
      BY <1>1, <1>4, Zenon DEF Absorbed, Joined, Opened, Clip
    <2> QED BY <1>1, <1>4, <2>1 DEF IInv, Mirrored
  <1>9. Probed' /\ ProbeCounted'
    BY <1>1, <1>2 DEF IInv, Probed, ProbeCounted
  <1>10. Held'
    BY <1>1, <1>2, Zenon DEF IInv, Held, GroupAt
  <1>11. Delivered'
    BY <1>1, <1>2 DEF IInv, Delivered, Closed, Open
  <1>12. DumpedSoFar'
    <2>1. OutGroups' = OutGroups /\ (OutDistinct' <=> OutDistinct)
      BY <1>1 DEF OutGroups, OutDistinct
    <2>2. GroupsDelivered' <=> GroupsDelivered
      <3>1. {groups[k] : k \in DOMAIN groups}' = {groups[k] : k \in DOMAIN groups}
        BY <1>1
      <3>2. GroupsDelivered <=>
              (done_q => OutGroups = {groups[k] : k \in DOMAIN groups} /\ OutDistinct)
        BY DEF GroupsDelivered, OutGroups, OutDistinct
      <3>3. GroupsDelivered' <=>
              (done_q' => OutGroups' = {groups[k] : k \in DOMAIN groups}' /\ OutDistinct')
        BY DEF GroupsDelivered, OutGroups, OutDistinct
      <3> QED BY <1>1, <2>1, <3>1, <3>2, <3>3
    <2>3. {GroupAt(b)' : b \in {c \in ValidBuckets' : c < dump_idx_q'}}
            = {GroupAt(b) : b \in {c \in ValidBuckets : c < dump_idx_q}}
      BY <1>1, <1>2, <1>3, Zenon DEF GroupAt
    <2> QED BY <1>1, <2>1, <2>2, <2>3 DEF IInv, DumpedSoFar
  <1> QED
    BY <1>5, <1>6, <1>7, <1>8, <1>9, <1>10, <1>11, <1>12 DEF IInv

LEMMA IInvInductive == IInv /\ [Next]_vars => IInv'
  <1> SUFFICES ASSUME IInv, [Next]_vars PROVE IInv'
    OBVIOUS
  <1>1. CASE Reset
    BY <1>1, ResetKeeps
  <1>2. CASE Start
    BY <1>2, StartKeeps
  <1>3. CASE \E pass, last \in BOOLEAN, k \in Keys, v \in Vals : Beat(pass, k, v, last)
    BY <1>3, BeatKeeps
  <1>4. CASE \E mReady \in BOOLEAN : Tick(mReady)
    BY <1>4, TickKeeps
  <1>5. CASE UNCHANGED vars
    BY <1>5, StutterKeeps
  <1> QED BY <1>1, <1>2, <1>3, <1>4, <1>5 DEF Next

\* The invariant above holds of every behaviour.
THEOREM GroupByInv == Spec => []IInv
  <1>1. Init => IInv
    BY InitKeeps
  <1>2. IInv /\ [Next]_vars => IInv'
    BY IInvInductive
  <1> QED BY <1>1, <1>2, PTL DEF Spec

-----------------------------------------------------------------------------
(* Sums over sets of rows.  GroupOf adds up values in the order in which     *)
(* CHOOSE takes the rows; that the order does not matter, and that one more  *)
(* row adds its value, is an induction over sets of positions.  It is taken  *)
(* from the well-founded order of the naturals, by a smallest                *)
(* counterexample.                                                           *)

\* The sum of the values of the rows of rs at the positions S, as GroupOf
\* takes it.
Total(rs, S) == MapThenSumSet(LAMBDA i : rs[i].val, S)

\* The position that the sum takes first.
First(s) == CHOOSE x \in s : TRUE

\* h sums every set of the positions S.
SumsSets(h, rs, S) ==
  h = [s \in SUBSET S |->
         IF s = {} THEN 0 ELSE rs[First(s)].val + h[s \ {First(s)}]]

\* rs and rq hold the same values at the positions S.
SameValues(rs, rq, S) == \A i \in S : rs[i].val = rq[i].val
NatValues(rs, S) == \A i \in S : rs[i].val \in Nat

\* A nonempty set of naturals has a least element.
LEMMA LeastNat ==
  ASSUME NEW T, T \subseteq Nat, T # {}
  PROVE  \E n \in T : \A m \in T : n <= m
  <1> DEFINE R == OpToRel(<, Nat)
  <1>1. IsWellFoundedOn(R, Nat)
    BY NatLessThanWellFounded
  <1>3. \A x, y \in Nat : <<y, x>> \in R <=> y < x
    BY DEF OpToRel
  <1> HIDE DEF R
  <1>2. PICK n \in T : \A m \in T : ~ (<<m, n>> \in R)
    BY <1>1, WFMin
  <1>4. ASSUME NEW m \in T PROVE n <= m
    <2>1. n \in Nat /\ m \in Nat
      OBVIOUS
    <2>2. ~ (m < n)
      BY <2>1, <1>2, <1>3
    <2> QED BY <2>1, <2>2
  <1> QED BY <1>4

\* A nonempty collection of subsets of a finite set has a member that leaves
\* the collection when any one of its elements is taken out.
LEMMA SmallestSet ==
  ASSUME NEW S, IsFiniteSet(S), NEW B, B \subseteq SUBSET S, B # {}
  PROVE  \E s \in B : \A x \in s : s \ {x} \notin B
  <1> DEFINE T == {Cardinality(s) : s \in B}
  <1>1. ASSUME NEW s \in B
        PROVE  /\ IsFiniteSet(s) /\ Cardinality(s) \in Nat
               /\ \A x \in s : Cardinality(s \ {x}) = Cardinality(s) - 1
    <2>1. IsFiniteSet(s)
      BY FS_Subset
    <2>2. Cardinality(s) \in Nat
      BY <2>1, FS_CardinalityType
    <2>3. \A x \in s : Cardinality(s \ {x}) = Cardinality(s) - 1
      BY <2>1, FS_RemoveElement
    <2> QED BY <2>1, <2>2, <2>3
  <1>2. T \subseteq Nat /\ T # {}
    BY <1>1
  <1>3. PICK n \in T : \A m \in T : n <= m
    BY <1>2, LeastNat
  <1>4. PICK s \in B : Cardinality(s) = n
    OBVIOUS
  <1>5. ASSUME NEW x \in s, s \ {x} \in B PROVE FALSE
    <2>1. Cardinality(s \ {x}) \in T
      BY <1>5
    <2>2. Cardinality(s) <= Cardinality(s \ {x})
      BY <2>1, <1>3, <1>4
    <2> QED BY <2>2, <1>1
  <1> QED BY <1>5

\* The sum unfolds to a function of the sets of positions.
LEMMA TotalUnfolds ==
  ASSUME NEW rs, NEW S
  PROVE  Total(rs, S) = (CHOOSE h : SumsSets(h, rs, S))[S]
  BY DEF Total, MapThenSumSet, MapThenFoldSet, SumsSets, First

\* Two such functions agree where they speak of the same values.
LEMMA SumsAgree ==
  ASSUME NEW rs, NEW rq, NEW S, NEW T, IsFiniteSet(S), S \subseteq T,
         SameValues(rs, rq, S), NEW h, NEW g, SumsSets(h, rs, S), SumsSets(g, rq, T)
  PROVE  \A s \in SUBSET S : h[s] = g[s]
  <1> DEFINE B == {s \in SUBSET S : h[s] # g[s]}
  <1> SUFFICES ASSUME B # {} PROVE FALSE
    OBVIOUS
  <1>1. PICK s \in B : \A x \in s : s \ {x} \notin B
    BY SmallestSet
  <1>2. s \in SUBSET S /\ s \in SUBSET T /\ h[s] # g[s]
    OBVIOUS
  <1>3. /\ h[s] = IF s = {} THEN 0 ELSE rs[First(s)].val + h[s \ {First(s)}]
        /\ g[s] = IF s = {} THEN 0 ELSE rq[First(s)].val + g[s \ {First(s)}]
    BY <1>2 DEF SumsSets
  <1>4. CASE s = {}
    BY <1>2, <1>3, <1>4
  <1>5. CASE s # {}
    <2>1. First(s) \in s
      BY <1>5 DEF First
    <2>2. s \ {First(s)} \in SUBSET S /\ s \ {First(s)} \notin B
      BY <2>1, <1>1, <1>2
    <2>3. h[s \ {First(s)}] = g[s \ {First(s)}]
      BY <2>2
    <2>4. rs[First(s)].val = rq[First(s)].val
      BY <2>1, <1>2 DEF SameValues
    <2> QED BY <1>2, <1>3, <1>5, <2>3, <2>4
  <1> QED BY <1>4, <1>5

\* There is one function for one sequence and one set.
LEMMA SumsUnique ==
  ASSUME NEW rs, NEW S, IsFiniteSet(S),
         NEW h, NEW g, SumsSets(h, rs, S), SumsSets(g, rs, S)
  PROVE  h[S] = g[S]
  <1> DEFINE B == {s \in SUBSET S : h[s] # g[s]}
  <1> SUFFICES ASSUME B # {} PROVE FALSE
    OBVIOUS
  <1>1. PICK s \in B : \A x \in s : s \ {x} \notin B
    BY SmallestSet
  <1>2. s \in SUBSET S /\ h[s] # g[s]
    OBVIOUS
  <1>3. /\ h[s] = IF s = {} THEN 0 ELSE rs[First(s)].val + h[s \ {First(s)}]
        /\ g[s] = IF s = {} THEN 0 ELSE rs[First(s)].val + g[s \ {First(s)}]
    BY <1>2 DEF SumsSets
  <1>4. s # {}
    BY <1>2, <1>3
  <1>5. First(s) \in s
    BY <1>4 DEF First
  <1>6. s \ {First(s)} \in SUBSET S /\ s \ {First(s)} \notin B
    BY <1>1, <1>2, <1>5
  <1> QED BY <1>2, <1>3, <1>4, <1>6


\* There is such a function for every finite set of positions.
LEMMA SumsExist ==
  ASSUME NEW rs, NEW S, IsFiniteSet(S)
  PROVE  \E h : SumsSets(h, rs, S)
  <1> DEFINE B == {s \in SUBSET S : ~ \E h : SumsSets(h, rs, s)}
  <1> SUFFICES ASSUME B # {} PROVE FALSE
    OBVIOUS
  <1>1. PICK s \in B : \A x \in s : s \ {x} \notin B
    BY SmallestSet
  <1>2. s \in SUBSET S /\ IsFiniteSet(s) /\ ~ \E h : SumsSets(h, rs, s)
    BY FS_Subset
  <1>3. CASE s = {}
    <2> DEFINE h == [t \in SUBSET {} |-> 0]
    <2>1. \A t \in SUBSET {} : t = {}
      OBVIOUS
    <2>2. SumsSets(h, rs, {})
      BY <2>1 DEF SumsSets
    <2> QED BY <1>2, <1>3, <2>2
  <1>4. CASE s # {}
    <2>1. ASSUME NEW x \in s
          PROVE  \E g : SumsSets(g, rs, s \ {x})
      <3>1. s \ {x} \in SUBSET S /\ s \ {x} \notin B
        BY <1>1, <1>2
      <3> QED BY <3>1
    <2> DEFINE G(x) == CHOOSE g : SumsSets(g, rs, s \ {x})
               Out(t) == CHOOSE x \in s : x \notin t
               p == First(s)
               h == [t \in SUBSET s |->
                       IF t = s THEN rs[p].val + G(p)[s \ {p}] ELSE G(Out(t))[t]]
    <2>2. p \in s
      BY <1>4 DEF First
    <2>3. \A x \in s : SumsSets(G(x), rs, s \ {x})
      BY <2>1
    <2> HIDE DEF G
    <2>4. ASSUME NEW x \in s, NEW y \in s, NEW t \in SUBSET s, x \notin t, y \notin t
          PROVE  G(x)[t] = G(y)[t]
      <3> DEFINE U == s \ {x, y}
      <3>1. \A z \in {x, y} : SumsSets(G(z), rs, s \ {z}) /\ U \subseteq s \ {z}
        BY <2>3
      <3>2. IsFiniteSet(U) /\ IsFiniteSet(s \ {x}) /\ IsFiniteSet(s \ {y})
        BY <1>2, FS_Subset
      <3>3. PICK g : g = [v \in SUBSET U |-> G(x)[v]]
        OBVIOUS
      <3>4. SumsSets(g, rs, U)
        <4>1. ASSUME NEW v \in SUBSET U
              PROVE  G(x)[v] = IF v = {} THEN 0
                               ELSE rs[First(v)].val + g[v \ {First(v)}]
          <5>1. v \in SUBSET (s \ {x}) /\ v \ {First(v)} \in SUBSET U
            OBVIOUS
          <5>2. G(x)[v] = IF v = {} THEN 0
                          ELSE rs[First(v)].val + G(x)[v \ {First(v)}]
            BY <3>1, <5>1 DEF SumsSets
          <5> QED BY <5>1, <5>2, <3>3
        <4> QED BY <4>1, <3>3 DEF SumsSets
      <3> HIDE DEF U
      <3>5. t \in SUBSET U
        BY <2>4 DEF U
      <3>6. g[t] = G(x)[t] /\ g[t] = G(y)[t]
        <4>1. \A v \in SUBSET U : g[v] = G(x)[v]
          BY <3>3
        <4>2. \A v \in SUBSET U : g[v] = G(y)[v]
          BY <3>1, <3>2, <3>4, SumsAgree DEF SameValues
        <4> QED BY <4>1, <4>2, <3>5
      <3> QED BY <3>6
    <2>5. ASSUME NEW t \in SUBSET s, t # s
          PROVE  Out(t) \in s /\ Out(t) \notin t /\ h[t] = G(Out(t))[t]
      <3>1. \E x \in s : x \notin t
        BY <2>5
      <3>2. Out(t) \in s /\ Out(t) \notin t
        BY <3>1
      <3> QED BY <3>2, <2>5
    <2>6. h[s] = rs[p].val + G(p)[s \ {p}]
      OBVIOUS
    <2>7. h = [t \in SUBSET s |-> h[t]]
      OBVIOUS
    <2> HIDE DEF h, Out
    <2>8. ASSUME NEW t \in SUBSET s, NEW x \in s, x \notin t
          PROVE  h[t] = G(x)[t]
      BY <2>8, <2>5, <2>4
    <2>9. ASSUME NEW t \in SUBSET s
          PROVE  h[t] = IF t = {} THEN 0 ELSE rs[First(t)].val + h[t \ {First(t)}]
      <3>1. CASE t = s
        <4>1. s \ {p} \in SUBSET s /\ p \notin s \ {p}
          OBVIOUS
        <4>2. h[s \ {p}] = G(p)[s \ {p}]
          BY <4>1, <2>2, <2>8
        <4> QED BY <3>1, <4>2, <2>6, <1>4
      <3>2. CASE t # s
        <4>1. PICK x \in s : x \notin t
          BY <3>2
        <4>2. t \ {First(t)} \in SUBSET s /\ x \notin t \ {First(t)}
              /\ t \in SUBSET (s \ {x})
          BY <4>1
        <4>3. h[t] = G(x)[t] /\ h[t \ {First(t)}] = G(x)[t \ {First(t)}]
          BY <4>1, <4>2, <2>8
        <4>4. G(x)[t] = IF t = {} THEN 0
                        ELSE rs[First(t)].val + G(x)[t \ {First(t)}]
          BY <4>1, <4>2, <2>3 DEF SumsSets
        <4> QED BY <4>3, <4>4
      <3> QED BY <3>1, <3>2
    <2>10. SumsSets(h, rs, s)
      BY <2>7, <2>9 DEF SumsSets
    <2> QED BY <1>2, <2>10
  <1> QED BY <1>3, <1>4

\* A position more adds its value, whichever order the sum takes.
LEMMA SumsAdd ==
  ASSUME NEW rs, NEW S, IsFiniteSet(S), \A i \in S : rs[i].val \in Nat,
         NEW h, SumsSets(h, rs, S)
  PROVE  /\ \A s \in SUBSET S : h[s] \in Nat
         /\ \A s \in SUBSET S : \A a \in S \ s : h[s \cup {a}] = h[s] + rs[a].val
  <1>0. ASSUME NEW s \in SUBSET S
        PROVE  h[s] = IF s = {} THEN 0 ELSE rs[First(s)].val + h[s \ {First(s)}]
    BY DEF SumsSets
  <1>f. \A s \in SUBSET S : s # {} => First(s) \in s
    BY DEF First
  <1>1. ASSUME NEW s \in SUBSET S PROVE h[s] \in Nat
    <2> DEFINE B == {t \in SUBSET S : h[t] \notin Nat}
    <2> SUFFICES ASSUME B # {} PROVE FALSE
      OBVIOUS
    <2>1. PICK t \in B : \A x \in t : t \ {x} \notin B
      BY SmallestSet
    <2>2. CASE t = {}
      <3>1. {} \in SUBSET S
        OBVIOUS
      <3>2. h[{}] = 0
        BY <3>1, <1>0
      <3> QED BY <2>2, <3>2
    <2>3. CASE t # {}
      <3>1. First(t) \in t /\ t \ {First(t)} \in SUBSET S
        BY <2>3, <1>f
      <3>2. h[t \ {First(t)}] \in Nat /\ rs[First(t)].val \in Nat
        BY <3>1, <2>1
      <3>3. h[t] = rs[First(t)].val + h[t \ {First(t)}]
        BY <1>0, <2>3
      <3> QED BY <3>2, <3>3
    <2> QED BY <2>2, <2>3
  <1>2. ASSUME NEW s \in SUBSET S, NEW a \in S \ s
        PROVE  h[s \cup {a}] = h[s] + rs[a].val
    <2> DEFINE B == {t \in SUBSET S : \E b \in S \ t : h[t \cup {b}] # h[t] + rs[b].val}
    <2> SUFFICES ASSUME B # {} PROVE FALSE
      OBVIOUS
    <2>1. PICK t \in B : \A x \in t : t \ {x} \notin B
      BY SmallestSet
    <2>2. PICK b \in S \ t : h[t \cup {b}] # h[t] + rs[b].val
      OBVIOUS
    <2>h. ASSUME NEW x \in t, NEW c \in S \ (t \ {x})
          PROVE  h[(t \ {x}) \cup {c}] = h[t \ {x}] + rs[c].val
      <3>1. t \ {x} \notin B /\ t \ {x} \in SUBSET S
        BY <2>1
      <3> QED BY <3>1
    <2> DEFINE u == t \cup {b}
    <2>3. u \in SUBSET S /\ u # {}
      OBVIOUS
    <2>4. PICK x : x = First(u) /\ x \in u
      BY <2>3, <1>f
    <2>5. h[u] = rs[x].val + h[u \ {x}]
      BY <2>3, <2>4, <1>0
    <2>6. CASE x = b
      <3>1. u \ {x} = t
        BY <2>6
      <3>2. h[t] \in Nat /\ rs[b].val \in Nat
        BY <1>1
      <3>3. h[u] = rs[b].val + h[t]
        BY <2>5, <2>6, <3>1
      <3>4. rs[b].val + h[t] = h[t] + rs[b].val
        BY <3>2
      <3> QED BY <3>3, <3>4, <2>2
    <2>7. CASE x # b
      <3>1. x \in t /\ u \ {x} = (t \ {x}) \cup {b} /\ t = (t \ {x}) \cup {x}
        BY <2>7, <2>4
      <3>2. h[u \ {x}] = h[t \ {x}] + rs[b].val
        BY <3>1, <2>h
      <3>3. h[t] = h[t \ {x}] + rs[x].val
        <4>1. h[(t \ {x}) \cup {x}] = h[t \ {x}] + rs[x].val
          BY <3>1, <2>h
        <4> QED BY <4>1, <3>1
      <3>4. h[t \ {x}] \in Nat /\ rs[x].val \in Nat /\ rs[b].val \in Nat
        BY <3>1, <1>1
      <3>5. h[u] = h[t] + rs[b].val
        BY <2>5, <3>2, <3>3, <3>4
      <3> QED BY <3>5, <2>2
    <2> QED BY <2>6, <2>7
  <1> QED BY <1>1, <1>2

\* What the total of the rows at a set of positions is made of.
LEMMA TotalOfNone == \A rs : Total(rs, {}) = 0
  <1> TAKE rs
  <1>1. PICK h : SumsSets(h, rs, {}) /\ Total(rs, {}) = h[{}]
    <2>1. \E x : SumsSets(x, rs, {})
      BY SumsExist, FS_EmptySet
    <2> QED BY <2>1, TotalUnfolds
  <1> QED BY <1>1 DEF SumsSets

LEMMA TotalOfMore ==
  ASSUME NEW rs, NEW rq, NEW S, IsFiniteSet(S), NEW a, a \notin S,
         NatValues(rs, S), SameValues(rs, rq, S),
         rq[a].val \in Nat
  PROVE  /\ Total(rs, S) \in Nat
         /\ Total(rq, S) = Total(rs, S)
         /\ Total(rq, S \cup {a}) = Total(rs, S) + rq[a].val
  <1> DEFINE U == S \cup {a}
  <1>1. IsFiniteSet(U) /\ S \subseteq U /\ S \in SUBSET U /\ a \in U \ S
    BY FS_AddElement
  <1>2. PICK h : SumsSets(h, rs, S) /\ Total(rs, S) = h[S]
    <2>1. \E x : SumsSets(x, rs, S)
      BY SumsExist
    <2> QED BY <2>1, TotalUnfolds
  <1>3. PICK f : SumsSets(f, rq, S) /\ Total(rq, S) = f[S]
    <2>1. \E x : SumsSets(x, rq, S)
      BY SumsExist
    <2> QED BY <2>1, TotalUnfolds
  <1> HIDE DEF U
  <1>4. PICK g : SumsSets(g, rq, U) /\ Total(rq, U) = g[U]
    <2>1. \E x : SumsSets(x, rq, U)
      BY <1>1, SumsExist
    <2> QED BY <2>1, TotalUnfolds
  <1>5. \A i \in U : rq[i].val \in Nat
    BY DEF U, SameValues, NatValues
  <1>6. g[U] = g[S] + rq[a].val
    <2>1. g[S \cup {a}] = g[S] + rq[a].val
      BY <1>1, <1>4, <1>5, SumsAdd
    <2> QED BY <2>1 DEF U
  <1>7. h[S] = g[S] /\ h[S] = f[S] /\ S \in SUBSET S
    <2>1. \A s \in SUBSET S : h[s] = g[s]
      BY <1>1, <1>2, <1>4, SumsAgree
    <2>2. \A s \in SUBSET S : h[s] = f[s]
      BY <1>2, <1>3, SumsAgree
    <2> QED BY <2>1, <2>2
  <1>8. h[S] \in Nat
    BY <1>2, <1>7, SumsAdd DEF NatValues
  <1> QED BY <1>2, <1>3, <1>4, <1>6, <1>7, <1>8 DEF U

-----------------------------------------------------------------------------
(* The groups are those of the rows *)

ValuesOf(k) == {rows[i].val : i \in RowsOf(k)}
RowKeys == KeysBefore(Len(rows) + 1)

\* g is the group of key k, its extrema given as bounds that a row attains.
GroupIs(g, k) ==
  /\ g = [key |-> k, count |-> Cardinality(RowsOf(k)),
          sum |-> Clip(Total(rows, RowsOf(k))), min |-> g.min, max |-> g.max]
  /\ {g.min, g.max} \subseteq ValuesOf(k)
  /\ \A v \in ValuesOf(k) : g.min <= v /\ v <= g.max

\* While there is room every key has its group; once there is none, a key
\* without a group will not get one.
RoomLeft ==
  \/ Cardinality(DOMAIN groups) < BUCKETS /\ DOMAIN groups = RowKeys
  \/ Cardinality(DOMAIN groups) = BUCKETS /\ DOMAIN groups \subseteq RowKeys

RowInv ==
  /\ rows \in Seq([key : Keys, val : Vals])
  /\ groups = [k \in Resident |-> groups[k]]
  /\ \A k \in Resident : GroupIs(groups[k], k)
  /\ RoomLeft

\* The keys and the positions of the rows are finite sets.
LEMMA RowsFinite ==
  ASSUME rows \in Seq([key : Keys, val : Vals])
  PROVE  /\ Len(rows) \in Nat
         /\ \A i \in 1 .. Len(rows) : rows[i].key \in Keys /\ rows[i].val \in Vals /\ rows[i].val \in Nat
         /\ \A k : IsFiniteSet(RowsOf(k)) /\ RowsOf(k) \subseteq 1 .. Len(rows)
         /\ IsFiniteSet(RowKeys)
         /\ Resident \subseteq RowKeys
  <1>1. Len(rows) \in Nat
    OBVIOUS
  <1>2. \A i \in 1 .. Len(rows) : rows[i].key \in Keys /\ rows[i].val \in Vals /\ rows[i].val \in Nat
    <2>1. ASSUME NEW T, NEW s \in Seq(T), NEW k \in 1 .. Len(s) PROVE s[k] \in T
      OBVIOUS
    <2>2. \A i \in 1 .. Len(rows) : rows[i] \in [key : Keys, val : Vals]
      BY <2>1
    <2>3. Vals \subseteq Nat
      BY GroupByAssumption
    <2> QED BY <2>2, <2>3
  <1>3. IsFiniteSet(1 .. Len(rows))
    BY <1>1, FS_Interval
  <1>4. \A k : IsFiniteSet(RowsOf(k)) /\ RowsOf(k) \subseteq 1 .. Len(rows)
    BY <1>3, FS_Subset DEF RowsOf
  <1>5. RowKeys = {rows[i].key : i \in 1 .. Len(rows)}
    BY <1>1 DEF RowKeys, KeysBefore
  <1>6. IsFiniteSet(RowKeys)
    <2> DEFINE f == [i \in 1 .. Len(rows) |-> rows[i].key]
    <2>1. f \in Surjection(1 .. Len(rows), RowKeys)
      BY <1>5 DEF Surjection
    <2> QED BY <2>1, <1>3, FS_Surjection
  <1>7. Resident \subseteq RowKeys
    BY <1>5 DEF Resident
  <1> QED BY <1>1, <1>2, <1>4, <1>6, <1>7

\* What a row more does to the sets of positions and keys.
LEMMA RowAdded ==
  ASSUME rows \in Seq([key : Keys, val : Vals]), NEW k0 \in Keys, NEW v0 \in Vals,
         rows' = Append(rows, [key |-> k0, val |-> v0])
  PROVE  /\ rows' \in Seq([key : Keys, val : Vals]) /\ Len(rows') = Len(rows) + 1
         /\ \A i \in 1 .. Len(rows) : rows'[i] = rows[i]
         /\ rows'[Len(rows) + 1] = [key |-> k0, val |-> v0]
         /\ \A k : RowsOf(k)' = IF k = k0 THEN RowsOf(k) \cup {Len(rows) + 1}
                                          ELSE RowsOf(k)
         /\ RowKeys' = RowKeys \cup {k0}
         /\ Resident' = Resident \cup
              (IF Cardinality(RowKeys \ {k0}) < BUCKETS THEN {k0} ELSE {})
  <1> DEFINE n == Len(rows)
  <1>1. /\ rows' \in Seq([key : Keys, val : Vals]) /\ Len(rows') = n + 1 /\ n \in Nat
        /\ \A i \in 1 .. n : rows'[i] = rows[i]
        /\ rows'[n + 1] = [key |-> k0, val |-> v0]
    OBVIOUS
  <1> HIDE DEF n
  <1>2. 1 .. (n + 1) = (1 .. n) \cup {n + 1} /\ n + 1 \notin 1 .. n
    BY <1>1
  <1>3. ASSUME NEW k
        PROVE  RowsOf(k)' = IF k = k0 THEN RowsOf(k) \cup {n + 1} ELSE RowsOf(k)
    <2>1. RowsOf(k)' = {i \in (1 .. n) \cup {n + 1} : rows'[i].key = k}
      BY <1>1, <1>2 DEF RowsOf
    <2>2. RowsOf(k) = {i \in 1 .. n : rows[i].key = k}
      BY DEF RowsOf, n
    <2> QED BY <2>1, <2>2, <1>1
  <1> DEFINE Before(i) == {rows'[j].key : j \in 1 .. i - 1}
  <1>4. ASSUME NEW i \in 1 .. n + 1 PROVE Before(i) = KeysBefore(i)
    <2>1. \A j \in 1 .. i - 1 : rows'[j] = rows[j]
      BY <1>1
    <2> QED BY <2>1 DEF KeysBefore
  <1>5. RowKeys' = RowKeys \cup {k0}
    <2>1. RowKeys = {rows[j].key : j \in 1 .. n}
      BY <1>1 DEF RowKeys, KeysBefore, n
    <2>2. RowKeys' = {rows'[j].key : j \in 1 .. (n + 1)}
      BY <1>1 DEF RowKeys, KeysBefore
    <2> QED BY <2>1, <2>2, <1>1, <1>2
  <1>6. Resident' = Resident \cup
              (IF Cardinality(RowKeys \ {k0}) < BUCKETS THEN {k0} ELSE {})
    <2> DEFINE Fits(j) == Cardinality(KeysBefore(j) \ {rows[j].key}) < BUCKETS
               FitsNext(j) == Cardinality(Before(j) \ {rows'[j].key}) < BUCKETS
    <2>1. Resident' = {rows'[i].key : i \in {j \in 1 .. (n + 1) : FitsNext(j)}}
      BY <1>1 DEF Resident, KeysBefore
    <2>2. Resident = {rows[i].key : i \in {j \in 1 .. n : Fits(j)}}
      BY DEF Resident, n
    <2> HIDE DEF Before
    <2>3. ASSUME NEW j \in 1 .. n PROVE FitsNext(j) <=> Fits(j)
      <3>1. Before(j) = KeysBefore(j) /\ rows'[j].key = rows[j].key
        BY <1>1, <1>2, <1>4
      <3> QED BY <3>1
    <2>4. FitsNext(n + 1) <=> Cardinality(RowKeys \ {k0}) < BUCKETS
      <3>1. Before(n + 1) = RowKeys /\ rows'[n + 1].key = k0
        BY <1>1, <1>2, <1>4 DEF RowKeys, n
      <3> QED BY <3>1
    <2> HIDE DEF Fits, FitsNext
    <2>5. Resident' = {rows'[i].key : i \in {j \in 1 .. n : Fits(j)}}
                        \cup (IF FitsNext(n + 1) THEN {rows'[n + 1].key} ELSE {})
      BY <2>1, <2>3, <1>2
    <2>6. {rows'[i].key : i \in {j \in 1 .. n : Fits(j)}} = Resident
      BY <2>2, <1>1
    <2>7. rows'[n + 1].key = k0
      BY <1>1
    <2> QED BY <2>4, <2>5, <2>6, <2>7
  <1> QED BY <1>1, <1>3, <1>5, <1>6 DEF n

\* The values of the rows of a key after one more row.
LEMMA ValuesAdded ==
  ASSUME rows \in Seq([key : Keys, val : Vals]), NEW k0 \in Keys, NEW v0 \in Vals,
         rows' = Append(rows, [key |-> k0, val |-> v0]), NEW k
  PROVE  /\ ValuesOf(k)' = IF k = k0 THEN ValuesOf(k) \cup {v0} ELSE ValuesOf(k)
         /\ Total(rows, RowsOf(k)) \in Nat
         /\ Total(rows', RowsOf(k)') =
              IF k = k0 THEN Total(rows, RowsOf(k)) + v0 ELSE Total(rows, RowsOf(k))
         /\ Cardinality(RowsOf(k)) \in Nat
         /\ Cardinality(RowsOf(k)') =
              IF k = k0 THEN Cardinality(RowsOf(k)) + 1 ELSE Cardinality(RowsOf(k))
  <1> DEFINE n == Len(rows)
             R == RowsOf(k)
  <1>1. /\ n \in Nat /\ n + 1 \notin 1 .. n /\ R \subseteq 1 .. n /\ IsFiniteSet(R)
        /\ \A i \in 1 .. n : rows[i].val \in Nat
    BY RowsFinite
  <1>2. /\ \A i \in 1 .. n : rows'[i] = rows[i]
        /\ rows'[n + 1] = [key |-> k0, val |-> v0]
        /\ RowsOf(k)' = IF k = k0 THEN R \cup {n + 1} ELSE R
    BY RowAdded
  <1>3. ValuesOf(k)' = {rows'[i].val : i \in RowsOf(k)'} /\ ValuesOf(k) = {rows[i].val : i \in R}
    BY DEF ValuesOf
  <1> HIDE DEF n, R
  <1>4. rows'[n + 1].val = v0 /\ v0 \in Nat
    <2>1. v0 \in Nat
      BY GroupByAssumption
    <2>2. rows'[n + 1] = [key |-> k0, val |-> v0]
      BY <1>2
    <2>3. [key |-> k0, val |-> v0].val = v0
      OBVIOUS
    <2> QED BY <2>1, <2>2, <2>3, Zenon
  <1>5. \A i \in R : rows[i].val \in Nat /\ rows'[i].val = rows[i].val
    BY <1>1, <1>2
  <1>6. ValuesOf(k)' = IF k = k0 THEN ValuesOf(k) \cup {v0} ELSE ValuesOf(k)
    <2>1. {rows'[i].val : i \in R} = ValuesOf(k)
      BY <1>3, <1>5
    <2>2. {rows'[i].val : i \in R \cup {n + 1}} = ValuesOf(k) \cup {v0}
      BY <2>1, <1>4
    <2> QED BY <2>1, <2>2, <1>2, <1>3
  <1>7. /\ Total(rows, R) \in Nat /\ Total(rows', R) = Total(rows, R)
        /\ Total(rows', R \cup {n + 1}) = Total(rows, R) + v0
    <2>1. n + 1 \notin R /\ rows'[n + 1].val \in Nat
      BY <1>1, <1>4
    <2>2. /\ Total(rows, R) \in Nat
          /\ Total(rows', R) = Total(rows, R)
          /\ Total(rows', R \cup {n + 1}) = Total(rows, R) + rows'[n + 1].val
      <3>1. PICK rs, rq, a : rs = rows /\ rq = rows' /\ a = n + 1
        OBVIOUS
      <3>2. NatValues(rs, R)
        BY <3>1, <1>5 DEF NatValues
      <3>3. SameValues(rs, rq, R) /\ rq[a].val \in Nat /\ a \notin R
        BY <3>1, <2>1, <1>5 DEF SameValues
      <3>4. /\ Total(rs, R) \in Nat
            /\ Total(rq, R) = Total(rs, R)
            /\ Total(rq, R \cup {a}) = Total(rs, R) + rq[a].val
        BY <1>1, <3>2, <3>3, TotalOfMore
      <3> QED BY <3>1, <3>4
    <2> QED BY <2>2, <1>4
  <1>8. Cardinality(R) \in Nat /\ Cardinality(R \cup {n + 1}) = Cardinality(R) + 1
    <2>1. n + 1 \notin R
      BY <1>1
    <2> QED BY <1>1, <2>1, FS_AddElement, FS_CardinalityType
  <1> QED BY <1>2, <1>6, <1>7, <1>8 DEF R

\* A group of another key keeps its rows.
LEMMA GroupKept ==
  ASSUME rows \in Seq([key : Keys, val : Vals]), NEW k0 \in Keys, NEW v0 \in Vals,
         rows' = Append(rows, [key |-> k0, val |-> v0]),
         NEW k, k # k0, NEW g, GroupIs(g, k)
  PROVE  GroupIs(g, k)'
  BY ValuesAdded DEF GroupIs

\* The group of a first row.
LEMMA GroupOpens ==
  ASSUME rows \in Seq([key : Keys, val : Vals]), NEW k0 \in Keys, NEW v0 \in Vals,
         rows' = Append(rows, [key |-> k0, val |-> v0]), k0 \notin RowKeys
  PROVE  GroupIs(Opened(k0, v0), k0)'
  <1>1. RowsOf(k0) = {}
    BY RowsFinite DEF RowsOf, RowKeys, KeysBefore
  <1>2. ValuesOf(k0) = {} /\ Total(rows, RowsOf(k0)) = 0 /\ Cardinality(RowsOf(k0)) = 0
    BY <1>1, TotalOfNone, FS_EmptySet DEF ValuesOf
  <1>3. v0 \in Nat /\ v0 <= GbAccMax /\ GbAccMax \in Nat
    BY GroupByAssumption
  <1>4. /\ ValuesOf(k0)' = {v0}
        /\ Total(rows', RowsOf(k0)') = v0 /\ Cardinality(RowsOf(k0)') = 1
    BY <1>2, <1>3, ValuesAdded
  <1>5. Clip(v0) = v0
    BY <1>3 DEF Clip
  <1> QED BY <1>3, <1>4, <1>5 DEF GroupIs, Opened

\* The group of a row more: clipping each time is clipping once.
LEMMA GroupJoins ==
  ASSUME rows \in Seq([key : Keys, val : Vals]), NEW k0 \in Keys, NEW v0 \in Vals,
         rows' = Append(rows, [key |-> k0, val |-> v0]),
         NEW g, GroupIs(g, k0)
  PROVE  GroupIs(Joined(g, v0), k0)'
  <1> DEFINE t == Total(rows, RowsOf(k0))
             j == Joined(g, v0)
  <1>1. /\ ValuesOf(k0)' = ValuesOf(k0) \cup {v0}
        /\ t \in Nat /\ Total(rows', RowsOf(k0)') = t + v0
        /\ Cardinality(RowsOf(k0)) \in Nat
        /\ Cardinality(RowsOf(k0)') = Cardinality(RowsOf(k0)) + 1
    BY ValuesAdded
  <1>2. v0 \in Nat /\ GbAccMax \in Nat
    BY GroupByAssumption
  <1>3. g.key = k0 /\ g.count = Cardinality(RowsOf(k0)) /\ g.sum = Clip(t)
    BY DEF GroupIs
  <1>4. /\ {g.min, g.max} \subseteq ValuesOf(k0)
        /\ \A v \in ValuesOf(k0) : g.min <= v /\ v <= g.max
    BY DEF GroupIs
  <1>5. ValuesOf(k0) \subseteq Nat
    BY RowsFinite DEF ValuesOf
  <1> HIDE DEF t
  <1>6. Clip(Clip(t) + v0) = Clip(t + v0)
    BY <1>1, <1>2 DEF Clip
  <1>7. /\ j.min = (IF v0 < g.min THEN v0 ELSE g.min)
        /\ j.max = (IF v0 > g.max THEN v0 ELSE g.max)
        /\ j = [key |-> k0, count |-> Cardinality(RowsOf(k0)) + 1,
                sum |-> Clip(t + v0), min |-> j.min, max |-> j.max]
    BY <1>3, <1>6 DEF Joined
  <1> HIDE DEF j
  <1>8. /\ {j.min, j.max} \subseteq ValuesOf(k0) \cup {v0}
        /\ \A v \in ValuesOf(k0) \cup {v0} : j.min <= v /\ v <= j.max
    <2>1. g.min \in Nat /\ g.max \in Nat
      BY <1>4, <1>5
    <2> QED BY <2>1, <1>2, <1>4, <1>5, <1>7
  <1>9. GroupIs(j, k0)'
    <2>1. Total(rows', RowsOf(k0)') = t + v0
      BY <1>1
    <2> QED BY <2>1, <1>1, <1>7, <1>8 DEF GroupIs
  <1> QED BY <1>9 DEF j

\* A row more keeps the groups those of the rows.
LEMMA AbsorbedKeeps ==
  ASSUME RowInv, NEW k0 \in Keys, NEW v0 \in Vals,
         rows' = Append(rows, [key |-> k0, val |-> v0]),
         groups' = Absorbed(groups, k0, v0)
  PROVE  RowInv'
  <1> DEFINE D == DOMAIN groups
  <1>1. /\ rows \in Seq([key : Keys, val : Vals])
        /\ groups = [k \in Resident |-> groups[k]]
        /\ \A k \in Resident : GroupIs(groups[k], k)
        /\ RoomLeft
    BY DEF RowInv
  <1>2. D = Resident
    BY <1>1
  <1>3. /\ rows' \in Seq([key : Keys, val : Vals])
        /\ RowKeys' = RowKeys \cup {k0}
        /\ Resident' = Resident \cup
              (IF Cardinality(RowKeys \ {k0}) < BUCKETS THEN {k0} ELSE {})
    BY <1>1, RowAdded
  <1>4. /\ IsFiniteSet(RowKeys) /\ D \subseteq RowKeys /\ IsFiniteSet(D)
        /\ Cardinality(D) \in Nat /\ BUCKETS \in Nat /\ Cardinality(RowKeys) \in Nat
    <2>1. IsFiniteSet(RowKeys) /\ Resident \subseteq RowKeys
      BY <1>1, RowsFinite
    <2> QED BY <2>1, <1>2, FS_Subset, FS_CardinalityType, GroupByAssumption
  <1>5. ASSUME NEW k \in D, k # k0, groups'[k] = groups[k]
        PROVE  GroupIs(groups[k], k)'
    <2>1. PICK g : g = groups[k]
      OBVIOUS
    <2>2. GroupIs(g, k)'
      BY <1>1, <1>2, <1>5, <2>1, GroupKept
    <2> QED BY <2>1, <2>2, <1>5 DEF GroupIs
  <1>6. CASE k0 \in D
    <2>1. Resident' = Resident /\ RowKeys' = RowKeys
      BY <1>2, <1>3, <1>4, <1>6
    <2>2. groups' = [groups EXCEPT ![k0] = Joined(groups[k0], v0)]
      BY <1>6 DEF Absorbed
    <2>3. /\ DOMAIN groups' = D /\ groups' = [k \in D |-> groups'[k]]
          /\ groups'[k0] = Joined(groups[k0], v0)
          /\ \A k \in D : k # k0 => groups'[k] = groups[k]
      BY <2>2, <1>1, <1>2, <1>6
    <2>4. GroupIs(groups[k0], k0)'
      <3>1. PICK g : g = groups[k0]
        OBVIOUS
      <3>2. GroupIs(Joined(g, v0), k0)'
        BY <1>1, <1>2, <1>6, <3>1, GroupJoins
      <3>3. groups'[k0] = Joined(g, v0)
        BY <2>3, <3>1
      <3> QED BY <3>2, <3>3 DEF GroupIs
    <2>5. \A k \in Resident' : GroupIs(groups[k], k)'
      BY <1>2, <1>5, <2>1, <2>3, <2>4
    <2>6. RoomLeft'
      BY <1>1, <2>1, <2>3 DEF RoomLeft
    <2> QED BY <1>2, <1>3, <2>1, <2>3, <2>5, <2>6 DEF RowInv
  <1>7. CASE k0 \notin D /\ Cardinality(D) < BUCKETS
    <2>1. D = RowKeys /\ k0 \notin RowKeys
      BY <1>1, <1>4, <1>7 DEF RoomLeft
    <2>2. Resident' = D \cup {k0} /\ RowKeys' = D \cup {k0}
      <3>1. RowKeys \ {k0} = D
        BY <2>1
      <3> QED BY <3>1, <2>1, <1>2, <1>3, <1>7
    <2>3. groups' = [k \in D \cup {k0} |->
                       IF k = k0 THEN Opened(k0, v0) ELSE groups[k]]
      BY <1>7 DEF Absorbed
    <2>4. /\ DOMAIN groups' = D \cup {k0}
          /\ groups' = [k \in D \cup {k0} |-> groups'[k]]
          /\ groups'[k0] = Opened(k0, v0)
          /\ \A k \in D : groups'[k] = groups[k]
      BY <2>3, <1>7
    <2>5. GroupIs(groups[k0], k0)'
      <3>1. GroupIs(Opened(k0, v0), k0)'
        BY <1>1, <2>1, GroupOpens
      <3>2. PICK g : g = Opened(k0, v0)
        OBVIOUS
      <3> QED BY <3>1, <3>2, <2>4 DEF GroupIs
    <2>6. \A k \in Resident' : GroupIs(groups[k], k)'
      BY <1>5, <1>7, <2>2, <2>4, <2>5
    <2>7. Cardinality(D \cup {k0}) = Cardinality(D) + 1
      BY <1>4, <1>7, FS_AddElement
    <2>8. RoomLeft'
      BY <1>4, <1>7, <2>2, <2>4, <2>7 DEF RoomLeft
    <2> QED BY <1>3, <2>2, <2>4, <2>6, <2>8 DEF RowInv
  <1>8. CASE k0 \notin D /\ ~ (Cardinality(D) < BUCKETS)
    <2>1. groups' = groups /\ Cardinality(D) = BUCKETS
      BY <1>1, <1>8 DEF Absorbed, RoomLeft
    <2>2. Cardinality(RowKeys \ {k0}) >= BUCKETS
      <3>1. D \subseteq RowKeys \ {k0} /\ IsFiniteSet(RowKeys \ {k0})
        BY <1>4, <1>8, FS_Subset
      <3>2. Cardinality(D) <= Cardinality(RowKeys \ {k0})
        BY <3>1, FS_Subset
      <3> QED BY <2>1, <3>2
    <2>3. Cardinality(RowKeys \ {k0}) \in Nat
      BY <1>4, FS_Subset, FS_CardinalityType
    <2>4. Resident' = Resident
      BY <1>3, <1>4, <2>2, <2>3
    <2>5. \A k \in Resident' : GroupIs(groups[k], k)'
      BY <1>2, <1>5, <1>8, <2>1, <2>4
    <2>6. RoomLeft'
      BY <1>3, <1>4, <2>1 DEF RoomLeft
    <2> QED BY <1>1, <1>3, <2>1, <2>4, <2>5, <2>6 DEF RowInv
  <1> QED BY <1>6, <1>7, <1>8

\* A query without rows has no groups.
LEMMA NoRowsNoGroups ==
  ASSUME rows = <<>>, groups = <<>>
  PROVE  RowInv
  <1>1. Len(rows) = 0 /\ rows \in Seq([key : Keys, val : Vals])
    OBVIOUS
  <1>2. RowKeys = {} /\ Resident = {}
    BY <1>1 DEF RowKeys, KeysBefore, Resident
  <1>3. DOMAIN groups = {} /\ groups = [k \in {} |-> groups[k]]
    OBVIOUS
  <1>4. RoomLeft
    BY <1>2, <1>3, FS_EmptySet, GroupByAssumption DEF RoomLeft
  <1> QED BY <1>1, <1>2, <1>3, <1>4 DEF RowInv

\* Every step of the engine and its environment keeps the groups those of the
\* rows.
LEMMA RowInvStep == RowInv /\ [Next]_vars => RowInv'
  <1> SUFFICES ASSUME RowInv, [Next]_vars PROVE RowInv'
    OBVIOUS
  <1>1. ASSUME rows' = <<>>, groups' = <<>> PROVE RowInv'
    <2>1. Len(rows') = 0 /\ rows' \in Seq([key : Keys, val : Vals])
      BY <1>1
    <2>2. RowKeys' = {} /\ Resident' = {}
      BY <2>1 DEF RowKeys, KeysBefore, Resident
    <2>3. DOMAIN groups' = {} /\ groups' = [k \in {} |-> groups'[k]]
      BY <1>1
    <2>4. RoomLeft'
      BY <2>2, <2>3, FS_EmptySet, GroupByAssumption DEF RoomLeft
    <2> QED BY <2>1, <2>2, <2>3, <2>4 DEF RowInv
  <1>2. ASSUME rows' = rows, groups' = groups PROVE RowInv'
    <2>1. /\ \A k : RowsOf(k)' = RowsOf(k)
          /\ Resident' = Resident /\ RowKeys' = RowKeys
      BY <1>2 DEF RowsOf, Resident, RowKeys, KeysBefore
    <2>2. \A k : ValuesOf(k)' = ValuesOf(k)
      BY <1>2, <2>1 DEF ValuesOf
    <2>3. ASSUME NEW k \in Resident PROVE GroupIs(groups[k], k)'
      <3>1. GroupIs(groups[k], k)
        BY DEF RowInv
      <3> QED BY <3>1, <1>2, <2>1, <2>2 DEF GroupIs
    <2>4. RoomLeft'
      BY <1>2, <2>1 DEF RowInv, RoomLeft
    <2> QED BY <1>2, <2>1, <2>3, <2>4 DEF RowInv
  <1>3. CASE Reset
    BY <1>1, <1>3 DEF Reset, Forget
  <1>4. CASE Start
    BY <1>1, <1>4 DEF Start, Forget
  <1>5. ASSUME NEW pass \in BOOLEAN, NEW last \in BOOLEAN, NEW k \in Keys, NEW v \in Vals,
               Beat(pass, k, v, last)
        PROVE  RowInv'
    <2>1. CASE pass
      BY <1>5, <2>1, AbsorbedKeeps DEF Beat
    <2>2. CASE ~pass
      BY <1>5, <1>2, <2>2 DEF Beat
    <2> QED BY <2>1, <2>2
  <1>6. ASSUME NEW m \in BOOLEAN, Tick(m) PROVE RowInv'
    BY <1>6, <1>2 DEF Tick
  <1>7. CASE UNCHANGED vars
    BY <1>7, <1>2 DEF vars
  <1> QED BY <1>3, <1>4, <1>5, <1>6, <1>7 DEF Next

\* What RowInv says of a group is what GroupOf computes from the rows.
LEMMA GroupIsGroupOf ==
  ASSUME rows \in Seq([key : Keys, val : Vals]), NEW k, NEW g, GroupIs(g, k)
  PROVE  g = GroupOf(k)
  <1>1. ValuesOf(k) \subseteq Nat
    BY RowsFinite DEF ValuesOf
  <1>2. /\ g.min \in ValuesOf(k) /\ g.max \in ValuesOf(k)
        /\ \A v \in ValuesOf(k) : g.min <= v /\ v <= g.max
    BY DEF GroupIs
  <1>3. Min(ValuesOf(k)) = g.min
    <2>1. \A x \in ValuesOf(k) : (\A y \in ValuesOf(k) : x <= y) => x = g.min
      BY <1>1, <1>2
    <2> QED BY <1>2, <2>1 DEF Min
  <1>4. Max(ValuesOf(k)) = g.max
    <2>1. \A y \in ValuesOf(k) : g.max >= y
      BY <1>1, <1>2
    <2>2. \A x \in ValuesOf(k) : (\A y \in ValuesOf(k) : x >= y) => x = g.max
      BY <1>1, <1>2
    <2> QED BY <1>2, <2>1, <2>2 DEF Max
  <1>5. GroupOf(k) = [key |-> k, count |-> Cardinality(RowsOf(k)),
                      sum |-> Clip(Total(rows, RowsOf(k))),
                      min |-> Min(ValuesOf(k)), max |-> Max(ValuesOf(k))]
    BY DEF GroupOf, Total, ValuesOf
  <1>6. g = [key |-> k, count |-> Cardinality(RowsOf(k)),
             sum |-> Clip(Total(rows, RowsOf(k))), min |-> g.min, max |-> g.max]
    BY DEF GroupIs
  <1> QED BY <1>3, <1>4, <1>5, <1>6

-----------------------------------------------------------------------------
(* What leaves on the group port *)

\* The groups of this query that have not left yet.
Undelivered == {groups[k] : k \in DOMAIN groups} \ OutGroups

\* A group on m_axis is one that has not left yet, and it carries tlast
\* exactly if it is the only one.
LEMMA HeldIsUndelivered ==
  ASSUME IInv, m_axis_tvalid
  PROVE  /\ present_out_q \in Undelivered
         /\ present_is_last_q <=> Undelivered = {present_out_q}
  <1>1. /\ busy_q /\ state_q = "PRESENT"
        /\ Settled[dump_idx_q].valid /\ present_out_q = GroupAt(dump_idx_q)
        /\ present_is_last_q = (dump_idx_q = last_valid_q)
    BY DEF m_axis_tvalid, IInv, Held
  <1>2. /\ SoundTable /\ groups = TableGroups
        /\ OutGroups = {GroupAt(b) : b \in {c \in ValidBuckets : c < dump_idx_q}}
        /\ \A b \in ValidBuckets : b <= last_valid_q
        /\ Settled[last_valid_q].valid
        /\ dump_idx_q \in ValidBuckets /\ last_valid_q \in ValidBuckets
        /\ ValidBuckets \subseteq Nat /\ present_is_last_q \in BOOLEAN
    BY <1>1, TableIs, TypeParts
    DEF IInv, Mirrored, DumpedSoFar, ScanSeen, ValidBuckets, AddressTypes,
        FlagTypes, Bucket
  <1>3. {groups[k] : k \in DOMAIN groups} = {GroupAt(b) : b \in ValidBuckets}
    BY <1>2, TableGroupsIs DEF GroupsInBuckets, TableKeys
  <1>4. ASSUME NEW b \in ValidBuckets, NEW c \in ValidBuckets,
               GroupAt(b) = GroupAt(c)
        PROVE  b = c
    <2>1. GroupAt(b).key = Settled[b].key /\ GroupAt(c).key = Settled[c].key
      BY DEF GroupAt
    <2>2. Settled[b].key = Settled[c].key
      BY <1>4, <2>1
    <2> QED BY <1>2, <2>2 DEF SoundTable
  <1> DEFINE Ahead == {c \in ValidBuckets : dump_idx_q <= c}
  <1> HIDE DEF GroupAt
  <1>5. Undelivered = {GroupAt(b) : b \in Ahead}
    <2>1. ASSUME NEW b \in ValidBuckets
          PROVE  GroupAt(b) \in OutGroups <=> b < dump_idx_q
      <3>1. b < dump_idx_q => GroupAt(b) \in OutGroups
        BY <1>2
      <3>2. ASSUME GroupAt(b) \in OutGroups PROVE b < dump_idx_q
        <4>1. PICK c \in ValidBuckets : c < dump_idx_q /\ GroupAt(b) = GroupAt(c)
          BY <1>2, <3>2
        <4> QED BY <1>4, <4>1
      <3> QED BY <3>1, <3>2
    <2>2. \A b \in ValidBuckets : b \in Ahead <=> ~(b < dump_idx_q)
      BY <1>2
    <2> QED BY <1>3, <2>1, <2>2 DEF Undelivered
  <1>6. present_out_q \in Undelivered
    BY <1>1, <1>2, <1>5
  <1>7. present_is_last_q <=> dump_idx_q = last_valid_q
    BY <1>1, <1>2, Zenon
  <1>8. CASE dump_idx_q = last_valid_q
    <2>1. \A b \in Ahead : b = dump_idx_q
      BY <1>2, <1>8
    <2>2. dump_idx_q \in Ahead
      BY <1>2
    <2>3. Undelivered = {present_out_q}
      BY <1>1, <1>5, <2>1, <2>2
    <2> QED BY <1>6, <1>8, <1>7, <2>3
  <1>9. CASE dump_idx_q # last_valid_q
    <2>1. GroupAt(last_valid_q) \in Undelivered
      BY <1>2, <1>5
    <2>2. GroupAt(last_valid_q) # present_out_q
      BY <1>1, <1>2, <1>4, <1>9
    <2> QED BY <1>6, <1>9, <1>7, <2>1, <2>2
  <1> QED BY <1>8, <1>9

\* A finished query owes nothing.
LEMMA DoneDelivered ==
  ASSUME IInv, done_q
  PROVE  Undelivered = {}
  BY DEF IInv, DumpedSoFar, GroupsDelivered, Undelivered, OutGroups

-----------------------------------------------------------------------------
(* The properties *)

\* Every register stays in its range; no bucket address leaves the table
\* (groupby_engine.sv, m_probe_in_range), whatever the RAM held at power-up.
THEOREM GroupByTypes == Spec => []TypeOK
  <1>1. IInv => TypeOK
    BY DEF IInv
  <1> QED BY <1>1, GroupByInv, PTL

\* Between any two cycles of a query the hash table is sound: one bucket per
\* key, and no hole on the way from the hash of a key to its bucket
\* (groupby_engine.sv, linear probing in S_AGG_RD).
THEOREM ProbingFindsItsKey == Spec => []TableSound
  <1>1. IInv => TableSound
    BY DEF IInv
  <1> QED BY <1>1, GroupByInv, PTL

\* A finished query has delivered the groups of its rows, each once, whatever
\* the hash, the collisions, the stalls of the consumer and the queries that
\* were aborted before it (groupby_engine.sv, S_AGG_RD to S_PRESENT).
THEOREM EveryGroupDelivered == Spec => []GroupsDelivered
  <1>1. IInv => GroupsDelivered
    <2> SUFFICES ASSUME IInv PROVE GroupsDelivered
      OBVIOUS
    <2>1. CASE done_q
      BY <2>1 DEF IInv, DumpedSoFar
    <2>2. CASE ~done_q
      BY <2>2 DEF GroupsDelivered
    <2> QED BY <2>1, <2>2
  <1> QED BY <1>1, GroupByInv, PTL

\* The groups of a query are those of its rows taken together: the first
\* BUCKETS keys, each with the exact count, sum (clipped once), minimum and
\* maximum of all its rows, and a finished query has delivered them.
THEOREM GroupsAreExact == Spec => []GroupsExact
  <1>1. Init => RowInv
    BY NoRowsNoGroups DEF Init
  <1>2. RowInv /\ GroupsDelivered => GroupsExact
    <2> SUFFICES ASSUME RowInv, GroupsDelivered PROVE GroupsExact
      OBVIOUS
    <2>1. \A k \in Resident : groups[k] = GroupOf(k)
      BY GroupIsGroupOf DEF RowInv
    <2>2. groups = [k \in Resident |-> groups[k]]
      BY DEF RowInv
    <2>3. groups = [k \in Resident |-> GroupOf(k)] /\ DOMAIN groups = Resident
      BY <2>1, <2>2
    <2>4. done_q => {out[i].group : i \in 1 .. Len(out)} = {groups[k] : k \in Resident}
      BY <2>3 DEF GroupsDelivered
    <2>5. {groups[k] : k \in Resident} = {GroupOf(k) : k \in Resident}
      BY <2>1
    <2> QED BY <2>3, <2>4, <2>5 DEF GroupsExact
  <1> QED BY <1>1, <1>2, RowInvStep, EveryGroupDelivered, PTL DEF Spec

\* tlast is on the final group and on no other (groupby_engine.sv,
\* present_is_last_q from the first pass).
THEOREM LastMarksTheFinalGroup == Spec => []LastOnFinalGroup
  <1>1. IInv => LastOnFinalGroup
    <2> SUFFICES ASSUME IInv PROVE LastOnFinalGroup
      OBVIOUS
    <2>0. TypeOK /\ Len(out) \in Nat /\ dump_idx_q \in Bucket /\ last_valid_q \in Bucket
      BY DEF IInv, TypeOK
    <2>1. CASE Open
      <3>1. ~(done_q /\ out # <<>>)
        <4> SUFFICES ASSUME done_q, out # <<>> PROVE FALSE
          OBVIOUS
        <4>1. Closed
          BY DEF IInv, Delivered, DumpedSoFar
        <4>2. Len(out) \in 1 .. Len(out)
          BY <2>0 DEF TypeOK
        <4> QED BY <2>1, <4>1, <4>2 DEF Open, Closed
      <3> QED BY <2>1, <3>1 DEF Open, LastOnFinalGroup
    <2>2. CASE Closed
      <3>1. Len(out) \in 1 .. Len(out)
        BY <2>0, <2>2 DEF TypeOK, Closed
      <3>2. ~m_axis_tvalid
        <4> SUFFICES ASSUME m_axis_tvalid PROVE FALSE
          OBVIOUS
        <4>1. /\ busy_q /\ state_q = "PRESENT"
              /\ dump_idx_q <= last_valid_q
          BY <2>0 DEF m_axis_tvalid, IInv, Held, ScanSeen
        <4>2. Open
          BY <2>0, <4>1 DEF IInv, Delivered, Bucket
        <4> QED BY <2>2, <3>1, <4>2 DEF Open, Closed
      <3> QED BY <2>2, <3>1, <3>2 DEF Closed, LastOnFinalGroup
    <2>3. Open \/ Closed
      <3>1. out = <<>> => Open
        BY DEF Open
      <3> QED BY <3>1 DEF IInv, Delivered
    <2> QED BY <2>1, <2>2, <2>3
  <1> QED BY <1>1, GroupByInv, PTL

\* A group that the consumer does not accept stays on m_axis with its tlast
\* (AXI-Stream; groupby_engine.sv, present_hold_q in S_PRESENT).
THEOREM GroupHeldUntilTaken == Spec => GroupStable
  <1> DEFINE Stays == m_axis_tvalid /\ out' = out /\ rows' = rows /\ busy_q'
               => m_axis_tvalid' /\ UNCHANGED <<present_out_q, present_is_last_q>>
  <1>1. IInv /\ [Next]_vars => [Stays]_vars
    <2> SUFFICES ASSUME IInv, Next, m_axis_tvalid, out' = out, busy_q'
                 PROVE  m_axis_tvalid' /\ UNCHANGED <<present_out_q, present_is_last_q>>
      OBVIOUS
    <2>0. busy_q /\ state_q = "PRESENT" /\ present_hold_q
      BY DEF m_axis_tvalid, IInv, Held
    <2>1. CASE Reset
      BY <2>1 DEF Reset, GbReset
    <2>2. CASE Start
      BY <2>0, <2>2 DEF Start
    <2>3. CASE \E pass, last \in BOOLEAN, k \in Keys, v \in Vals : Beat(pass, k, v, last)
      BY <2>0, <2>3 DEF Beat, s_axis_tready
    <2>4. ASSUME NEW m \in BOOLEAN, Tick(m)
          PROVE  m_axis_tvalid' /\ UNCHANGED <<present_out_q, present_is_last_q>>
      <3>1. Hold(m)
        BY <2>0, <2>4, TickCases
        DEF Clear, AcceptRow, AwaitBucket, Probe, Update, WriteDone, ScanPass,
            PresentPass
      <3>2. ~m
        <4> SUFFICES ASSUME m PROVE FALSE
          OBVIOUS
        <4> DEFINE e == [group |-> present_out_q, last |-> present_is_last_q]
        <4>1. out' = Append(out, e)
          BY <2>4, TickCases
        <4>2. out \in Seq([group : Group, last : BOOLEAN])
          BY DEF IInv, TypeOK
        <4> HIDE DEF e
        <4>3. Len(Append(out, e)) = Len(out) + 1 /\ Len(out) \in Nat
          BY <4>2
        <4> QED BY <4>1, <4>3
      <3> QED BY <2>0, <3>1, <3>2 DEF Hold, m_axis_tvalid
    <2> QED BY <2>1, <2>2, <2>3, <2>4 DEF Next
  <1> QED BY <1>1, GroupByInv, PTL DEF Spec, GroupStable



=============================================================================
