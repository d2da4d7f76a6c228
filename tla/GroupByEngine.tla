---------------------------- MODULE GroupByEngine ----------------------------
(***************************************************************************)
(* rtl/operators/groupby_engine.sv: hash-based streaming GROUP BY.  Each   *)
(* row is a read-modify-write of one bucket through a RAM whose read data  *)
(* arrives two edges after the address and whose write happens one edge    *)
(* after it is issued.  After the final row a first pass finds the last    *)
(* valid bucket and a second pass presents the groups.                     *)
(*                                                                         *)
(* Inputs of a clock edge are parameters: GroupBySystem closes the module, *)
(* QueryPipeline chains it.                                                *)
(***************************************************************************)
EXTENDS Naturals

CONSTANTS
  BUCKETS,       \* buckets of the hash table, a power of two
  GbAccMax,      \* 2^ACCUM_W - 1
  hash_key(_),   \* XOR-fold of a key into a bucket address
  RamPowerUp     \* what a bucket may hold before it is first written

VARIABLES
  bucket_mem, rd_bucket, raddr_q, wen_q, waddr_q, wdata_q,   \* bucket RAM
  state_q, busy_q, done_q, rd_stage_q,                       \* control
  row_key_q, row_val_q, row_last_q,                          \* current row
  probe_idx_q, probe_count_q, dump_idx_q, last_valid_q, clear_idx_q,
  present_hold_q, present_is_last_q, present_out_q           \* group output

ramVars == <<bucket_mem, rd_bucket>>
writeVars == <<wen_q, waddr_q, wdata_q>>
rowVars == <<row_key_q, row_val_q, row_last_q>>
probeVars == <<probe_idx_q, probe_count_q>>
presentVars == <<present_hold_q, present_is_last_q, present_out_q>>
gbVars ==
  <<ramVars, raddr_q, writeVars, state_q, busy_q, done_q, rd_stage_q, rowVars,
    probeVars, dump_idx_q, last_valid_q, clear_idx_q, presentVars>>

Bucket == 0 .. BUCKETS - 1
States == {"CLEAR", "AGG_IDLE", "AGG_RD", "AGG_WRITE", "SCAN", "PRESENT"}

EmptyBucket ==
  [valid |-> FALSE, key |-> 0, count |-> 0, sum |-> 0, min |-> 0, max |-> 0]
NoGroup == [key |-> 0, count |-> 0, sum |-> 0, min |-> 0, max |-> 0]

\* Mutants: a bucket address that does not wrap, a probe counter that is one
\* bit short.
BucketSuccUnwrapped(b) == b + 1
ProbeSuccShort(c) == (c + 1) % BUCKETS

\* Bucket addresses wrap; probe_count_q has one bit more.
BucketSucc(b) == (b + 1) % BUCKETS
ProbeSucc(c) == (c + 1) % (2 * BUCKETS)

\* After the power-up reset: the RAM and raddr_q have no reset value.
GbInit ==
  /\ bucket_mem \in [Bucket -> RamPowerUp]
  /\ rd_bucket = EmptyBucket
  /\ raddr_q \in Bucket
  /\ wen_q = FALSE /\ waddr_q = 0 /\ wdata_q = EmptyBucket
  /\ state_q = "AGG_IDLE" /\ busy_q = FALSE /\ done_q = FALSE
  /\ rd_stage_q = 0
  /\ row_key_q = 0 /\ row_val_q = 0 /\ row_last_q = FALSE
  /\ probe_idx_q = 0 /\ probe_count_q = 0
  /\ dump_idx_q = 0 /\ last_valid_q = 0 /\ clear_idx_q = 0
  /\ present_hold_q = FALSE /\ present_is_last_q = FALSE
  /\ present_out_q = NoGroup

\* The write port works at every edge, in reset too.
WritePort ==
  bucket_mem' = IF wen_q THEN [bucket_mem EXCEPT ![waddr_q] = wdata_q]
                         ELSE bucket_mem

\* The read port returns the old contents.
ReadPort == rd_bucket' = bucket_mem[raddr_q]

\* raddr_q and the RAM are not reset.
GbReset ==
  /\ WritePort
  /\ rd_bucket' = EmptyBucket
  /\ wen_q' = FALSE /\ waddr_q' = 0 /\ wdata_q' = EmptyBucket
  /\ state_q' = "AGG_IDLE" /\ busy_q' = FALSE /\ done_q' = FALSE
  /\ rd_stage_q' = 0
  /\ row_key_q' = 0 /\ row_val_q' = 0 /\ row_last_q' = FALSE
  /\ probe_idx_q' = 0 /\ probe_count_q' = 0
  /\ dump_idx_q' = 0 /\ last_valid_q' = 0 /\ clear_idx_q' = 0
  /\ present_hold_q' = FALSE /\ present_is_last_q' = FALSE
  /\ present_out_q' = NoGroup
  /\ UNCHANGED raddr_q

s_axis_tready == busy_q /\ state_q = "AGG_IDLE"
m_axis_tvalid == state_q = "PRESENT" /\ present_hold_q

\* Mutant: the read data is taken one cycle too early.
IssueReadEarly(b) ==
  /\ raddr_q' = b
  /\ rd_stage_q' = 2

\* Issue the read of a bucket: its data is ready two cycles later.
IssueRead(b) ==
  /\ raddr_q' = b
  /\ rd_stage_q' = 1

\* The start pulse: sweep the buckets, then accept rows.
GbStart ==
  /\ state_q' = "CLEAR" /\ busy_q' = TRUE /\ done_q' = FALSE
  /\ rd_stage_q' = 0
  /\ wen_q' = FALSE
  /\ clear_idx_q' = 0
  /\ present_hold_q' = FALSE
  /\ UNCHANGED <<raddr_q, waddr_q, wdata_q, rowVars, probeVars, dump_idx_q,
                 last_valid_q, present_is_last_q, present_out_q>>

\* Mutant: the sweep stops one bucket early.
ClearStopsEarly ==
  /\ state_q = "CLEAR"
  /\ wen_q' = TRUE /\ waddr_q' = clear_idx_q /\ wdata_q' = EmptyBucket
  /\ IF clear_idx_q = BUCKETS - 2
     THEN state_q' = "AGG_IDLE" /\ UNCHANGED clear_idx_q
     ELSE clear_idx_q' = BucketSucc(clear_idx_q) /\ UNCHANGED state_q
  /\ UNCHANGED <<raddr_q, busy_q, done_q, rd_stage_q, rowVars, probeVars,
                 dump_idx_q, last_valid_q, presentVars>>

\* S_CLEAR
Clear ==
  /\ state_q = "CLEAR"
  /\ wen_q' = TRUE /\ waddr_q' = clear_idx_q /\ wdata_q' = EmptyBucket
  /\ IF clear_idx_q = BUCKETS - 1
     THEN state_q' = "AGG_IDLE" /\ UNCHANGED clear_idx_q
     ELSE clear_idx_q' = BucketSucc(clear_idx_q) /\ UNCHANGED state_q
  /\ UNCHANGED <<raddr_q, busy_q, done_q, rd_stage_q, rowVars, probeVars,
                 dump_idx_q, last_valid_q, presentVars>>

\* The move to the first dump pass, shared by every way the final row ends.
BeginDump ==
  /\ state_q' = "SCAN"
  /\ dump_idx_q' = 0
  /\ rd_stage_q' = 0

AfterRow ==
  IF row_last_q THEN BeginDump
  ELSE state_q' = "AGG_IDLE" /\ UNCHANGED <<dump_idx_q, rd_stage_q>>

\* S_AGG_IDLE: no beat, a passing row, or a row that is only an end marker.
AcceptRow(sValid, pass, key, val, last) ==
  /\ state_q = "AGG_IDLE"
  /\ wen_q' = FALSE
  /\ row_last_q' = IF sValid THEN last ELSE row_last_q
  /\ \/ /\ sValid /\ pass
        /\ row_key_q' = key /\ row_val_q' = val
        /\ probe_idx_q' = hash_key(key)
        /\ probe_count_q' = 2 * BUCKETS - 1
        /\ IssueRead(hash_key(key))
        /\ state_q' = "AGG_RD"
        /\ UNCHANGED dump_idx_q
     \/ /\ sValid /\ ~pass /\ last
        /\ BeginDump
        /\ UNCHANGED <<row_key_q, row_val_q, probeVars, raddr_q>>
     \/ /\ ~sValid \/ (~pass /\ ~last)
        /\ UNCHANGED <<row_key_q, row_val_q, probeVars, raddr_q, rd_stage_q,
                       state_q, dump_idx_q>>
  /\ UNCHANGED <<waddr_q, wdata_q, busy_q, done_q, last_valid_q, clear_idx_q,
                 presentVars>>

\* The bucket after the current row is placed in it or folded into it.
updated_bucket ==
  LET v == row_val_q
      sum == rd_bucket.sum + v
  IN  IF ~rd_bucket.valid
      THEN [valid |-> TRUE, key |-> row_key_q, count |-> 1, sum |-> v,
            min |-> v, max |-> v]
      ELSE [rd_bucket EXCEPT
              !.count = (@ + 1) % (GbAccMax + 1),
              !.sum = IF sum > GbAccMax THEN GbAccMax ELSE sum,
              !.min = IF v < @ THEN v ELSE @,
              !.max = IF v > @ THEN v ELSE @]

\* S_AGG_RD while the read is under way.
AwaitBucket ==
  /\ state_q = "AGG_RD" /\ rd_stage_q # 2
  /\ rd_stage_q' = rd_stage_q + 1
  /\ UNCHANGED <<raddr_q, writeVars, state_q, busy_q, done_q, rowVars,
                 probeVars, dump_idx_q, last_valid_q, clear_idx_q, presentVars>>

Collision == rd_bucket.valid /\ rd_bucket.key # row_key_q

\* S_AGG_RD, the bucket holds another key: try the next one, or drop the row
\* when the chain is exhausted.
Probe ==
  /\ state_q = "AGG_RD" /\ rd_stage_q = 2 /\ Collision
  /\ IF probe_count_q = BUCKETS
     THEN AfterRow /\ UNCHANGED <<probeVars, raddr_q>>
     ELSE /\ probe_idx_q' = BucketSucc(probe_idx_q)
          /\ probe_count_q' = ProbeSucc(probe_count_q)
          /\ IssueRead(BucketSucc(probe_idx_q))
          /\ UNCHANGED <<state_q, dump_idx_q>>
  /\ UNCHANGED <<writeVars, busy_q, done_q, rowVars, last_valid_q, clear_idx_q,
                 presentVars>>

\* S_AGG_RD, the bucket is free or holds the row's key: issue the update.
Update ==
  /\ state_q = "AGG_RD" /\ rd_stage_q = 2 /\ ~Collision
  /\ wen_q' = TRUE /\ waddr_q' = probe_idx_q /\ wdata_q' = updated_bucket
  /\ state_q' = "AGG_WRITE"
  /\ UNCHANGED <<raddr_q, busy_q, done_q, rd_stage_q, rowVars, probeVars,
                 dump_idx_q, last_valid_q, clear_idx_q, presentVars>>

\* S_AGG_WRITE
WriteDone ==
  /\ state_q = "AGG_WRITE"
  /\ wen_q' = FALSE
  /\ AfterRow
  /\ UNCHANGED <<raddr_q, waddr_q, wdata_q, busy_q, done_q, rowVars, probeVars,
                 last_valid_q, clear_idx_q, presentVars>>

\* The dump passes read the next bucket, or wait for the one being read.
IssueNext ==
  /\ dump_idx_q' = BucketSucc(dump_idx_q)
  /\ IssueRead(BucketSucc(dump_idx_q))

AwaitDump ==
  /\ rd_stage_q # 2
  /\ raddr_q' = IF rd_stage_q = 0 THEN dump_idx_q ELSE raddr_q
  /\ rd_stage_q' = rd_stage_q + 1
  /\ UNCHANGED <<state_q, dump_idx_q, last_valid_q>>

\* Mutant: the first pass does not record what it finds.
LastValidUnset == last_valid_q

\* The latest valid bucket the first pass has seen.
LastValid == IF rd_bucket.valid THEN dump_idx_q ELSE last_valid_q

\* S_SCAN
ScanPass ==
  /\ state_q = "SCAN"
  /\ \/ AwaitDump
     \/ /\ rd_stage_q = 2
        /\ last_valid_q' = LastValid
        /\ IF dump_idx_q = BUCKETS - 1
           THEN /\ state_q' = "PRESENT" /\ dump_idx_q' = 0 /\ rd_stage_q' = 0
                /\ UNCHANGED raddr_q
           ELSE IssueNext /\ UNCHANGED state_q
  /\ UNCHANGED <<writeVars, busy_q, done_q, rowVars, probeVars, clear_idx_q,
                 presentVars>>

\* The presented bucket is finished with: go on, or end the query.
AdvanceOrEnd ==
  IF dump_idx_q = BUCKETS - 1
  THEN busy_q' = FALSE /\ done_q' = TRUE
       /\ UNCHANGED <<dump_idx_q, raddr_q, rd_stage_q>>
  ELSE IssueNext /\ UNCHANGED <<busy_q, done_q>>

\* Mutant: a held group leaves whether it is accepted or not.
HoldOneCycle(mReady) ==
  /\ state_q = "PRESENT" /\ present_hold_q
  /\ present_hold_q' = FALSE
  /\ AdvanceOrEnd
  /\ UNCHANGED <<writeVars, state_q, rowVars, probeVars, last_valid_q,
                 clear_idx_q, present_is_last_q, present_out_q>>

\* S_PRESENT with a group held on m_axis.
Hold(mReady) ==
  /\ state_q = "PRESENT" /\ present_hold_q
  /\ present_hold_q' = ~mReady
  /\ IF mReady THEN AdvanceOrEnd
     ELSE UNCHANGED <<dump_idx_q, raddr_q, rd_stage_q, busy_q, done_q>>
  /\ UNCHANGED <<writeVars, state_q, rowVars, probeVars, last_valid_q,
                 clear_idx_q, present_is_last_q, present_out_q>>

\* S_PRESENT otherwise.
PresentPass ==
  /\ state_q = "PRESENT" /\ ~present_hold_q
  /\ \/ AwaitDump /\ UNCHANGED <<busy_q, done_q, presentVars>>
     \/ /\ rd_stage_q = 2 /\ rd_bucket.valid
        /\ present_hold_q' = TRUE
        /\ present_is_last_q' = (dump_idx_q = last_valid_q)
        /\ present_out_q' = [f \in DOMAIN NoGroup |-> rd_bucket[f]]
        /\ UNCHANGED <<state_q, dump_idx_q, raddr_q, rd_stage_q, busy_q,
                       done_q, last_valid_q>>
     \/ /\ rd_stage_q = 2 /\ ~rd_bucket.valid
        /\ AdvanceOrEnd
        /\ UNCHANGED <<state_q, last_valid_q, presentVars>>
  /\ UNCHANGED <<writeVars, rowVars, probeVars, clear_idx_q>>

\* One clock edge without reset.
GbEdge(start, sValid, pass, key, val, last, mReady) ==
  /\ WritePort
  /\ ReadPort
  /\ \/ start /\ GbStart
     \/ /\ ~start /\ busy_q
        /\ \/ Clear
           \/ AcceptRow(sValid, pass, key, val, last)
           \/ AwaitBucket \/ Probe \/ Update
           \/ WriteDone
           \/ ScanPass
           \/ Hold(mReady)
           \/ PresentPass
     \/ /\ ~start /\ ~busy_q
        /\ UNCHANGED <<raddr_q, writeVars, state_q, busy_q, done_q, rd_stage_q,
                       rowVars, probeVars, dump_idx_q, last_valid_q,
                       clear_idx_q, presentVars>>
==============================================================================
