---------------------------- MODULE GroupBySystem ----------------------------
(***************************************************************************)
(* GroupByEngine with a row source that sends at most RowLimit beats per   *)
(* query, idles as it likes and ends the stream with tlast, a consumer of  *)
(* the group stream that stalls as it likes, and resets at any time.  A    *)
(* query starts only while the engine is not busy (scheduler.sv).          *)
(***************************************************************************)
EXTENDS GroupByEngine, Sequences, FiniteSets, FiniteSetsExt

CONSTANTS
  Keys, Vals,   \* values of the key and of the aggregated column
  RowLimit      \* beats per query: at most the rows of the table

\* What the bits of a bucket can encode.
Acc == 0 .. GbAccMax
BucketWord ==
  [valid : BOOLEAN, key : Nat, count : Acc, sum : Acc, min : Acc, max : Acc]

ASSUME GroupByAssumption ==
  /\ BUCKETS \in Nat \ {0, 1}
  /\ GbAccMax \in Nat
  /\ Keys \subseteq Nat /\ Vals \subseteq 0 .. GbAccMax
  /\ \A k \in Keys : hash_key(k) \in Bucket
  /\ RamPowerUp \subseteq BucketWord
  /\ RowLimit \in Nat \ {0} /\ RowLimit <= GbAccMax

VARIABLES
  sent,     \* beats accepted in this query
  rows,     \* history: the passing rows accepted in this query
  groups,   \* history: the groups of those rows, by key
  out       \* history: the beats delivered on m_axis in this query

vars == <<gbVars, sent, rows, groups, out>>

Init == GbInit /\ sent = 0 /\ rows = <<>> /\ groups = <<>> /\ out = <<>>

\* The histories begin anew with a reset and with a query.
Forget == sent' = 0 /\ rows' = <<>> /\ groups' = <<>> /\ out' = <<>>

Reset == GbReset /\ Forget

Start ==
  /\ ~busy_q
  /\ GbEdge(TRUE, FALSE, FALSE, 0, 0, FALSE, FALSE)
  /\ Forget

Clip(n) == IF n > GbAccMax THEN GbAccMax ELSE n

\* What one more row does to the groups: it opens a group while the table has
\* room, joins the group of its key, or is dropped.
Opened(key, val) ==
  [key |-> key, count |-> 1, sum |-> val, min |-> val, max |-> val]
Joined(group, val) ==
  [key |-> group.key, count |-> group.count + 1, sum |-> Clip(group.sum + val),
   min |-> IF val < group.min THEN val ELSE group.min,
   max |-> IF val > group.max THEN val ELSE group.max]
Absorbed(table, key, val) ==
  IF key \in DOMAIN table THEN [table EXCEPT ![key] = Joined(@, val)]
  ELSE IF Cardinality(DOMAIN table) < BUCKETS
  THEN [k \in DOMAIN table \cup {key} |->
          IF k = key THEN Opened(key, val) ELSE table[k]]
  ELSE table

Beat(pass, key, val, last) ==
  /\ s_axis_tready
  /\ sent < RowLimit
  /\ sent + 1 = RowLimit => last
  /\ GbEdge(FALSE, TRUE, pass, key, val, last, FALSE)
  /\ sent' = sent + 1
  /\ rows' = IF pass THEN Append(rows, [key |-> key, val |-> val]) ELSE rows
  /\ groups' = IF pass THEN Absorbed(groups, key, val) ELSE groups
  /\ UNCHANGED out

\* A cycle without an accepted beat.
Tick(mReady) ==
  /\ GbEdge(FALSE, FALSE, FALSE, 0, 0, FALSE, mReady)
  /\ out' = IF m_axis_tvalid /\ mReady
            THEN Append(out, [group |-> present_out_q,
                              last |-> present_is_last_q])
            ELSE out
  /\ UNCHANGED <<sent, rows, groups>>

Next ==
  \/ Reset
  \/ Start
  \/ \E pass, last \in BOOLEAN, k \in Keys, v \in Vals : Beat(pass, k, v, last)
  \/ \E mReady \in BOOLEAN : Tick(mReady)

\* The clock runs, the consumer is ready again and again, and a source that
\* can send its next beat does.
SomeBeat == \E pass, last \in BOOLEAN, k \in Keys, v \in Vals :
              Beat(pass, k, v, last)
Fairness == WF_vars(Tick(TRUE)) /\ SF_vars(SomeBeat)

Spec == Init /\ [][Next]_vars /\ Fairness

------------------------------------------------------------------------------
(* Reference: the groups of the accepted rows. *)

RowsOf(k) == {i \in 1 .. Len(rows) : rows[i].key = k}

GroupOf(k) ==
  [key |-> k,
   count |-> Cardinality(RowsOf(k)),
   sum |-> Clip(MapThenSumSet(LAMBDA i : rows[i].val, RowsOf(k))),
   min |-> Min({rows[i].val : i \in RowsOf(k)}),
   max |-> Max({rows[i].val : i \in RowsOf(k)})]

\* The table has room for the first BUCKETS distinct keys; rows of any other
\* key are dropped.
KeysBefore(i) == {rows[j].key : j \in 1 .. i - 1}
Resident ==
  {rows[i].key : i \in {j \in 1 .. Len(rows) :
                          Cardinality(KeysBefore(j) \ {rows[j].key}) < BUCKETS}}

------------------------------------------------------------------------------
Group == [key : Nat, count : Acc, sum : Acc, min : Acc, max : Acc]

\* Registers stay in range; a bucket address never leaves the table
\* (m_probe_in_range).
TypeOK ==
  /\ bucket_mem \in [Bucket -> BucketWord]
  /\ {rd_bucket, wdata_q} \subseteq BucketWord
  /\ {raddr_q, waddr_q, probe_idx_q, dump_idx_q, last_valid_q, clear_idx_q}
       \subseteq Bucket
  /\ probe_count_q \in 0 .. 2 * BUCKETS - 1
  /\ state_q \in States /\ rd_stage_q \in 0 .. 2
  /\ {wen_q, busy_q, done_q, row_last_q, present_hold_q, present_is_last_q}
       \subseteq BOOLEAN
  /\ row_key_q \in Nat /\ row_val_q \in Acc
  /\ present_out_q \in Group
  /\ sent \in 0 .. RowLimit
  /\ rows \in Seq([key : Keys, val : Vals])
  /\ DOMAIN groups \subseteq Keys /\ \A k \in DOMAIN groups : groups[k] \in Group
  /\ out \in Seq([group : Group, last : BOOLEAN])

\* The RAM as the engine will see it, the write on its way included.
Settled == IF wen_q THEN [bucket_mem EXCEPT ![waddr_q] = wdata_q] ELSE bucket_mem
ValidBuckets == {b \in Bucket : Settled[b].valid}

\* Positions on the probe chain of a key that come before bucket b.
Distance(k, b) == (b + BUCKETS - hash_key(k)) % BUCKETS
ChainBefore(k, b) == {(hash_key(k) + d) % BUCKETS : d \in 0 .. Distance(k, b) - 1}

\* Once the sweep is over, the hash table is sound between any two cycles: a
\* key sits in one bucket only, and every bucket on the way from its hash to
\* it is occupied, so linear probing finds it again.
TableSound ==
  busy_q /\ state_q # "CLEAR" =>
    \A b \in ValidBuckets :
      /\ \A c \in ValidBuckets : Settled[c].key = Settled[b].key => c = b
      /\ ChainBefore(Settled[b].key, b) \subseteq ValidBuckets

\* The groups kept row by row are those of the rows taken together: the first
\* BUCKETS keys, each with the exact count, sum, minimum and maximum of all its
\* rows; and a finished query has delivered them.
GroupsExact ==
  /\ groups = [k \in Resident |-> GroupOf(k)]
  /\ done_q => {out[i].group : i \in 1 .. Len(out)} = {GroupOf(k) : k \in Resident}

\* A finished query has delivered every group exactly once, as it was folded;
\* nothing of an earlier or an aborted query is delivered, no row was lost
\* between two cycles of the RAM, and a row was dropped only when the table
\* was full of other keys.
GroupsDelivered ==
  done_q =>
    /\ {out[i].group : i \in 1 .. Len(out)} = {groups[k] : k \in DOMAIN groups}
    /\ \A i, j \in 1 .. Len(out) : out[i].group.key = out[j].group.key => i = j

\* tlast is on the final group and on no other.
LastOnFinalGroup ==
  /\ \A i \in 1 .. Len(out) : out[i].last => i = Len(out) /\ ~m_axis_tvalid
  /\ done_q /\ out # <<>> => out[Len(out)].last

\* AXI-Stream on the group port: a group that is not accepted stays.
GroupStable ==
  [][m_axis_tvalid /\ out' = out /\ rows' = rows /\ busy_q'
       => m_axis_tvalid' /\ UNCHANGED <<present_out_q, present_is_last_q>>]_vars

\* A query that is not reset ends.
QueryEnds == busy_q ~> ~busy_q

\* What the register map tells the host of a GROUP BY query ("accept m_axis
\* until tlast, then read REG_STATUS for done"): a finished query has
\* delivered a beat with tlast.
FinishedWithTlast == done_q => \E i \in 1 .. Len(out) : out[i].last
==============================================================================
