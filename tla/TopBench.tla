------------------------------- MODULE TopBench -------------------------------
(***************************************************************************)
(* sim/tb_top.cpp: the whole accelerator against the software reference.   *)
(* main is generalised to any sequence of its scenarios: load a table, run *)
(* a classic or a GROUP BY query with ready always high or gated by a coin *)
(* ("torture"), start a query and abort it.  As in main, a query never     *)
(* asks for more rows than the last load_table wrote.  The number of       *)
(* scenarios is not bounded, so the endless session of sim/tb_stress.cpp   *)
(* is among the behaviours: a leak from any earlier query is reachable.    *)
(***************************************************************************)
EXTENDS HostDriver

CONSTANTS
  Queries,       \* query configurations, the second predicate slot off
  Loads,         \* tables: sequences of rows
  ClassicPolls,  \* max_polls of poll_done
  PollPeriod,    \* cycles between the STATUS polls of run_groupby
  LoopLimit,     \* cycles after which run_groupby gives up
  MaxSpin,       \* cycles a query runs before it is aborted
  MaxStalls      \* tails of the coin that gates ready in a GROUP BY run

VARIABLES
  cyc,           \* the loop counter of run_groupby and of the abort scenario
  stalls,
  unseen         \* history: groups taken off the stream inside a bus helper

benchVars == <<driverVars, cyc, stalls, unseen>>

BenchInit ==
  /\ DriverInit(CHOOSE q \in Queries : TRUE)
  /\ cyc = 0 /\ stalls = 0 /\ unseen = <<>>

AtRest ==
  host.pc \in {"idle", "returned", "failed", "aborted", "measured"} /\ ~Calling
NextScenario == AtRest /\ cyc' = 0 /\ stalls' = 0 /\ unseen' = <<>>

WithinLoad(q) ==
  Len(host.rows) = NUM_ROWS \/ (q.num_rows > 0 /\ q.num_rows <= Len(host.rows))

\* The registers of a run in the order of run_classic and run_groupby.
RunWords(q) ==
  PredWords(q.pred) \o <<Word("QUERY", 0, q.num_rows), AggWord(q),
                         Word("PROJ_MASK", 0, q.proj), CtrlWord(TRUE, FALSE)>>

Run(q, gated, collect) ==
  Think([host EXCEPT !.pc = "write", !.then = collect, !.query = q,
    !.todo = RunWords(q), !.polls = 0, !.got = <<>>, !.words = [w \in {} |-> 0],
    !.gated = gated, !.tready = TRUE])

Load ==
  /\ NextScenario
  /\ \E rows \in Loads : LoadTable(rows)

RunClassic(q) == NextScenario /\ WithinLoad(q) /\ Run(q, FALSE, "poll")
RunClassicTorture(q) == NextScenario /\ WithinLoad(q) /\ Run(q, TRUE, "poll")
RunGroupBy(q) == NextScenario /\ WithinLoad(q) /\ Run(q, FALSE, "groups")
RunGroupByTorture(q) == NextScenario /\ WithinLoad(q) /\ Run(q, TRUE, "groups")

\* The abort scenario: start a query that takes long, let it run, write the
\* abort bit.
StartToAbort(q) == NextScenario /\ WithinLoad(q) /\ Run(q, FALSE, "spin")

Spin ==
  /\ host.pc = "spin" /\ cyc < MaxSpin
  /\ OwnTick(TRUE)
  /\ cyc' = cyc + 1
  /\ UNCHANGED <<txn, host, stalls, unseen>>

AbortQuery ==
  /\ host.pc = "spin"
  /\ Think([host EXCEPT !.pc = "write", !.then = "aborted",
                        !.todo = <<CtrlWord(FALSE, TRUE)>>])
  /\ cyc' = 0
  /\ UNCHANGED <<stalls, unseen>>

\* One clock in a bus helper, its ready gated by the coin in a torture run.
\* m_axis_tready stays as it was last driven, and nobody looks at the stream.
CoinTick(ready) ==
  /\ ready \in ReadyChoices
  /\ ready \/ ~host.query.groupby \/ stalls < MaxStalls
  /\ stalls' = IF ready \/ ~host.query.groupby THEN stalls ELSE stalls + 1
  /\ BusClock(ready)
  /\ unseen' = IF m_axis_tvalid /\ host.tready
               THEN Append(unseen, m_axis_beat.group) ELSE unseen
  /\ UNCHANGED cyc

\* One cycle of the collecting loop; every PollPeriod cycles STATUS is polled.
CollectGroups ==
  /\ host.pc = "groups"
  /\ \E tready \in (IF host.gated /\ stalls < MaxStalls THEN BOOLEAN ELSE {TRUE}) :
       /\ OwnTick(tready)
       /\ stalls' = IF tready THEN stalls ELSE stalls + 1
       /\ host' = [host EXCEPT
            !.tready = tready,
            !.got = IF m_axis_tvalid /\ tready THEN Append(@, m_axis_beat.group) ELSE @,
            !.pc = CASE cyc % PollPeriod = PollPeriod - 1 -> "poll"
                     [] cyc % PollPeriod # PollPeriod - 1 /\ cyc + 1 = LoopLimit -> "failed"
                     [] OTHER -> "groups"]
  /\ cyc' = cyc + 1
  /\ UNCHANGED <<txn, unseen>>

StatusReply ==
  /\ IF host.query.groupby
     THEN Polled(1, "returned", IF cyc < LoopLimit THEN "groups" ELSE "failed")
     ELSE Polled(ClassicPolls, "collect", "failed")
  /\ UNCHANGED <<cyc, stalls, unseen>>

CollectClassic ==
  /\ host.pc = "collect"
  /\ Think([host EXCEPT !.pc = "read",
       !.want = <<"RESULT_HI", "RESULT", "COUNT_HI", "COUNT", "OVERFLOW">>])

Scenario ==
  \/ Load
  \/ \E q \in {x \in Queries : ~x.groupby} : RunClassic(q)
  \/ \E q \in {x \in Queries : ~x.groupby} : RunClassicTorture(q)
  \/ \E q \in {x \in Queries : x.groupby} : RunGroupBy(q)
  \/ \E q \in {x \in Queries : x.groupby} : RunGroupByTorture(q)
  \/ \E q \in {x \in Queries : x.groupby \/ x.num_rows = 0} : StartToAbort(q)

Drive ==
  \/ /\ \/ IssueWrite
        \/ WritesDone
        \/ PollStatus
        \/ CollectClassic
        \/ ReadWord
        \/ WordRead
     /\ UNCHANGED <<cyc, stalls, unseen>>
  \/ AbortQuery

------------------------------------------------------------------------------
Ref == INSTANCE Reference WITH SUM_MAX <- AccMax

Expected ==
  Ref!reference(host.rows, host.query.num_rows, host.query.column, host.query.pred[1])
ExpectedGroups ==
  Ref!groupby_ref(host.rows, host.query.num_rows, host.query.gby_key, host.query.column)
\* The groups a GROUP BY put on the stream, seen by the loop or not.
Delivered == host.got \o unseen

\* The value the switch over the operation expects.
ExpectedResult ==
  CASE host.query.op = "COUNT" -> Expected.count
    [] host.query.op \in {"SUM", "AVG"} -> Expected.sum
    [] host.query.op = "MIN" -> Expected.mn
    [] host.query.op = "MAX" -> Expected.mx

\* The checks of run_classic and run_classic_torture: the query completes, and
\* result, count and overflow are those of the reference, whichever scenarios
\* came before and however the handshakes were gated.
ClassicChecks ==
  ~host.query.groupby =>
    /\ host.pc # "failed"
    /\ host.pc = "returned" =>
         /\ Result = ExpectedResult
         /\ Count = Expected.count
         /\ (host.words["OVERFLOW"] = 1) = (Expected.sum = AccMax)

\* The checks of run_groupby and run_groupby_torture: done comes before the
\* loop gives up, and each group of the reference was delivered exactly once
\* with its count and sum.  The loop sees them all but those that were on the
\* stream during one of its STATUS reads, for which nothing holds tready down:
\* "group count" is right exactly when no group met a read.
GroupChecks ==
  host.query.groupby =>
    /\ host.pc # "failed"
    /\ host.pc = "returned" =>
         /\ Len(Delivered) = Cardinality(DOMAIN ExpectedGroups)
         /\ {g.key : g \in ToSet(Delivered)} = DOMAIN ExpectedGroups
         /\ \A g \in ToSet(Delivered) :
              /\ g.count = ExpectedGroups[g.key].count
              /\ g.sum = ExpectedGroups[g.key].sum

\* "busy cleared after abort": when the abort write has returned, the core is
\* idle and nothing of the aborted query is left in the pipeline.
AbortClears ==
  host.pc = "aborted" => /\ state_q = "IDLE" /\ error_q = "NONE"
                         /\ fifo = <<>> /\ ~pred_valid /\ ~proj_valid /\ ~m_axis_tvalid

\* Every scenario comes to an end, whatever the coins did and whatever was
\* aborted before it: the session never hangs.
ScenariosEnd == ~AtRest ~> AtRest
==============================================================================
