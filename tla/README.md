# A TLA+ model of the database query accelerator

This directory holds a TLA+ verification of the RTL under `src/rtl` and of the
software that drives it (`src/sim`, `src/scripts/dbqa`): modules that model the
accelerator clock edge by clock edge and its drivers call by call, TLC
configurations that check them on small instances, and TLAPS proofs of the
properties that matter most for every value of the parameters.

## 1. Inventory

The accelerator scans a table that is kept in column banks, filters rows with a
WHERE clause, zeroes unselected columns, and aggregates what passes, either with
five "classic" engines (COUNT, SUM, MIN, MAX, AVG) or with a hash-based GROUP BY
engine. A host programs it over AXI-Lite; groups leave on an AXI-Stream port.

```
 host --AXI-Lite--> axi_lite_slave --cfg/start/load/abort--> scheduler
                                                               |
  column banks -> column_reader -> [axis_fifo] -> predicate -> projection -> aggregation_top
                                                   [skid]       [skid]       |- 5 classic engines -> result registers
                                                                             |- groupby_engine -> g_axis
```

| Part (source) | State | Operations | What makes it correct |
|---|---|---|---|
| `axis_fifo.sv` | RAM, two pointers, output register, count | push, pop, both at once, reset | lossless, in order, never above its depth |
| `axis_register.sv` | one skid register and its valid bit | capture, drain, reset | a refused beat stays and is delivered once |
| `column_reader.sv`, `column_memory.sv` | banks, read address, row on the data bus, `pending`, busy, done | load, start, push/fetch/wait/finish, reset | exactly the bounded rows, in order, no stale read, one tlast |
| `predicate_engine.sv`, `projection_engine.sv` | none but the skid | fold of the slots, mask | the pass bit is the WHERE clause |
| the five engines | accumulator, overflow flag, result, busy, done each | start, consume, reset | exact or saturated, in lock step |
| `groupby_engine.sv` | bucket RAM with read/write latency, row, probe and dump indices, held group | clear sweep, accept, read, probe, update, two dump passes, hold | each group once, exact, tlast on the last, termination |
| `aggregation_top.sv` | none | routing, result muxes | only one side sees the stream |
| `scheduler.sv` | IDLE/SCAN/DONE, latched results, error | start, complete, reset | completes only when everything is drained; answers match the query |
| `dbqa_top.sv` | none | abort = reset of the core only | nothing of an aborted query survives |
| `axi_lite_slave.sv` | handshake flags, register file, strobes | register write, register read | every accepted write has its effect once |
| `sim/axil_server.cpp` | the simulated design | W, R and G commands, each with its clocks | a command has its effect once; only G may meet a group |
| `scripts/dbqa` | host-side query description | `Query.execute`, collection, packing | `execute` returns the answer to its own query |
| `sim/dbqa_reference.hpp` | none | `reference`, `groupby_ref` | says what the accelerator must answer |
| `sim/tb_top.cpp`, `tb_stress.cpp`, `tb_perf.cpp` | a session with the whole design | load, run, torture run, abort, measure | their checks hold in every order and for every coin |
| `sim/tb_axilite.cpp`, `tb_scheduler.cpp`, `tb_reader.cpp`, `tb_fifo.cpp`, `tb_predicate.cpp`, `tb_projection.cpp`, `tb_aggregation.cpp`, `tb_groupby.cpp` | a scoreboard next to one block | drive, collect, compare | the scoreboard and the block agree in every cycle, inside the loops' bounds |

All parts of the core share one clock; they interact through combinational
ready/valid wires, so one clock edge is one atomic step of the composition. The
hard parts are cycle timing (data that is fresh only in some cycles, writes that
land later), backpressure in arbitrary patterns, two levels of completion
(reader, aggregation) with beats buffered between them, reset in any state, and
a configuration that is read live. Around the core, the programs add hazards of
their own: every register access spends clocks in which the design goes on and the
group stream is consumed unseen, polls are bounded and give up, and one session
runs many queries without a reset. `PROJECT.json` lists each hazard at its line.

## 2. Modules

Abstract specifications:

* `StreamQueue`: a bounded, lossless, in-order channel that hands over its
  oldest beat, may accept one in the same step, and may be emptied by a reset.
* `TableScan`: a cursor that delivers rows 0 .. n-1 of the table in order with
  `last` on the final one, and may be cut off by a reset.
* `QueryService`: what the core promises its user. A query started on the loaded
  table answers with the aggregates of the rows that satisfy the WHERE clause or
  emits every group once; a busy start only sets an error; an abort leaves nothing.

Detailed specifications, each split into an open module (registers and clock
edge, input wires as parameters) and a closed one (environment, `Spec`,
properties), so that the composition can reuse the open one with INSTANCE:

| Open | Closed | Models |
|---|---|---|
| | `AxisFifo` | `axis_fifo.sv`; actions `Push`, `Pop`, `PushPop`, `Reset` are the handshake combinations of the `always_ff` block |
| `AxisRegister` | `RegisterStage` | `axis_register.sv`; `Capture` and `Drain` are its two branches |
| `ColumnReader` | `ReaderSystem` | reader FSM (`Begin`, `FetchNext`, `AwaitFresh`, `Finish`) and bank ports (`BankEdge`) |
| `Predicate` | (`StageBench`) | slot fold `PassBit`, comparators, column mask |
| `ClassicEngines` | `ClassicSystem` | the five engines as functions of the engine name |
| `GroupByEngine`, `HashFold` | `GroupBySystem` | one action per FSM state and branch, RAM ports `WritePort`/`ReadPort` |
| `QueryPipeline` | `QuerySystem` | `scheduler.sv` and `aggregation_top.sv`: INSTANCEs of all of the above, wired as in the code |

`QueryPipeline.Edge` is one clock edge: all components step on the wires of the
cycle that ends. `ColumnReader` uses `StreamQueue` for its output FIFO, which
`AxisFifo` is proved to implement. Definitions named in the modules as mutants
are deliberate errors used to check that each property can fail; no
specification refers to them.

The bus and the programs that drive the accelerator:

| Module | Built on | Models |
|---|---|---|
| `AxiLiteSlave` | | `axi_lite_slave.sv`: `WriteChannel`, `ReadChannel`, `Strobes`, `WrittenCfg`, the read mux `rdata`; `SlaveEdge` is one clock |
| `RegisterSystem` | `AxiLiteSlave` | a master freer than any in the repository: address and data in different cycles, overlapping reads and writes, ready at will |
| `AxiLiteMaster` | | `axil_write`, `axil_read` and their gated variants, the same code in every program: `Call`, `Wires`, `AfterTick` |
| `RegisterBench` | `RegisterSystem`, `AxiLiteMaster` | `tb_axilite.cpp` |
| `DbqaTop` | `QueryPipeline`, `AxiLiteSlave` | `dbqa_top.sv`: strobes and registers wired to the core, abort as its reset |
| `HostDriver` | `DbqaTop`, `AxiLiteMaster` | what every driver does: write a list of registers, poll STATUS, read a list of words; state in the record `host` |
| `HostSession` | `HostDriver` | `query.py`, `backend.py` and `axil_server.cpp` |
| `TopBench` | `HostDriver`, `Reference` | `tb_top.cpp`; its endless sequence of scenarios includes the session of `tb_stress.cpp` |
| `PerfHarness` | `TopBench` | `tb_perf.cpp`: measurements between the scenarios |
| `SchedulerBench` | `QuerySystem`, `Reference` | `tb_scheduler.cpp`, at the ports of the core |
| `FifoBench` | `AxisFifo` | `tb_fifo.cpp` |
| `StageBench` | `RegisterStage`, `Predicate` | `tb_predicate.cpp`, `tb_projection.cpp` |
| `ReaderBench` | `ReaderSystem` | `tb_reader.cpp` |
| `AggregationBench` | `ClassicSystem` | `tb_aggregation.cpp`, classic mode |
| `GroupByBench` | `GroupBySystem` | `tb_groupby.cpp`, and the GROUP BY mode of `tb_aggregation.cpp` |
| `Reference` | | `dbqa_reference.hpp` |

A testbench is a driver and a scoreboard, and both are in the model: `pc` (or
`phase`) is the place in its code, the loop counters and their limits are kept, the
software reference is translated from the C++ and not from the RTL, and the
`expect` and `check` calls are the properties. A random number in the code is a
choice over a small set, and a coin (a ready that is gated at random) a choice at
every clock, so the checks are made for every seed. Where `main` is a fixed script,
the model allows its scenarios in any order; the preconditions that the script keeps
(no query over more rows than the last load wrote) are guards. The abort scenario of
`tb_top` aborts after any number of clocks up to the sixteen of the code, and the
query that follows it is any scenario. A program's step without a clock (`Think`) leaves the design alone; a bus access takes as many clock edges of the whole design as the
helper spends, with `m_axis_tready` as the program left it.

Each bench module of a block EXTENDS the block's closed module, and its specification
has two kinds of behaviours: those of the testbench, and those that begin with
`pc = "free"` (`run.engine = "free"` in `StageBench`), in which there is no bench and
the block lives in the environment of its closed module, with the resets, stalls and
splits that no bench makes. One run then checks the promises of the block (invariants,
stability, refinement, termination) in both environments and the checks of the bench
in its own. `FifoBench` needs no such mode: its random phase leaves producer and
consumer free, and reset comes in any cycle.

Words on the bus are records of their fields or small integers; a result is split
into a low and a high word of `WordSpan` values and joined again by the reader. The
row bound is truncated to its field by `execute` as by the register.

Data is abstract wherever a property cannot tell: beats and rows of the lower
modules are model values, column widths are the constants `ColMax` and `AccMax`
(all-ones in a column and in an accumulator), the hash is a constant operator
that the TLC instances replace by the code's XOR fold (`HashFold`), the RAM
powers up with any value of `RamPowerUp`, and the slots of a predicate are
records. History variables (`delivered`, `out`, `rows`, `tally`, `beats`) record
what crossed an interface, and `groups` the table that the rows accepted so far make.

Environment assumptions, all from the code's own comments and docs: the upstream
of a skid keeps an offered beat until it is accepted; the table is loaded and
the configuration written only between queries (dropped in the run
`query_careless`); a host command arrives one at a time. Everything else is free:
stalls, idle cycles, resets and aborts in any cycle, starts while busy.

## 3. Runs

| Run (module) | Instance | Shows |
|---|---|---|
| `fifo` (`FifoBench`) | depth 3, three beats | refinement of `StreamQueue`; scoreboard and FIFO agree in every cycle; the forced drain empties it |
| `stage` (`MCStageBench`) | 3 beats of 2 columns, 64 slot pairs and any third slot, 4 masks, 2 stalls | AXI-Stream stability, refinement of `StreamQueue` with capacity one; the outputs of predicate and projection match, each beat once; the fold is the left-to-right WHERE clause (no precedence between AND and OR) |
| `reader` (`ReaderBench`) | 5 rows of 2 values, address space 8, FIFO depth 2, every bound 0..7, 3 stalls, 9 stall profiles | freshness, refinement of `TableScan`, termination; every beat and every run of the bench checks |
| `aggregation` (`AggregationBench`) | 2-bit columns, 3-bit accumulators, 4 rows; lists of up to 3 beats | lock step, exactness, saturation, latched results; results of any sequence of queries driven blindly |
| `groupby` (`MCGroupByBench`) | 2 buckets, keys 0, 1 and 3, 3 rows, 2-bit accumulators, garbage in the RAM | exact groups, each delivered once, sound hash table (a key in one bucket, no gap on its probe chain), tlast, stability, termination; groups equal the reference table in bucket order, inside the cycle limits |
| `query` (`MCSchedulerBench`) | 8 rows of 2 columns, FIFO depth 2; 6 configurations of the free host, 7 queries and 3 tables of the bench, an illegal start in any cycle | refinement of `QueryService`, drained datapath, termination; results, groups and error of every query in any sequence |
| `registers` (`MCRegisterBench`) | 2 slots, 1 column, words of 4 values; 3 writes of the free master, scripts of 3 operations, status inputs that move in every clock | every accepted write takes effect once, on its own register, and has one response; round trips; a read of any address returns that register, the status ones as in the first cycle of the response; strobes of one cycle, commits, calls return |
| `host` (`MCHostSession`) | 4 rows, 2 buckets, 5 queries, 2 tables, 4 commands | `execute` returns its own answer, fails only for an empty GROUP BY, commands end |
| `top` (`MCPerfHarness`) | 4 rows, 2 buckets, 3 queries, 2 tables, 3 workloads, no bound on the number of scenarios | the checks of `tb_top` and `tb_stress` after any history, with STATUS polls inside the GROUP BY queries; a clean core after abort; what a measured cycle count means, also when the polls run out: 2n + 4 cycles for a classic scan of n rows; no scenario hangs |
| `groupby_empty`, `query_careless` | as `groupby`, `query` | expected violations, see findings |
| `host_timeout` | as `host`, 8 rows, fewer group polls than a GROUP BY takes | expected violation, see findings |

Why the bounds are enough to meet the hard cases: the FIFO depth is not a power
of two and pointers wrap several times; the reader's table is longer than the
FIFO and shorter than the address space, so it stalls and the clamp matters; the
classic sum passes the limit exactly, by one, and repeatedly; two buckets with
three keys force collision, wrap, a full table and a dropped row, and a reset in
any cycle precedes a full query; the configurations of `query` include a bounded
and a full scan, an overflowing SUM, predicates with AND, OR and a disabled first
slot, a masked aggregate column, a GROUP BY with more keys than buckets and a
GROUP BY in which no row passes, and the run covers every order of them. No
symmetry is used.

The drivers' limits are scaled with the instance so that they stand to its queries as
the code's limits stand to the code's queries:

* The poll limits of `ClassicPolls`, `host` and `LoopLimit` cannot be reached by the
  longest query of their instance; those of `host_timeout` can, as GROUP BY over 1024
  keys reaches the code's 30000.
* `PollPeriod`, 8 cycles, is shorter than every GROUP BY of the `top` instance (about 26 and
  more), as 1024 cycles are shorter than a GROUP BY of the code, which clears its 256
  buckets before the scan and reads them in the dump after it. The polls
  fall inside the query, before, in and after the presentation of groups, and every poll
  leaves `m_axis_tready` high.
* `MaxPolls`, 12, lies between the two GROUP BY workloads: the one with as many keys as
  buckets takes 28 cycles and done comes with the last read, the 13th; the one with more
  keys, like `groupby_1024keys`, takes 46 and outlasts the polling.
* `MaxStalls` bounds how often the coin comes up tails in a GROUP BY run; without it a
  run can always be stalled past a cycle limit.

The GROUP BY queries of `RunGroupBy` have no more keys than buckets, because the
reference they are compared with has no table limit. The last workload of `PerfHarness`
has more, as have the runs `groupby`, `query` and `host`.

Deadlock is checked in every passing run but `registers` and `host`, whose scripts
end after `MaxCalls` and `MaxCommands` operations. The one type invariant
among the runs is that of `GroupBySystem`, whose bucket addresses wrap; those of the
FIFO, the skid, the reader and the classic engines, and the range invariants
`OccupiedWritten`, `StaysInBound` and `WidthSuffices`, are parts or consequences of the
inductive invariants proved below.

### Fairness

In a free behaviour the runs `reader`, `groupby` and `query` assume weak fairness of a
clock edge at which the consumer is ready: the clock runs by itself, and the consumer
of the stream is ready again and again. Because an offered beat stays (`GroupStable`,
`OutputStable`) weak fairness of such an edge suffices. The free behaviours of
`groupby` also assume strong fairness of their row source, which stands for the
reader: the reader always goes on to its last row (`ScanEnds`). No fairness is assumed
of start, load, configure, abort or reset.

In a bench or a host program, weak fairness is assumed of its next step once it has
begun a query or a command, never of beginning one: they are sequential programs that
nothing outside can block. `RegisterBench` assumes strong fairness of the clock that
ends a call, and `PerfHarness` weak fairness of a clock with ready high: a coin does
not come up tails for ever.

### Findings

Expected violations, each a disagreement between the code and what the repository says
of it:

* `groupby_empty`: a GROUP BY query in which no row passes finishes without any
  beat, so the documented loop "accept m_axis until tlast" does not end.
* `host_timeout`: `_collect_groups` and `_wait_done` give up without an abort; the
  query goes on and the next `execute` takes its leavings for its own answer.
* `query_careless`: `scheduler.sv` says its completion rule guarantees that no rows
  stay in the reader FIFO. It does as long as the configuration is left alone during
  a query (`Drained` in the run `query`); with the live configuration rewritten
  during a scan, completion can leave rows behind.

Observations made while modelling, without a run of their own:

* The header of `groupby_engine.sv` (line 25) says that start does not clear the
  buckets; the `S_CLEAR` sweep does.
* Read data is a live mux, so a response that waits for RREADY changes with the
  status or the register, although `tb_axilite.cpp:323` says it "is held". Every
  program samples it in the first cycle of RVALID. `ReadsBack` says so with a status
  that moves in every clock of a call; sampling a cycle later is its mutant.
* `pack_query` masks a row limit of 1024 + k to k rows; both references clamp it to
  the table. A limit of exactly the table size becomes 0 and is right, which `host`
  checks.
* The STATUS read inside `run_groupby` of `tb_top` and `tb_stress` consumes groups
  unseen: nothing drives `m_axis_tready` low for it. `GroupChecks` keeps those groups in
  the history variable `unseen` and says that the loop and the reads together took every
  group once, so the benches' "group count" is right exactly when no group met a read.
  In the `top` instance some do, with and without gated handshakes; that the benches
  pass means that their tables present no group during a poll.
* "every remaining row reads back as zero" (`dbqa_reference.hpp:6`) is true only of
  the first load of a session; the guard `WithinLoad` is what keeps the benches right.
* A workload longer than the 65536 polls of `measure` is reported with the length of
  the polling. The 131076 cycles in `docs/performance.md` for GROUP BY with 1024 keys
  are 2 + 2 * 65537, exactly that, and `MeasuredCycles` states it: without done the
  figure is the polls'. A repetition that follows finds the query still running, its
  start is refused with START_BUSY and it polls the earlier query on; a done it reads
  is that one's. `Settled` lets only repetitions follow such a measurement, because
  that workload is the last of `main`.
* Four all-ones values fit the 42-bit accumulator, so the scenario of
  `tb_aggregation.cpp:265` does not saturate; keys 0 and 0x100 fold to different
  buckets, so that of `tb_scheduler.cpp:327` does not collide.

## 4. Proofs

TLAPS checks the following for all values of the constants that the named ASSUMEs
allow. TLC evaluates every ASSUME on the instances of the runs.

| Assumption | Says | Why the code justifies it |
|---|---|---|
| `DepthAssumption`, `BlankAssumption`, `BlankNoBeat` | depth at least 1; the placeholder of the model is no beat | elaboration checks of `axis_fifo.sv` |
| `ReaderAssumption` | a row, a table within the address space, FIFO depth at least 2 | parameters and elaboration checks of `column_reader.sv` |
| `WidthAssumption`, `RowAssumption` | a column fits an accumulator, no more rows than an accumulator counts | `db_pkg` derives the accumulator width from both |
| `GroupByAssumption` | two buckets or more, hashes are bucket numbers, a RAM word fits its fields, no more rows than an accumulator counts | as above; `RamPowerUp` is any set of words, garbage included |
| `RegisterAssumption`, `WriteDataAssumption` | a master writes words to writable registers, a word has at least one value, result and count are naturals; the bench writes words that the register keeps whole | the bus is 32 bits wide; `tb_axilite.cpp` writes values within the fields it reads back |
| `StageBenchAssumption`, `ReaderBenchAssumption` | the stalls of a run stay below the limits of its loops, a table has a row | the limits of the `while` loops in the benches |
| `TableAssumption` | a table of rows, a load writes rows | `column_vector_t` of `db_pkg` |
| `WidthsAssumption` | a column fits an accumulator, an accumulator counts the table, two buckets or more, hashes are bucket numbers, a RAM word fits its fields | `WidthAssumption` and `GroupByAssumption` together, for the composed core |
| `ConfigAssumption` | the fields of a configuration are in their ranges and name columns of the table | the packed structs of `db_pkg`; see section 5 for other column indices |
| `BeatsAssumption` | the beats of the bench carry column values | `std::array<uint32_t, 4>` in `tb_aggregation.cpp` |

Each block's safety:

* `AxisFifoProofs`. `FifoInvariant`: `TypeOK`, `PointersAgree` and
  `OccupiedWritten` together are inductive. Each needs the others: the occupied
  positions are found through the pointers, and the pointers stay in step only
  while the count is in range. `FifoRefinesQueue`: each edge is a queue step; three
  lemmas say what every occupied position holds after a push, a pop and both, with
  wrap-around handled by two lemmas about `Wrap` and `NextSlot`.
* `RegisterStageProofs`. `OutputIsStable` and `RegisterRefinesQueue`, from the type
  invariant, which includes that a held beat is a real one.
* `ReaderProofs`. `ReaderInvariant` and `ReaderRefinesScan`. `FreshWhenOffered` and
  `StaysInBound` are strengthened by `Window`: the FIFO holds exactly the latest
  `Len(fifo)` rows handed to it, in order, each with the right `last`. That links
  the read address to the abstract cursor, and gives the refinement.
* `ClassicProofs`. `EnginesInLockstep`, `EnginesExact`, `ResultsExact` and
  `WidthIsEnough`. The invariant adds to the types and the lock step that the
  rows counted fit the query, that their total is at most their number times the
  largest column value, that MIN and MAX are bounds attained by a seen value (a
  form without CHOOSE), and that the results of a finished query equal accumulators
  that no longer move. `WidthIsEnough` follows: while as many all-ones values as beats
  were taken fit the accumulator, SUM and AVG have not saturated, and `db_pkg` derives
  the width so that a whole table always fits.
* `RegisterProofs`. `EveryWriteLands`: at any moment the register file holds the
  latest write of every register, with a write whose handshakes are complete but
  whose commit is an edge away counted as pending, for address and data in either
  order. `SlaveInv` has three parts: `Shape` (types and which handshake flags exclude
  which), `Serial` (accepted writes and responses differ by at most the one in flight)
  and `Landed` (the property itself, split by whether a commit is pending).
* `GroupByProofs`. The table of the engine is known through three places: the RAM, a
  write on its way into it (`WritesIdle`, `ReadLatency`), and the row at the head of
  the probe. `Swept` says what the clear sweep has reached, `TableSound` that a key
  has one bucket and no free bucket lies between its hash and that bucket, `Probed`
  that every bucket passed by the current probe holds another key. From these,
  `ProbingFindsItsKey` (`TableSound`), `EveryGroupDelivered` (every group of the query
  leaves once, in the order of the buckets), `LastMarksTheFinalGroup` and
  `GroupHeldUntilTaken`. The history `groups` is the table that the accepted rows make
  when each is joined to its group as it arrives; `Mirrored` says that the RAM holds
  exactly it.
* `GroupsAreExact` (`GroupsExact`) then relates `groups` to the rows themselves: count,
  saturated sum, MIN and MAX of every group equal those of the rows with its key, for
  the first `BUCKETS` keys. Sums over sets are folds in an unspecified order, so
  `SumsAgree` first proves the order immaterial, and `RowAdded` and `ValuesAdded` say what
  one more row adds. `RowInv` keeps the extrema as attained bounds and says that keys are
  missing only when the table is full.

* `QueryProofs`. `NothingLeftBehind` (`Drained`) for the composed core, with starts while
  busy, loads, new configurations between queries and aborts at any edge. The argument
  follows the end marker, the beat with tlast: `OneMarker` says that it is in exactly one
  place (still in the reader, in the FIFO, in one of the skids, or taken by the
  aggregation), that every stage before it is empty and that the aggregation expects it
  until it has it. A beat may pass several stages in one edge, so `MarkerMoves` follows the
  wires from the reader down. The aggregation is done only after it took the marker.
* `QueryProofs` then proves `CoreImplementsService` (`ImplementsService`): the composed core
  implements `QueryService` step by step. The marker is not enough for that; the
  inductive invariant `ServiceInv` counts rows. At any cycle of a query the rows below
  `Consumed` have been taken by the aggregation, the next ones are in the skids and in the
  FIFO, each in the form its stage gives it (`RawBeat`, `PredBeat`, `ProjBeat`), and the
  reader is at row `Pushed` (`InFlight`, `ReaderAt`). `ClassicFolds` and `GroupFolds` say
  that the accumulators, or the groups, are those of the first `Consumed` rows; with the
  marker, `AllTaken` makes that the whole scan when the aggregation is done, and the answer
  the service's (`ClassicAnswers`, `Completes`, `Offers`). The GROUP BY half reuses
  `GroupByProofs`, instantiated with the history `groups` replaced by `Table`, the groups
  of the first `n` rows: `TableMore` shows that one more row changes `Table` as
  `Absorbed` changes the history, so every lemma about the engine carries over. TLC
  checked the invariant on the instance of the run `query` before it was proved.
* `TopProofs`. `AbortLeavesNothing` (`AbortClears`), for every session of `tb_top`,
  `tb_stress` and `tb_perf`. `BusInv` ties the phase of a bus helper to the handshake
  flags of the slave: they are free before a call and after it, and one response is
  pending in between, so no helper ever waits (`HelpersAnswered`). `AbortInv` follows the
  abort write: the slave takes it in the first clock, the strobe resets the core in the
  next, and since every program issues one call at a time no start can come before the
  helper returns, so the core stays `Clean` however long a coin delays the response.
  Nothing is assumed of the constants.

Each testbench agrees with its block. Each of these theorems pairs the invariant
of the block with one that ties the program counter, the loop counters and the
scoreboard to the block's state; they say that a check of the bench fails only if
the RTL differs from the model, whatever the random numbers:

* `BenchScoreboard` (`Scoreboard` of `tb_fifo.cpp`): the C++ queue and the occupied
  positions of the FIFO are equal in every cycle.
* `StageChecksHold` and `PassBitIsWhere` (`tb_predicate.cpp`, `tb_projection.cpp`): every beat comes
  out once, as expected, within the cycle limit; the slot fold of the RTL is the
  left-to-right WHERE clause for the two slots of the run and a third before or after them.
* `RunsCheck` (`tb_reader.cpp`): rows, `last`, pause and end of a run. The run ends
  inside its limit because a counter of the remaining work falls with every cycle that is not a stall.
* `RegistersRoundTrip`, `ReadsReturnTheRegister`, `StrobesPulseOnce` (`tb_axilite.cpp`): `BenchInv` adds to
  `SlaveInv` where each bus helper is in its handshake and what it has been promised; a
  read that has returned holds the read mux at its address and at `atResponse`, the
  status of the first response cycle. `Halves` says that quotient and remainder by the
  span of a word are the high and the low half of a value.
* `QueriesCheck` (`tb_aggregation.cpp`): the engines' answers are those of the software
  `reference`. The invariant `Driven` says that the engines hold the fold of the prefix driven so far.

Facts about folds over lists (`PassBitIsWhere`, `QueriesCheck`) are inductions over data. The
induction theorems of the library take an operator as parameter and cannot be
instantiated, so `ClassicProofs` uses their cause: the naturals are well founded, a
nonempty set of counterexamples has a least element (`LeastNat`), and the least one is refuted.

Only model-checked:

* Liveness under fairness, which is out of the prover's reach: `ScanEnds`, `QueryEnds`,
  `CallsReturn`, `CommandsEnd`, `ScenariosEnd`.
* `QueryChecks` of `GroupByBench`: its hash is the XOR fold of `HashFold`, which uses
  bitwise operators. The theorems about GROUP BY hold for any hash into the buckets.
* `ErrorIsThisQuerys` and `RunMatches` of `SchedulerBench`, and the properties of
  `HostSession`, `TopBench` and `PerfHarness` other than `AbortClears`. The answers they
  compare are those of
  `CoreImplementsService`, but each also says that a query ends before a loop of the driver
  gives up, or is false after it did (finding `host_timeout`), and how long a GROUP BY
  query takes depends on how many keys of its table share a bucket: no assumption short of
  the tables themselves makes the limits of the code enough.

## 5. Not modelled

* Bit positions inside a word: packing and unpacking of the predicate and aggregate
  words and of the group beat (`gbits`), beyond the field widths that a property
  depends on (row bound, halves of a result). `wstrb`, which the code ignores.
* The query builder, `demo.py` and the recording backend of the Python package, the
  pipe to the server and the parsing of its lines: no state of the accelerator.
* `tb_smoke.cpp`, the waveform dump and the assertion counter of the benches.
* SymbiYosys harnesses, build, synthesis and CI files: they add no behaviour; the SVA
  assertions in the RTL are covered by the properties named in the comments of the
  modules.
* Column indices beyond the number of columns, which select outside the packed
  vector.

## 6. Plan

1. Done: FIFO, skid, reader, predicate, classic engines, GROUP BY, the composed
   core and their runs; proofs for FIFO, skid, reader and classic engines.
2. Done: the register file and its bus, the top level, the host stack, the reference
   and the testbenches, with their runs.
3. Done: proofs of GROUP BY for every number of buckets, of the register file for every
   number of slots, and of the benches of the FIFO, the skids, the reader, the classic
   engines and the register file, and of `Drained` for the composed core.
4. Done: the refinement of `QueryService` by the composed core, and a clean core after an
   abort in every session of the top-level programs.
5. Open proofs: a bound on the cycles of a query in terms of the collisions in its table,
   and from it the checks of `SchedulerBench`, `TopBench` and `HostSession`.
