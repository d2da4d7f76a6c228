----------------------------- MODULE HostDriver -----------------------------
(***************************************************************************)
(* What every program that drives dbqa_top over AXI-Lite does: write a     *)
(* list of registers, poll STATUS, read a list of result words.  The       *)
(* programs (HostSession, TopBench, PerfHarness) add when they do which.   *)
(* host is the state of the program:                                       *)
(*   pc     what it is doing         then    what follows the writes       *)
(*   todo   writes still to do       want    registers still to read       *)
(*   words  result words read        polls   STATUS or stream polls so far *)
(*   query  the query it asked       rows    the rows of the last load     *)
(*   table  what the table must hold got     groups collected              *)
(*   gated  ready is gated by a coin tready  m_axis_tready as last driven  *)
(***************************************************************************)
EXTENDS DbqaTop, AxiLiteMaster, SequencesExt

VARIABLE host

driverVars == <<topVars, txn, host>>

Reg(name) == Axil!Reg(name)
Word(name, i, d) == [addr |-> [reg |-> name, idx |-> i], data |-> d]
ZeroRow == [c \in Cols |-> 0]

\* Reset, and the memories as a simulation starts them.
DriverInit(query) ==
  /\ mem = [r \in 0 .. NUM_ROWS - 1 |-> ZeroRow]
  /\ TopInit
  /\ txn = NoTxn
  /\ host = [pc |-> "idle", then |-> "idle", todo |-> <<>>, want |-> <<>>,
             words |-> [w \in {} |-> 0], polls |-> 0, query |-> query,
             rows |-> <<>>, table |-> mem, got |-> <<>>, gated |-> FALSE,
             tready |-> TRUE]

\* load_table: each row's address and words, then the commit.
LoadWords(rows) ==
  FlattenSeq([r \in 1 .. Len(rows) |->
    <<Word("LOAD_ADDR", 0, r - 1)>>
    \o [i \in 1 .. NUM_COLS |-> Word("LOAD_DATA", i - 1, rows[r][i - 1])]
    \o <<Word("LOAD_ROW", 0, 0)>>])

\* The two words of each predicate slot.
PredWords(pred) ==
  FlattenSeq([i \in 1 .. NUM_PRED |->
    <<Word("PRED_LO", i, pred[i].imm),
      Word("PRED_HI", i, [enable |-> pred[i].enable, op |-> pred[i].op,
                          combine |-> pred[i].combine, column |-> pred[i].column])>>])

AggWord(q) == Word("AGG_CFG", 0, [op |-> q.op, groupby |-> q.groupby,
                                  column |-> q.column, gby_key |-> q.gby_key])
CtrlWord(start, abort) == Word("CTRL", 0, [start |-> start, abort |-> abort])

------------------------------------------------------------------------------
\* The program moves on without a clock.
Think(h) == host' = h /\ UNCHANGED <<topVars, txn>>

\* The program before a load: nothing of an earlier query is kept.
Loading(rows, words) ==
  [host EXCEPT !.pc = "write", !.then = "idle", !.rows = rows, !.todo = words,
    !.table = [r \in DOMAIN @ |-> IF r < Len(rows) THEN rows[r + 1] ELSE @[r]],
    !.polls = 0, !.got = <<>>, !.words = [w \in {} |-> 0], !.gated = FALSE,
    !.tready = TRUE]

\* Mutant: load_table does not write the address of its first row.
LoadTableNoAddress(rows) == Think(Loading(rows, Tail(LoadWords(rows))))

\* Rows beyond those loaded keep what they held.
LoadTable(rows) == Think(Loading(rows, LoadWords(rows)))

\* A query is asked: its words, then start, then what collects the answer.
Ask(q, words, collect) ==
  Think([host EXCEPT !.pc = "write", !.then = collect, !.query = q,
    !.todo = words, !.polls = 0, !.got = <<>>, !.words = [w \in {} |-> 0]])

IssueWrite ==
  /\ host.pc = "write" /\ ~Calling /\ host.todo # <<>>
  /\ Call("W", Head(host.todo).addr, Head(host.todo).data, host.gated)
  /\ host' = [host EXCEPT !.todo = Tail(@)]
  /\ UNCHANGED topVars

WritesDone ==
  /\ host.pc = "write" /\ ~Calling /\ host.todo = <<>>
  /\ Think([host EXCEPT !.pc = host.then])

\* One clock inside a bus helper; the group stream is consumed unseen.
BusClock(ready) ==
  /\ Calling
  /\ TopEdge(Wires(ready, ready), host.tready)
  /\ txn' = AfterTick(bvalid_q', rvalid_q', Axil!rdata(araddr_q, Status)')
  /\ UNCHANGED host

BusTick == \E ready \in ReadyChoices : BusClock(ready)

\* One clock of the program's own, the bus idle.
OwnTick(gReady) == ~Calling /\ TopEdge(Wires(TRUE, TRUE), gReady)

PollStatus ==
  /\ host.pc = "poll" /\ ~Calling
  /\ Call("R", Reg("STATUS"), NoData, host.gated)
  /\ host' = [host EXCEPT !.pc = "polled"]
  /\ UNCHANGED topVars

\* The STATUS read that has returned reported done.
SawDone == txn.data.done

\* Mutant: one poll too few, so that the first answer decides.
PolledOnce(limit, next, giveUp) ==
  /\ host.pc = "polled" /\ Returned
  /\ Think([host EXCEPT !.pc = IF SawDone THEN next ELSE giveUp])

\* The answer of a poll: read the results, poll again, or give up.
Polled(limit, next, giveUp) ==
  /\ host.pc = "polled" /\ Returned
  /\ Think([host EXCEPT !.polls = @ + 1,
       !.pc = CASE SawDone -> next
                [] ~SawDone /\ host.polls + 1 < limit -> "poll"
                [] OTHER -> giveUp])

ReadWord ==
  /\ host.pc = "read" /\ ~Calling /\ host.want # <<>>
  /\ Call("R", Reg(Head(host.want)), NoData, host.gated)
  /\ host' = [host EXCEPT !.pc = "reading"]
  /\ UNCHANGED topVars

WordRead ==
  /\ host.pc = "reading" /\ Returned
  /\ Think([host EXCEPT !.pc = IF Len(host.want) = 1 THEN "returned" ELSE "read",
       !.want = Tail(@),
       !.words = [w \in DOMAIN @ \cup {Head(host.want)} |->
                    IF w = Head(host.want) THEN txn.data ELSE @[w]]])

\* A value read as a low and a high word.
Joined(low, high) == host.words[low] + WordSpan * host.words[high]
Count == Joined("COUNT", "COUNT_HI")
Result == Joined("RESULT", "RESULT_HI")
==============================================================================
