----------------------------- MODULE HostSession -----------------------------
(***************************************************************************)
(* The software stack: scripts/dbqa/query.py and backend.py talking to     *)
(* sim/axil_server.cpp, which drives the simulated accelerator.  The       *)
(* server clocks the design only while it serves a command and keeps       *)
(* m_axis_tready high, so a group that is presented during a W or an R     *)
(* command is lost; only G reports it.  The host loads tables and executes *)
(* queries one after the other; an exception ends an execute and the host  *)
(* goes on.                                                                *)
(***************************************************************************)
EXTENDS HostDriver

CONSTANTS
  Queries,      \* what the host asks: query configurations
  Loads,        \* tables it loads: sequences of rows
  MaxCommands,  \* loads and executes in a behaviour
  StatusPolls,  \* max_polls of _wait_done
  GroupPolls    \* the range of _collect_groups

VARIABLE commands

sessionVars == <<driverVars, commands>>

SessionInit ==
  /\ \E q \in Queries : DriverInit(q)
  /\ commands = 0

AtRest == host.pc \in {"idle", "returned", "failed"} /\ ~Calling
NextCommand == AtRest /\ commands < MaxCommands /\ commands' = commands + 1

Load ==
  /\ NextCommand
  /\ \E rows \in Loads : LoadTable(rows)

\* Mutant: completion is awaited before the groups are collected.
ExecutePollsFirst ==
  /\ NextCommand
  /\ \E q \in Queries :
       Ask(q, PredWords(q.pred) \o <<Word("PROJ_MASK", 0, q.proj), AggWord(q),
              Word("QUERY", 0, q.num_rows % NUM_ROWS), CtrlWord(TRUE, FALSE)>>,
           "poll")

\* Query.execute: the configuration, the row bound masked to its field, start.
Execute ==
  /\ NextCommand
  /\ \E q \in Queries :
       Ask(q, PredWords(q.pred) \o <<Word("PROJ_MASK", 0, q.proj), AggWord(q),
              Word("QUERY", 0, q.num_rows % NUM_ROWS), CtrlWord(TRUE, FALSE)>>,
           IF q.groupby THEN "groups" ELSE "poll")

\* The G command, and _collect_groups: the beat is sampled, then the clock
\* accepts it.
GroupCommand ==
  /\ host.pc = "groups"
  /\ OwnTick(TRUE)
  /\ host' = [host EXCEPT
       !.polls = IF m_axis_tvalid /\ m_axis_beat.last THEN 0 ELSE @ + 1,
       !.got = IF m_axis_tvalid THEN Append(@, m_axis_beat.group) ELSE @,
       !.pc = CASE m_axis_tvalid /\ m_axis_beat.last -> "poll"
                [] ~(m_axis_tvalid /\ m_axis_beat.last)
                   /\ host.polls + 1 = GroupPolls -> "failed"
                [] OTHER -> "groups"]
  /\ UNCHANGED txn

\* _wait_done, then the words of a classic answer.
StatusReply ==
  Polled(StatusPolls, IF host.query.groupby THEN "returned" ELSE "collect", "failed")

CollectClassic ==
  /\ host.pc = "collect"
  /\ Think([host EXCEPT !.pc = "read",
       !.want = <<"COUNT", "COUNT_HI", "RESULT", "RESULT_HI", "OVERFLOW">>])

Serve ==
  \/ IssueWrite
  \/ WritesDone
  \/ BusTick
  \/ GroupCommand
  \/ PollStatus
  \/ StatusReply
  \/ CollectClassic
  \/ ReadWord
  \/ WordRead

Next ==
  \/ Load
  \/ Execute
  \/ Serve /\ UNCHANGED commands

\* The server answers every command.
Spec == SessionInit /\ [][Next]_sessionVars /\ WF_sessionVars(Serve /\ UNCHANGED commands)

------------------------------------------------------------------------------
Asked == INSTANCE QueryService
  WITH table <- host.table, cfg <- host.query, phase <- state_q,
       answer <- Status, error <- error_q, emitted <- host.got

\* execute() answers the query it was given on the table the host loaded,
\* whatever was loaded, asked, answered or given up before: the classic words
\* joined from their halves, or every group once.  No stale done, result or
\* group of an earlier query reaches it.
ReturnsTheAnswer ==
  host.pc = "returned" =>
    IF host.query.groupby
    THEN /\ ToSet(host.got) = Asked!Groups
         /\ Len(host.got) = Cardinality(Asked!Groups)
    ELSE [result |-> Result, count |-> Count, overflow |-> host.words["OVERFLOW"] = 1]
           = Asked!ClassicAnswer

\* The polls suffice: the only queries that end in an exception are those of
\* GROUP BY that select no row, for which the stream carries no tlast.
FailsOnlyWhenEmpty ==
  host.pc = "failed" => host.query.groupby /\ Asked!Groups = {}

\* Every load and every execute comes to an end.
CommandsEnd == ~AtRest ~> AtRest
==============================================================================
