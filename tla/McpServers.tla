----------------------------- MODULE McpServers -----------------------------
(***************************************************************************)
(* One MCP server of evo-agent serve: its entry in the manager             *)
(* (mcp/manager.rs), the clients that were connected to it one after the   *)
(* other (mcp/client.rs, mcp/transport.rs), the monitor of each client     *)
(* (mcp/lifecycle.rs), the restart supervisor started by serve             *)
(* (bin/evo-agent.rs) and the handlers that restart or reconfigure it      *)
(* (api/mcp_api.rs).  A client and its process are a generation: a number. *)
(*                                                                         *)
(* Manager, supervisor and handlers share the entry and the toolkit; each  *)
(* access has its lock, nothing covers a whole restart.                    *)
(***************************************************************************)
EXTENDS Naturals, FiniteSets

CONSTANTS
  Task,          \* handlers of PUT /mcp/servers and POST /restart
  Req,           \* calls of the server's tools
  HangThreshold, \* hang_threshold; 0: off
  Lifetime,      \* max_lifetime_secs is set (max_idle_secs is)
  RestartOnReap, \* restart_on_reap
  MaxGen,        \* bound: generations
  MaxJobs        \* bound: jobs of the handlers

ASSUME McpAssumption ==
  /\ HangThreshold \in Nat /\ MaxGen \in Nat \ {0} /\ MaxJobs \in Nat
  /\ Lifetime \in BOOLEAN /\ RestartOnReap \in BOOLEAN /\ IsFiniteSet(Req)

VARIABLES
  disabled,  \* of the server in mcp.toml
  proc,      \* [Gen -> its process, counters and monitor]
  lastGen,   \* generations so far
  entry,     \* McpServerEntry of the server
  offered,   \* the generation whose client the toolkit's adapters hold; 0: none
  notices,   \* generations with a ReapNotice in their channel
  sup,       \* the supervisor task
  task,      \* [Task -> a handler]
  req,       \* [Req -> a call]
  abandoned, \* a handler was dropped while it connected
  jobs

mcpVars == <<disabled, proc, lastGen, entry, offered, notices, sup, task, req, abandoned, jobs>>

Gen == 1 .. MaxGen
NoProc == [alive |-> FALSE, monitor |-> FALSE, doomed |-> "no", inFlight |-> 0, hang |-> 0]
NewProc == [NoProc EXCEPT !.alive = TRUE, !.monitor = TRUE]

Free == [at |-> "idle", gen |-> 0, off |-> FALSE]
Ended == [at |-> "ended", rx |-> 0, gen |-> 0]
NoEntry == [status |-> "none", gen |-> 0, rx |-> FALSE]
Starting == [NoEntry EXCEPT !.status = "starting"]
Failed == [NoEntry EXCEPT !.status = "failed"]
Connected(g) == [status |-> "connected", gen |-> g, rx |-> TRUE]

\* The counters of the clients, the entry, and who connects fit together.
McpTypeOK ==
  /\ disabled \in BOOLEAN /\ abandoned \in BOOLEAN
  /\ lastGen \in 0 .. MaxGen /\ offered \in 0 .. lastGen /\ notices \subseteq 1 .. lastGen
  /\ proc \in [Gen -> [alive : BOOLEAN, monitor : BOOLEAN, doomed : {"no", "idle", "lifetime", "hung"},
                       inFlight : 0 .. Cardinality(Req), hang : 0 .. Cardinality(Req)]]
  /\ entry \in {NoEntry, Starting, Failed} \cup [status : {"connected"}, gen : 1 .. lastGen, rx : BOOLEAN]
  /\ sup \in [at : {"waiting", "backoff", "connecting", "registering", "taking"},
              rx : 1 .. lastGen, gen : 0 .. lastGen] \cup {Ended}
  /\ task \in [Task -> [at : {"idle", "shutdown", "reconnect", "closed", "connecting", "registering"},
                        gen : 0 .. lastGen, off : BOOLEAN]]
  /\ req \in [Req -> [at : {"idle", "active", "failed", "done", "dropped"}, gen : 0 .. lastGen]]
  /\ jobs \in 0 .. MaxJobs

\* connect_and_register_all at the start of serve, and the receivers handed to
\* the supervisor: of a server that is disabled or failed there is none.
McpInit ==
  /\ \/ /\ disabled = FALSE /\ lastGen = 1 /\ offered = 1
        /\ entry = [status |-> "connected", gen |-> 1, rx |-> FALSE]
        /\ sup = [at |-> "waiting", rx |-> 1, gen |-> 0]
     \/ /\ disabled \in BOOLEAN /\ lastGen = 0 /\ offered = 0
        /\ entry = IF disabled THEN NoEntry ELSE Failed
        /\ sup = Ended
  /\ proc = [g \in Gen |-> IF g <= lastGen THEN NewProc ELSE NoProc]
  /\ notices = {}
  /\ task = [t \in Task |-> Free]
  /\ req = [r \in Req |-> [at |-> "idle", gen |-> 0]]
  /\ abandoned = FALSE /\ jobs = 0

-----------------------------------------------------------------------------
(* Requests (request_tracked) and processes *)

\* What a request that comes back does to its client's counters.
Returned(p, ok) ==
  [p EXCEPT !.inFlight = @ - 1, !.hang = IF ok THEN 0 ELSE @ + 1]

\* An adapter calls; the write to a dead process fails.
CallTool(r) ==
  /\ req[r].at = "idle" /\ offered # 0
  /\ req' = [req EXCEPT ![r] = [at |-> IF proc[offered].alive THEN "active" ELSE "failed", gen |-> offered]]
  /\ proc' = [proc EXCEPT ![offered].inFlight = @ + 1]
  /\ UNCHANGED <<disabled, lastGen, entry, offered, notices, sup, task, abandoned, jobs>>

\* The server answers; an answer may be an error.
Answer(r, ok) ==
  /\ req[r].at = "active"
  /\ req' = [req EXCEPT ![r].at = "done"]
  /\ proc' = [proc EXCEPT ![req[r].gen] = Returned(@, ok)]
  /\ UNCHANGED <<disabled, lastGen, entry, offered, notices, sup, task, abandoned, jobs>>

\* Mutant: a failed request stays in flight.
FailStays(r) ==
  /\ req[r].at = "failed"
  /\ req' = [req EXCEPT ![r].at = "done"]
  /\ proc' = [proc EXCEPT ![req[r].gen].hang = @ + 1]
  /\ UNCHANGED <<disabled, lastGen, entry, offered, notices, sup, task, abandoned, jobs>>

\* The error of a dead process arrives.
Fail(r) ==
  /\ req[r].at = "failed"
  /\ req' = [req EXCEPT ![r].at = "done"]
  /\ proc' = [proc EXCEPT ![req[r].gen] = Returned(@, FALSE)]
  /\ UNCHANGED <<disabled, lastGen, entry, offered, notices, sup, task, abandoned, jobs>>

\* timeout_secs: the adapter drops the call where it waits, so nothing after
\* the await of request_tracked is executed.
TimeOut(r) ==
  /\ req[r].at = "active"
  /\ req' = [req EXCEPT ![r].at = "dropped"]
  /\ UNCHANGED <<disabled, proc, lastGen, entry, offered, notices, sup, task, abandoned, jobs>>

\* Mutant: the waiting requests are not drained.
DrainedNot(g) == req

\* drain_pending: every request that waits for generation g gets an error.
Drained(g) ==
  [r \in Req |-> IF req[r].at = "active" /\ req[r].gen = g THEN [req[r] EXCEPT !.at = "failed"] ELSE req[r]]

\* The process exits by itself: the reader sees the end of its output.
Exit(g) ==
  /\ proc[g].alive
  /\ proc' = [proc EXCEPT ![g].alive = FALSE] /\ req' = Drained(g)
  /\ UNCHANGED <<disabled, lastGen, entry, offered, notices, sup, task, abandoned, jobs>>

-----------------------------------------------------------------------------
(* The monitor of a client *)

\* Mutant: only the time of the last request counts.
IdleByTime(g) == TRUE

Idle(g) == proc[g].inFlight = 0
Hung(g) == HangThreshold > 0 /\ proc[g].hang >= HangThreshold

\* spawn_monitor: what it finds, in its order; how long a client has been idle
\* or alive is not modelled.  It starts the closing, sends the notice and ends.
Reap(g, why) ==
  /\ proc[g].monitor
  /\ \/ why = "lifetime" /\ Lifetime
     \/ why = "idle" /\ Idle(g)
     \/ why = "hung" /\ Hung(g)
  /\ proc' = [proc EXCEPT ![g].monitor = FALSE, ![g].doomed = why]
  /\ notices' = notices \cup {g}
  /\ UNCHANGED <<disabled, lastGen, entry, offered, sup, task, req, abandoned, jobs>>

\* The closing that the monitor has started runs in a task of its own.
CloseReaped(g) ==
  /\ proc[g].doomed # "no"
  /\ proc' = [proc EXCEPT ![g].doomed = "no", ![g].alive = FALSE]
  /\ req' = Drained(g)
  /\ UNCHANGED <<disabled, lastGen, entry, offered, notices, sup, task, abandoned, jobs>>

-----------------------------------------------------------------------------
(* connect_server, for the supervisor and for the handlers *)

ConnectStarts == entry' = Starting

ConnectSucceeds ==
  /\ lastGen < MaxGen
  /\ lastGen' = lastGen + 1
  /\ proc' = [proc EXCEPT ![lastGen + 1] = NewProc]
  /\ entry' = Connected(lastGen + 1)

\* Mutant: the error is returned, the status stays.
ConnectFailsQuietly == UNCHANGED <<lastGen, proc, entry>>

\* The process cannot be started, or handshake and discovery take too long.
ConnectFails == entry' = Failed /\ UNCHANGED <<lastGen, proc>>

-----------------------------------------------------------------------------
(* The supervisor *)

\* A notice: restart, or leave it to the operator.  When monitor and notice are
\* gone the channel is closed and the supervisor ends.
Receive ==
  /\ sup.at = "waiting"
  /\ \/ /\ sup.rx \in notices
        /\ notices' = notices \ {sup.rx}
        /\ sup' = IF RestartOnReap THEN [sup EXCEPT !.at = "backoff"] ELSE sup
     \/ /\ sup.rx \notin notices /\ ~proc[sup.rx].monitor
        /\ sup' = Ended /\ UNCHANGED notices
  /\ UNCHANGED <<disabled, proc, lastGen, entry, offered, task, req, abandoned, jobs>>

\* After the backoff: the configuration is the one serve has started with.  The
\* gate may refuse the server: nothing is connected, the backoff goes on.
SupConnects ==
  /\ sup.at = "backoff" /\ ConnectStarts
  /\ sup' = [sup EXCEPT !.at = "connecting"]
  /\ UNCHANGED <<disabled, proc, lastGen, offered, notices, task, req, abandoned, jobs>>

SupConnected ==
  /\ sup.at = "connecting"
  /\ \/ ConnectSucceeds /\ sup' = [sup EXCEPT !.at = "registering", !.gen = lastGen']
     \/ ConnectFails /\ sup' = [sup EXCEPT !.at = "backoff"]
  /\ UNCHANGED <<disabled, offered, notices, task, req, abandoned, jobs>>

\* Under the lock of the toolkit; a contract may refuse a tool.
SupRegisters ==
  /\ sup.at = "registering"
  /\ \/ offered' = sup.gen /\ sup' = [sup EXCEPT !.at = "taking"]
     \/ sup' = [sup EXCEPT !.at = "backoff"] /\ UNCHANGED offered
  /\ UNCHANGED <<disabled, proc, lastGen, entry, notices, task, req, abandoned, jobs>>

\* Mutant: the supervisor goes on without a receiver.
SupRearmsBlindly ==
  /\ sup.at = "taking"
  /\ sup' = [at |-> "waiting", rx |-> entry.gen, gen |-> 0] /\ entry' = [entry EXCEPT !.rx = FALSE]
  /\ UNCHANGED <<disabled, proc, lastGen, offered, notices, task, req, abandoned, jobs>>

\* take_reap_receiver: whatever is in the entry by now.
SupRearms ==
  /\ sup.at = "taking"
  /\ IF entry.rx
     THEN sup' = [at |-> "waiting", rx |-> entry.gen, gen |-> 0] /\ entry' = [entry EXCEPT !.rx = FALSE]
     ELSE sup' = Ended /\ UNCHANGED entry
  /\ UNCHANGED <<disabled, proc, lastGen, offered, notices, task, req, abandoned, jobs>>

-----------------------------------------------------------------------------
(* The handlers *)

\* restart_server: refused when the configuration, read now, disables it.
RestartServer(t) ==
  /\ task[t].at = "idle" /\ jobs < MaxJobs /\ ~disabled
  /\ task' = [task EXCEPT ![t].at = "reconnect"] /\ jobs' = jobs + 1
  /\ UNCHANGED <<disabled, proc, lastGen, entry, offered, notices, sup, req, abandoned>>

\* put_servers: the configuration is saved first.
Put(t, off) ==
  /\ task[t].at = "idle" /\ jobs < MaxJobs
  /\ disabled' = off
  /\ task' = [task EXCEPT ![t] = [at |-> "shutdown", gen |-> 0, off |-> off]]
  /\ jobs' = jobs + 1
  /\ UNCHANGED <<proc, lastGen, entry, offered, notices, sup, req, abandoned>>

\* disconnect: the entry is removed and its process killed.  Once in shutdown,
\* and once more in reconnect.  The tools stay in the toolkit, and the monitor
\* of the killed process goes on.
Disconnect(t) ==
  /\ task[t].at \in {"shutdown", "reconnect"}
  /\ entry' = NoEntry
  /\ IF entry.status = "connected"
     THEN proc' = [proc EXCEPT ![entry.gen].alive = FALSE] /\ req' = Drained(entry.gen)
     ELSE UNCHANGED <<proc, req>>
  /\ task' = [task EXCEPT ![t] = IF @.at = "reconnect" THEN [@ EXCEPT !.at = "closed"]
                                 ELSE IF @.off THEN Free ELSE [@ EXCEPT !.at = "reconnect"]]
  /\ UNCHANGED <<disabled, lastGen, offered, notices, sup, abandoned, jobs>>

Connect(t) ==
  /\ task[t].at = "closed" /\ ConnectStarts
  /\ task' = [task EXCEPT ![t].at = "connecting"]
  /\ UNCHANGED <<disabled, proc, lastGen, offered, notices, sup, req, abandoned, jobs>>

ConnectReturns(t) ==
  /\ task[t].at = "connecting"
  /\ \/ ConnectSucceeds /\ task' = [task EXCEPT ![t].at = "registering", ![t].gen = lastGen']
     \/ ConnectFails /\ task' = [task EXCEPT ![t] = Free]
  /\ UNCHANGED <<disabled, offered, notices, sup, req, abandoned, jobs>>

\* Under the lock of the toolkit; refused tools mark the server failed.
Register(t) ==
  /\ task[t].at = "registering"
  /\ task' = [task EXCEPT ![t] = Free]
  /\ \/ offered' = task[t].gen /\ UNCHANGED entry
     \/ entry' = Failed /\ UNCHANGED offered
  /\ UNCHANGED <<disabled, proc, lastGen, notices, sup, req, abandoned, jobs>>

\* The caller hangs up: the handler is dropped where it waits.
HandlerDropped(t) ==
  /\ task[t].at \in {"shutdown", "reconnect", "closed", "connecting"}
  /\ task' = [task EXCEPT ![t] = Free]
  /\ abandoned' = (abandoned \/ task[t].at = "connecting")
  /\ UNCHANGED <<disabled, proc, lastGen, entry, offered, notices, sup, req, jobs>>

-----------------------------------------------------------------------------
McpNext ==
  \/ \E r \in Req : CallTool(r) \/ (\E ok \in BOOLEAN : Answer(r, ok)) \/ Fail(r) \/ TimeOut(r)
  \/ \E g \in Gen : Exit(g) \/ (\E why \in {"idle", "lifetime", "hung"} : Reap(g, why)) \/ CloseReaped(g)
  \/ Receive \/ SupConnects \/ SupConnected \/ SupRegisters \/ SupRearms
  \/ \E t \in Task : RestartServer(t) \/ (\E off \in BOOLEAN : Put(t, off)) \/ Disconnect(t) \/ Connect(t)
                     \/ ConnectReturns(t) \/ Register(t) \/ HandlerDropped(t)

McpSpec == McpInit /\ [][McpNext]_mcpVars

-----------------------------------------------------------------------------
(* Properties *)

\* A client's counter of requests in flight is exact, but for the calls that
\* were dropped by a time-out, which stay counted for ever.
InFlightExact ==
  \A g \in Gen : proc[g].inFlight =
    Cardinality({r \in Req : req[r].gen = g /\ req[r].at \in {"active", "failed", "dropped"}})

\* A server is never found idle while a request waits for its answer: the
\* counter goes up before the request is sent (request_tracked).
NoBusyReap ==
  [][\A g \in Gen : proc[g].doomed = "no" /\ proc'[g].doomed = "idle"
                     => \A r \in Req : req[r].gen = g => req[r].at \notin {"active", "failed"}]_mcpVars

\* Nobody waits for a process that is gone: close and the end of its output
\* answer every pending request, those that came in during a reap too.
NobodyWaitsForDead == \A r \in Req : req[r].at = "active" => proc[req[r].gen].alive

\* A server is "starting" only while somebody connects it, or after a handler
\* was dropped while it did (nobody resets the status then).
StartingOwned ==
  entry.status = "starting" =>
    abandoned \/ sup.at = "connecting" \/ \E t \in Task : task[t].at = "connecting"

\* Types, exact counters, nobody left waiting, and a status somebody will change.
McpInv == McpTypeOK /\ InFlightExact /\ NobodyWaitsForDead /\ StartingOwned

\* mcp_api.rs: a disabled server is not connected.  The supervisor does not
\* look at the configuration, and a handler looks before it waits.
DisabledStaysOff == [][disabled => ~(entry # Starting /\ entry' = Starting)]_mcpVars

\* A restart by the supervisor replaces a reaped client, not a healthy one.
NoSpuriousRestart ==
  [][sup.at = "backoff" /\ sup'.at = "connecting" =>
       entry.gen = 0 \/ ~proc[entry.gen].alive \/ proc[entry.gen].doomed # "no"]_mcpVars
=============================================================================
