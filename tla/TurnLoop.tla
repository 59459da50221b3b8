------------------------------ MODULE TurnLoop ------------------------------
(***************************************************************************)
(* The turns of one session on the streaming path of AgentRunner, against  *)
(* the evorule engine.  A turn submits a command, then serves the engine's *)
(* events: an IoRequest starts the local ReAct loop (LLM, tools, LLM, ...) *)
(* and is answered by an io_response; Stable ends the turn; an Error is    *)
(* rewound within a budget; silence is cut by a heartbeat.  Two guards     *)
(* limit the turn and are rebuilt from the journal after a crash: the      *)
(* rewind budget and the runaway quota on tool calls.                      *)
(*                                                                         *)
(* The engine is external and modelled from how the runner uses it: it     *)
(* executes one command at a time, waits while a request is unanswered     *)
(* (commands queue up), and an event reaches only a turn that is running.  *)
(***************************************************************************)
EXTENDS Naturals, Sequences, FiniteSets

CONSTANTS
  MaxSteps,     \* config.max_steps
  Limit,        \* REWIND_BUDGET_LIMIT
  Threshold,    \* max_actions_per_run of the runaway policy
  GuardRetries, \* IO_GUARD_MAX_RETRIES
  Issued,       \* kinds of request the engine's rules issue
  Parallel,     \* max_parallel_tools > 1
  Reliable,     \* do all calls to the engine and the store succeed
  MaxTurns,     \* bound: turns of the session
  MaxCrashes,   \* bound: crashes of the process
  MaxRequests,  \* bound: requests the engine issues
  MaxBacklog,   \* bound: events in the stream when a transition is added
  MaxCalls      \* bound: tool calls in one answer of the LLM

ASSUME TurnLoopAssumption ==
  /\ {MaxSteps, Limit, MaxCalls} \subseteq Nat \ {0}
  /\ {Threshold, GuardRetries, MaxTurns, MaxCrashes, MaxRequests, MaxBacklog} \subseteq Nat
  /\ {Parallel, Reliable} \subseteq BOOLEAN

Request == {"call_external", "call_service", "unknown_io"}

ASSUME IssuedAssumption == Issued \subseteq Request

VARIABLES
  eng,      \* the engine: its phase, the last request's id, the turn it works for
  queue,    \* turns whose commands wait in the engine
  stream,   \* events delivered to the running turn and not yet consumed
  pc,       \* where the runner is
  turn,     \* number of the current or last turn
  loop,     \* the locals of the event loop
  journal,  \* what replay_rewind_budget_remaining reads in the journal
  actions,  \* the counter of the running turn's runaway guard
  invoked,  \* tool_invoked lines in the journal since the guard last tripped
  executed, \* tool calls executed since then
  tail,     \* the last tool-calling message in the store and its results
  ran,      \* calls of that message that were executed
  outcome,  \* how the last turn ended
  tally     \* counts over the session that no component keeps

engine == <<eng, queue>>
quota == <<actions, invoked, executed>>
vars == <<engine, quota, stream, pc, turn, loop, journal, tail, ran, outcome, tally>>

Notice == {"Stable", "StateTransition", "Error", "Timeout", "Violation"}
Outcome == {"none", "success", "error", "max_steps", "cancelled", "heartbeat_lost",
            "runaway_paused", "plan_submitted", "aborted"}

Fresh == [steps |-> 0, budget |-> Limit, rewound |-> FALSE, misses |-> 0, rid |-> 0, io |-> "none", todo |-> 0, rejections |-> 0]

TypeOK ==
  /\ eng \in [phase : {"idle", "busy", "waiting", "answered", "settling"},
              id : 0 .. MaxRequests, io : Request \cup {"none"}, owner : 0 .. MaxTurns]
  /\ queue \in Seq(1 .. MaxTurns)
  /\ stream \in Seq([type : Request \cup Notice, id : 0 .. MaxRequests])
  /\ pc \in {"idle", "wait", "react", "tools", "invoked", "executed", "down"}
  /\ turn \in 0 .. MaxTurns
  /\ loop \in [steps : 0 .. MaxSteps, budget : 0 .. Limit, rewound : BOOLEAN, misses : 0 .. 1,
               rid : 0 .. MaxRequests, io : Request \cup {"none"},
               todo : 0 .. MaxCalls, rejections : 0 .. GuardRetries]
  /\ journal \in [remaining : 0 .. Limit, progressed : BOOLEAN]
  /\ actions \in 0 .. Threshold
  /\ invoked \in Nat
  /\ executed \in Nat
  /\ tail \in [calls : 0 .. MaxCalls, results : 0 .. MaxCalls]
  /\ ran \subseteq 1 .. MaxCalls
  /\ outcome \in Outcome
  /\ tally \in [streak : Nat, worked : BOOLEAN,
                rejected : BOOLEAN, lost : Nat, crashes : 0 .. MaxCrashes]

Init ==
  /\ eng = [phase |-> "idle", id |-> 0, io |-> "none", owner |-> 0]
  /\ queue = << >>
  /\ stream = << >>
  /\ pc = "idle"
  /\ turn = 0
  /\ loop = Fresh
  /\ journal = [remaining |-> Limit, progressed |-> FALSE]
  /\ actions = 0
  /\ invoked = 0
  /\ executed = 0
  /\ tail = [calls |-> 0, results |-> 0]
  /\ ran = {}
  /\ outcome = "none"
  /\ tally = [streak |-> 0, worked |-> FALSE,
              rejected |-> FALSE, lost |-> 0, crashes |-> 0]

-----------------------------------------------------------------------------
(* The engine (external) *)

Running == pc \notin {"idle", "down"}

\* An event goes to the subscriber, if there is one.
Notify(type, id) ==
  stream' = IF Running THEN Append(stream, [type |-> type, id |-> id]) ELSE stream

\* The next command, while no request is unanswered.
EngineTake ==
  /\ eng.phase \in {"idle", "settling"}
  /\ queue # << >>
  /\ eng' = [eng EXCEPT !.phase = "busy", !.owner = Head(queue)]
  /\ queue' = Tail(queue)
  /\ UNCHANGED <<quota, stream, pc, turn, loop, journal, tail, ran, outcome, tally>>

\* The command needs the outside world.
EngineRequest ==
  /\ eng.phase = "busy"
  /\ eng.id < MaxRequests
  /\ \E io \in Issued :
       /\ eng' = [eng EXCEPT !.phase = "waiting", !.id = @ + 1, !.io = io]
       /\ Notify(io, eng.id + 1)
  /\ UNCHANGED <<quota, queue, pc, turn, loop, journal, tail, ran, outcome, tally>>

\* A transition, as often as the engine likes.  (An event of a type the runner does
\* not know resets the heartbeat and does nothing else: none is sent here.)
EngineTransition ==
  /\ eng.phase \in {"busy", "answered"}
  /\ Len(stream) < MaxBacklog
  /\ Notify("StateTransition", 0)
  /\ UNCHANGED <<engine, quota, pc, turn, loop, journal, tail, ran, outcome, tally>>

\* An error, the time-out of the request, a rule violation, or the stable state:
\* each takes the command at hand a step on.
EngineNotice ==
  /\ \E type \in Notice, next \in {"settling", "idle"} :
       /\ \/ type \in {"Error", "Violation"} /\ eng.phase \in {"busy", "answered"} /\ next = "settling"
          \/ type = "Timeout" /\ eng.phase = "waiting" /\ next = "settling"
          \/ type = "Stable" /\ eng.phase \in {"answered", "settling"} /\ next = "idle"
       /\ eng' = [eng EXCEPT !.phase = next]
       /\ Notify(type, 0)
  /\ UNCHANGED <<quota, queue, pc, turn, loop, journal, tail, ran, outcome, tally>>

Waits(id) == eng.phase = "waiting" /\ eng.id = id

\* submit_io_response: the answer frees the engine from its request; a
\* call_external is the last one of its command.
Answer(id) ==
  /\ eng' = IF ~Waits(id) THEN eng
            ELSE [eng EXCEPT !.phase = IF eng.io = "call_external" THEN "answered" ELSE "busy"]
  /\ UNCHANGED queue

\* The call may fail on the way; the callers below then go on as if it had not.
TryAnswer(id) == Answer(id) \/ (~Reliable /\ UNCHANGED engine)

\* To a turn that goes on listening the engine reports an answer to a request
\* it no longer waits for ("unknown/stale request_id", of the time-out class).
Heeded(id, events) == IF Waits(id) THEN events ELSE Append(events, [type |-> "Timeout", id |-> 0])

\* interrupt_session at the end of a failed turn, best effort.
Interrupted ==
  \/ UNCHANGED engine
  \/ eng' = [eng EXCEPT !.phase = "idle"] /\ queue' = << >>

-----------------------------------------------------------------------------
(* Start and end of a turn *)

Progress(j) == [j EXCEPT !.progressed = TRUE]

\* Mutant: the quota starts over in every turn.
ReplayActionsNone(lines) == 0

\* replay_runaway_actions: tool calls journalled since the guard last tripped.
ReplayActions(lines) == lines

\* replay_rewind_budget_remaining: the last balance, or all of it if a progress
\* event followed.
ReplayBudget(j) == IF j.progressed THEN Limit ELSE j.remaining

\* A turn is opened: turn_started goes into the journal, the guards are built,
\* the history is loaded (its open calls are voided before repair_dangling_tail
\* looks for them, see History), the subscription is made, and the command is
\* submitted or, after a crash, the hanging request answered.
Begin(mode) ==
  /\ pc \in {"idle", "down"}
  /\ turn < MaxTurns
  /\ mode = "CrashResume" => pc = "down"
  /\ turn' = turn + 1
  /\ journal' = Progress(journal)
  /\ actions' = ReplayActions(invoked)
  /\ loop' = [Fresh EXCEPT
       !.budget = IF mode = "CrashResume" THEN ReplayBudget(Progress(journal)) ELSE Limit]
  /\ tail' = [calls |-> 0, results |-> 0]
  /\ ran' = {}
  /\ stream' = << >>
  /\ UNCHANGED <<invoked, executed>>
  /\ tally' = [tally EXCEPT
       !.streak = IF mode = "CrashResume" THEN @ ELSE 0,
       !.worked = TRUE, !.rejected = FALSE]
  /\ \/ /\ pc' = "wait"
        /\ outcome' = "none"
        /\ IF mode = "CrashResume" /\ eng.phase = "waiting"
             THEN Answer(eng.id)
             ELSE queue' = Append(queue, turn + 1) /\ UNCHANGED eng
     \/ /\ ~Reliable
        /\ pc' = "idle"
        /\ outcome' = "aborted"
        /\ UNCHANGED engine

\* Every way out of the loop: the turn_ended line, no more subscription.
End(how) ==
  /\ pc' = "idle"
  /\ outcome' = how
  /\ stream' = << >>
  /\ loop' = Fresh
  /\ UNCHANGED turn

\* The process dies; the engine does not.
Crash ==
  /\ Running
  /\ tally.crashes < MaxCrashes
  /\ tally' = [tally EXCEPT !.crashes = @ + 1]
  /\ pc' = "down"
  /\ stream' = << >>
  /\ loop' = Fresh
  /\ UNCHANGED <<engine, quota, turn, journal, tail, ran, outcome>>

-----------------------------------------------------------------------------
(* The event loop *)

Event(types) == pc = "wait" /\ stream # << >> /\ Head(stream).type \in types

\* Consume the event; any event resets the heartbeat.
Consume == stream' = Tail(stream)
Heard == [loop EXCEPT !.misses = 0]

\* An IoRequest counts as a step.  Over the limit the turn ends and leaves the
\* request as it is.
OnIoRequest ==
  /\ Event(Request)
  /\ IF loop.steps = MaxSteps
       THEN End("max_steps") /\ journal' = Progress(journal) /\ UNCHANGED <<engine, tally>>
       ELSE /\ loop' = [Heard EXCEPT !.steps = @ + 1, !.rewound = FALSE, !.rid = Head(stream).id,
                          !.io = Head(stream).type, !.rejections = 0,
                          !.todo = IF Head(stream).type = "call_service" THEN 1 ELSE 0]
            /\ tally' = [tally EXCEPT !.worked = TRUE, !.lost = 0]
            /\ \/ /\ Head(stream).type = "unknown_io"
                  /\ pc' = "wait"
                  /\ Answer(Head(stream).id) /\ stream' = Heeded(Head(stream).id, Tail(stream))
               \/ /\ Head(stream).type = "unknown_io" /\ ~Reliable
                  /\ pc' = "wait"
                  /\ Consume /\ UNCHANGED engine
               \/ /\ Head(stream).type = "call_external"
                  /\ pc' = "react"
                  /\ Consume /\ UNCHANGED engine
               \/ /\ Head(stream).type = "call_service"
                  /\ pc' = "tools"
                  /\ Consume /\ UNCHANGED engine
            /\ UNCHANGED <<turn, journal, outcome>>
  /\ UNCHANGED <<quota, tail, ran>>

\* Mutant: a rewound turn that reaches Stable is a success.
OnStableAlwaysSuccess ==
  /\ Event({"Stable"})
  /\ End("success")
  /\ journal' = Progress(journal)
  /\ UNCHANGED <<engine, quota, tail, ran, tally>>

\* Stable: the result of the turn, unless its state cannot be read; or an error
\* when a rewind was the last thing that happened.
OnStable ==
  /\ Event({"Stable"})
  /\ \/ loop.rewound /\ End("error") /\ Interrupted
     \/ ~loop.rewound /\ End("success") /\ UNCHANGED engine
     \/ ~loop.rewound /\ ~Reliable /\ End("aborted") /\ UNCHANGED engine
  /\ journal' = Progress(journal)
  /\ UNCHANGED <<quota, tail, ran, tally>>

OnStateTransition ==
  /\ Event({"StateTransition"})
  /\ Consume
  /\ loop' = [Heard EXCEPT !.budget = Limit]
  /\ tally' = [tally EXCEPT !.streak = 0]
  /\ UNCHANGED <<engine, quota, pc, turn, journal, tail, ran, outcome>>

\* Mutant: the budget is read and not charged.
ConsumeNothing(b) == b

\* RewindBudget::consume
ConsumeBudget(b) == b - 1

\* An Error is rewound while the budget lasts; after a time-out the command is
\* submitted once more.  Otherwise the turn fails.
OnError ==
  /\ Event({"Error", "Timeout"})
  /\ \/ /\ loop.budget > 0
        /\ Consume
        /\ loop' = [Heard EXCEPT !.budget = ConsumeBudget(@), !.rewound = TRUE]
        /\ journal' = [journal EXCEPT !.remaining = ConsumeBudget(loop.budget), !.progressed = FALSE]
        /\ tally' = [tally EXCEPT !.streak = @ + 1, !.worked = FALSE]
        /\ \/ /\ Head(stream).type = "Timeout"
              /\ queue' = Append(queue, turn)
              /\ UNCHANGED eng
           \/ /\ Head(stream).type = "Error" \/ ~Reliable
              /\ UNCHANGED engine
        /\ UNCHANGED <<pc, turn, outcome>>
     \/ /\ loop.budget = 0 \/ ~Reliable
        /\ End("error")
        /\ Interrupted
        /\ journal' = Progress(journal)
        /\ UNCHANGED tally
  /\ UNCHANGED <<quota, tail, ran>>

\* A rule violation ends the turn.
OnViolation ==
  /\ Event({"Violation"})
  /\ End("error")
  /\ journal' = Progress(journal)
  /\ UNCHANGED <<engine, quota, tail, ran, tally>>

\* The connection to the engine's event stream is lost.
StreamLost ==
  /\ ~Reliable
  /\ pc = "wait"
  /\ stream = << >>
  /\ End("error")
  /\ journal' = Progress(journal)
  /\ UNCHANGED <<engine, quota, tail, ran, tally>>

\* Mutant: every time-out of the wait starts the count again.
MissedNever(n) == 0

\* heartbeat_misses += 1
Missed(n) == n + 1

\* No event for one heartbeat: wait once more, then answer whatever request the
\* session's history shows unanswered and give the turn up.
Heartbeat ==
  /\ pc = "wait"
  /\ stream = << >>
  /\ \/ /\ Missed(loop.misses) < 2
        /\ loop' = [loop EXCEPT !.misses = Missed(@)]
        /\ UNCHANGED <<engine, stream, pc, turn, journal, outcome, tally>>
     \/ /\ Missed(loop.misses) >= 2
        /\ TryAnswer(eng.id)
        /\ End("heartbeat_lost")
        /\ journal' = Progress(journal)
        /\ tally' = [tally EXCEPT
             !.lost = IF eng.phase = "waiting" /\ eng.owner # turn THEN @ + 1 ELSE 0]
  /\ UNCHANGED <<quota, tail, ran>>

\* The turn's token is cancelled: seen while waiting for an event and while the
\* LLM streams, where the request is answered first.
Cancel ==
  /\ \/ pc = "wait" /\ UNCHANGED engine
     \/ pc = "react" /\ TryAnswer(loop.rid)
  /\ End("cancelled")
  /\ journal' = Progress(journal)
  /\ UNCHANGED <<quota, tail, ran, tally>>

-----------------------------------------------------------------------------
(* The ReAct loop of a call_external request *)

\* The LLM fails, the wall clock budget is spent, the answer was filtered, the
\* tool of a call_service fails, or a message cannot be stored: the request is
\* answered with an error.
Fails ==
  /\ \/ pc = "react"
     \/ pc = "executed" /\ (loop.io = "call_service" \/ ~Reliable)
  /\ TryAnswer(loop.rid)
  /\ \E how \in {"error", "aborted"} : End(how)
  /\ journal' = Progress(journal)
  /\ UNCHANGED <<quota, tail, ran, tally>>

\* The next round of the loop, within the step limit.
NextRound(l) ==
  \/ /\ l.steps < MaxSteps
     /\ pc' = "react"
     /\ loop' = [l EXCEPT !.steps = @ + 1]
     /\ UNCHANGED <<engine, stream, turn, outcome>>
  \/ /\ l.steps = MaxSteps
     /\ TryAnswer(l.rid)
     /\ End("max_steps")

\* The LLM answers with n tool calls; the message is stored, and with parallel
\* tools the whole batch is executed ahead of the loop over its calls.
LlmTools(n) ==
  /\ pc = "react"
  /\ pc' = "tools"
  /\ loop' = [loop EXCEPT !.todo = n]
  /\ tail' = [calls |-> n, results |-> 0]
  /\ ran' = IF Parallel /\ n > 1 THEN 1 .. n ELSE {}
  /\ journal' = Progress(journal)
  /\ tally' = [tally EXCEPT !.streak = 0]
  /\ executed' = IF Parallel /\ n > 1 THEN executed + n ELSE executed
  /\ UNCHANGED <<engine, actions, invoked, stream, turn, outcome>>

\* The LLM gives its final answer.  The engine takes it, its output guard
\* refuses it (the answer is fed back, a few times), or the call fails.  When
\* the provider refuses a later round, the last content is the answer and the
\* turn ends at once.
LlmFinal ==
  /\ pc = "react"
  /\ \/ /\ Answer(loop.rid)
        /\ stream' = Heeded(loop.rid, stream)
        /\ pc' = "wait"
        /\ UNCHANGED <<turn, loop, outcome>>
     \/ loop.steps > 1 /\ Answer(loop.rid) /\ End("success")
     \/ loop.rejections < GuardRetries /\ NextRound([loop EXCEPT !.rejections = @ + 1])
     \/ loop.rejections = GuardRetries /\ TryAnswer(loop.rid) /\ End("aborted")
     \/ ~Reliable /\ TryAnswer(loop.rid) /\ End("error")
  /\ journal' = Progress(journal)
  /\ tally' = [tally EXCEPT !.streak = 0]
  /\ UNCHANGED <<quota, tail, ran>>

-----------------------------------------------------------------------------
(* Tool calls, of the LLM or of a call_service request *)

Call == tail.results + 1

\* Mutant: the guard trips one call late.
TrippedLate(n) == n > Threshold + 1

\* RunawayGuard::bump
Tripped(n) == n > Threshold

\* Over the quota: the guard's line is written and the turn pauses for a human,
\* the request stays as it is.
Pause ==
  /\ pc = "tools"
  /\ loop.todo > 0
  /\ Tripped(actions + 1)
  /\ End("runaway_paused")
  /\ journal' = Progress(journal)
  /\ actions' = 0
  /\ invoked' = 0
  /\ executed' = 0
  /\ UNCHANGED <<engine, tail, ran, tally>>

\* Within the quota: tool_invoked is written before anything is executed.
Invoke ==
  /\ pc = "tools"
  /\ loop.todo > 0
  /\ ~Tripped(actions + 1)
  /\ pc' = "invoked"
  /\ actions' = actions + 1
  /\ invoked' = invoked + 1
  /\ journal' = Progress(journal)
  /\ tally' = [tally EXCEPT !.streak = 0]
  /\ UNCHANGED <<engine, executed, stream, turn, loop, tail, ran, outcome>>

\* The acceptance gate refuses a call_service: a tool message is stored, and the
\* event loop goes on to the next event.
GateRejects ==
  /\ pc = "invoked"
  /\ loop.io = "call_service"
  /\ pc' = "wait"
  /\ tally' = [tally EXCEPT !.rejected = TRUE]
  /\ UNCHANGED <<engine, quota, stream, turn, loop, journal, tail, ran, outcome>>

\* The tool runs (once; a batch executed ahead is taken from the cache).
Execute ==
  /\ pc = "invoked"
  /\ pc' = "executed"
  /\ \/ /\ loop.io = "call_external"
        /\ ran' = ran \cup {Call}
        /\ executed' = IF Call \in ran THEN executed ELSE executed + 1
     \/ /\ loop.io = "call_service"
        /\ executed' = executed + 1
        /\ UNCHANGED ran
  /\ UNCHANGED <<engine, actions, invoked, stream, turn, loop, journal, tail, outcome, tally>>

\* The result of a call_service is stored and submitted.
StoreService ==
  /\ pc = "executed"
  /\ loop.io = "call_service"
  /\ \/ /\ pc' = "wait"
        /\ Answer(loop.rid)
        /\ stream' = Heeded(loop.rid, stream)
        /\ UNCHANGED <<turn, loop, outcome>>
     \/ ~Reliable /\ End("aborted") /\ UNCHANGED engine
  /\ journal' = Progress(journal)
  /\ UNCHANGED <<quota, tail, ran, tally>>

\* The result of a call of the LLM is stored; a plan_submit ends the turn here.
StoreResult ==
  /\ pc = "executed"
  /\ loop.io = "call_external"
  /\ tail' = [tail EXCEPT !.results = @ + 1]
  /\ \/ /\ pc' = "tools"
        /\ loop' = [loop EXCEPT !.todo = @ - 1]
        /\ UNCHANGED <<stream, turn, outcome>>
     \/ End("plan_submitted")
  /\ journal' = Progress(journal)
  /\ UNCHANGED <<engine, quota, ran, tally>>

\* All calls of the answer are done.
FeedBack ==
  /\ pc = "tools"
  /\ loop.todo = 0
  /\ NextRound(loop)
  /\ journal' = Progress(journal)
  /\ UNCHANGED <<quota, tail, ran, tally>>

-----------------------------------------------------------------------------

Engine == EngineTake \/ EngineRequest \/ EngineTransition \/ EngineNotice

Runner == \/ OnIoRequest \/ OnStable \/ OnStateTransition \/ OnError \/ OnViolation \/ Heartbeat
          \/ Fails \/ (\E n \in 1 .. MaxCalls : LlmTools(n)) \/ LlmFinal
          \/ Pause \/ Invoke \/ GateRejects \/ Execute \/ StoreService
          \/ StoreResult \/ FeedBack

Next == \/ \E mode \in {"Continuation", "CrashResume"} : Begin(mode)
        \/ Engine \/ Runner \/ StreamLost \/ Cancel \/ Crash

\* The executor polls the turn, its timers fire, the LLM's HTTP time-out ends
\* every call.  The engine, its event stream, the user and crashes owe nothing.
Safety == Init /\ [][Next]_vars

Spec == Safety /\ WF_vars(Runner)

-----------------------------------------------------------------------------
(* Properties *)

\* The runaway quota: never more tool executions than the policy allows before
\* a human has been asked, over all turns, crashes and restarts of the session.
QuotaHolds == executed <= Threshold

\* A turn never rewinds more than Limit times in a row without progress (a
\* transition, an LLM answer, a tool call); a restart does not refill the
\* budget ("重启不可绕过护栏").
RewindsBounded == tally.streak <= Limit

\* The part of it that the code keeps: within the life of one process errors,
\* time-outs, late answers and resubmitted commands, over any number of turns,
\* never get more rewinds in a row than the budget has.
RewindsBoundedAlive == tally.crashes = 0 => RewindsBounded

\* Types, and the bound on rewinds.
TurnInv == TypeOK /\ RewindsBoundedAlive

\* A turn that succeeds took up a request after its last rewind: no rewound
\* turn with nothing left to do is reported as done.
NoEmptySuccess == [][outcome' = "success" /\ outcome # "success" => tally.worked]_vars

\* Every turn ends, however the engine errs, times out or falls silent, unless
\* it sends transitions for ever: each of them resets the heartbeat and refills
\* the rewind budget, and none counts as a step.
TurnEnds == <>[][~EngineTransition]_vars => (Running ~> ~Running)

\* Without that hypothesis it does not hold.
TurnAlwaysEnds == Running ~> ~Running

(* What comments of the code say, and the code does not keep *)

\* A turn that ends leaves no request it took up unanswered.
NoRequestLeft ==
  [][pc' = "idle" /\ Running /\ loop.rid # 0 => ~(eng'.phase = "waiting" /\ eng'.id = loop.rid)]_vars

\* A rejection by the acceptance gate reaches the LLM: the turn does not starve.
RejectionFedBack == tally.rejected => outcome # "heartbeat_lost"

\* A turn lost to a hanging request is the last one lost to it.
NextTurnResumes == tally.lost <= 1
=============================================================================
