---------------------------- MODULE ToolPipeline ----------------------------
(***************************************************************************)
(* The tool calls of one runner.  The LLM answers with a batch of calls;   *)
(* with max_parallel_tools > 1 a batch of several calls is executed ahead  *)
(* (execute_tools_parallel) and its results are kept in a cache, then the  *)
(* loop over the calls serves each of them (execute_tool_stage).  Either   *)
(* way a call goes through one ToolExecutionPipeline: manifest and focus,  *)
(* the intents that governance rules judge, approval, user hooks,          *)
(* execution with retries.  The instances of a batch share the             *)
(* adjudication channel, a session of the engine behind a mutex.           *)
(*                                                                         *)
(* A call is a tool name with its arguments: the key of the cache.         *)
(***************************************************************************)
EXTENDS Naturals, Sequences, FiniteSets

CONSTANTS
  Call,        \* calls the LLM may make
  ReadOnly,    \* EffectClass::ReadOnly in the manifest
  Idempotent,  \* IdempotentRead or IdempotentWrite in retry_class
  Refused,     \* without a manifest or out of focus
  Narrowed,    \* outside the allow list of plan mode, in a turn in plan mode
  Denied,      \* ApprovalPolicy::AlwaysDeny
  Candidate,   \* evaluate_proposal gives a proposal
  Legacy,      \* the tool itself answers a call without "approved" with a proposal
  SelfApproved,\* calls whose arguments carry "approved" as the LLM wrote them
  Question,    \* ask_user: the first call answers ask_user_pending
  Intents,     \* number of intents a call submits (target scope, tool intent, egress)
  Forbidden,   \* calls whose intents the engine's rules reject
  Cap,         \* max_parallel_tools
  MaxRetries,  \* MAX_TOOL_RETRIES
  MaxPolls,    \* VERDICT_POLLS
  Hooks,       \* are user hooks configured
  Faults,      \* may requests to the engine and journal writes fail
  Nobody,      \* nobody holds the channel
  Answers,     \* bound: batches of calls the LLM may answer with
  MaxBatch,    \* bound: calls in one answer of the LLM
  MaxRounds,   \* bound: answers of the LLM
  MaxLate      \* bound: intents that wait in the engine

ASSUME ToolPipelineAssumption ==
  /\ {ReadOnly, Idempotent, Refused, Narrowed, Denied, Candidate, Legacy, SelfApproved, Question, Forbidden}
       \subseteq SUBSET Call
  /\ Intents \in [Call -> 0 .. 3]
  /\ \A c \in Forbidden : Intents[c] > 0
  /\ Answers \subseteq UNION {[1 .. n -> Call] : n \in 1 .. MaxBatch}
  /\ {Cap, MaxPolls, MaxBatch} \subseteq Nat \ {0}
  /\ {MaxRetries, MaxRounds, MaxLate} \subseteq Nat
  /\ {Hooks, Faults} \subseteq BOOLEAN
  /\ Nobody \notin Nat

VARIABLES
  round,    \* number of the LLM's answer
  batch,    \* its calls
  phase,    \* "llm", "preflight", "main", "asking" or "ended"
  pos,      \* the call the loop is at
  inst,     \* pipeline instances: 0 is the loop's, i > 0 executes batch[i] ahead
  cache,    \* parallel_tool_cache
  adj,      \* the AdjudicationChannel and its mutex
  wire,     \* intents submitted to its session and not yet judged
  runs,     \* executions of each call of the batch
  approved, \* calls of the batch that a decision approved
  trace,    \* call of the last entry of the ToolTraceCollector, as a set
  outrun,   \* has a verdict been given while an intent was still waiting
  misfiled  \* has an approval been attached to another call's entry

channel == <<adj, wire, outrun>>
record == <<runs, approved, trace, misfiled>>
vars == <<round, batch, phase, pos, inst, cache, channel, record>>

Main == 0
Slot == 0 .. MaxBatch
Place == 1 .. MaxBatch

\* "failed" is an error of the tool, "error" any other refusal, "blocked" a
\* refusal by governance or by a hook, "pending" a question to the user.
Result == {"ok", "failed", "error", "blocked", "proposal", "pending"}
Value == [kind : Result \cup {"none"}, round : 0 .. MaxRounds]
NoValue == [kind |-> "none", round |-> 0]

Instance == [call : Call \cup {Nobody}, stage : {"none", "gate", "approve", "exec", "done"},
             todo : 0 .. 3, preset : {"none", "approved", "answered", "claimed"}, cached : Value,
             retries : 0 .. MaxRetries, out : Result \cup {"none"}]
Idle == [call |-> Nobody, stage |-> "none", todo |-> 0, preset |-> "none", cached |-> NoValue,
         retries |-> 0, out |-> "none"]

Unlocked == [holder |-> Nobody, step |-> "idle", advanced |-> FALSE, polls |-> 0, attempt |-> 1]

TypeOK ==
  /\ round \in 0 .. MaxRounds
  /\ batch \in Seq(Call) /\ Len(batch) <= MaxBatch
  /\ phase \in {"llm", "preflight", "main", "asking", "ended"}
  /\ pos \in 1 .. MaxBatch + 1
  /\ inst \in [Slot -> Instance]
  /\ cache \in [Call -> Value]
  /\ adj \in [holder : Slot \cup {Nobody}, step : {"idle", "read", "submit", "poll"},
              advanced : BOOLEAN, polls : 0 .. MaxPolls, attempt : 1 .. 2]
  /\ wire \in Seq(Call) /\ Len(wire) <= MaxLate
  /\ runs \in [Place -> Nat]
  /\ approved \subseteq Place
  /\ trace \subseteq Call
  /\ {outrun, misfiled} \subseteq BOOLEAN

Init ==
  /\ round = 0
  /\ batch = << >>
  /\ phase = "llm"
  /\ pos = 1
  /\ inst = [s \in Slot |-> Idle]
  /\ cache = [c \in Call |-> NoValue]
  /\ adj = Unlocked
  /\ wire = << >>
  /\ runs = [p \in Place |-> 0]
  /\ approved = {}
  /\ trace = {}
  /\ outrun = FALSE
  /\ misfiled = FALSE

-----------------------------------------------------------------------------
(* The pipeline *)

\* Manifest and focus; a call that passes submits its intents.
Enter(c, preset, cached) ==
  [call |-> c, preset |-> preset, cached |-> cached, retries |-> 0,
   stage |-> IF c \in Refused THEN "done" ELSE IF Intents[c] > 0 THEN "gate" ELSE "approve",
   out |-> IF c \in Refused THEN "error" ELSE "none",
   todo |-> IF c \in Refused THEN 0 ELSE Intents[c]]

Outcome(s, kind) == [inst EXCEPT ![s].stage = "done", ![s].out = kind]

\* The mutex of the channel: one verdict at a time.
Lock(s) ==
  /\ inst[s].stage = "gate"
  /\ adj.holder = Nobody
  /\ adj' = [Unlocked EXCEPT !.holder = s, !.step = "read"]
  /\ UNCHANGED <<round, batch, phase, pos, inst, cache, wire, outrun, record>>

\* The version of the session is read before the intent is submitted; what
\* counts of it is whether it has advanced since.
ReadVersion ==
  /\ adj.step = "read"
  /\ adj' = [adj EXCEPT !.step = "submit", !.advanced = FALSE]
  /\ UNCHANGED <<round, batch, phase, pos, inst, cache, wire, outrun, record>>

Submitted == inst[adj.holder].call

\* The verdict goes into the journal (the loop's instance has one); a rejected
\* call goes into the trace.
Verdict(allowed) ==
  LET s == adj.holder IN
    /\ adj' = Unlocked
    /\ outrun' = (outrun \/ wire # << >>)
    /\ \/ /\ allowed
          /\ inst' = [inst EXCEPT ![s].todo = @ - 1,
                        ![s].stage = IF inst[s].todo = 1 THEN "approve" ELSE "gate"]
          /\ UNCHANGED trace
       \/ ~allowed /\ inst' = Outcome(s, "blocked") /\ trace' = {Submitted}
       \/ Faults /\ s = Main /\ inst' = Outcome(s, "error") /\ UNCHANGED trace
    /\ UNCHANGED <<round, batch, phase, pos, cache, wire, runs, approved, misfiled>>

\* The engine judges the intent while submit_command_wait waits.
Settled ==
  /\ adj.step = "submit"
  /\ wire = << >>
  /\ Verdict(Submitted \notin Forbidden)

\* The answer comes without a verdict, or not at all: fall back to polling.
Unsettled ==
  /\ adj.step = "submit"
  /\ adj' = [adj EXCEPT !.step = "poll"]
  /\ \/ Len(wire) < MaxLate /\ wire' = Append(wire, Submitted)
     \/ Faults /\ UNCHANGED wire
  /\ UNCHANGED <<round, batch, phase, pos, inst, cache, outrun, record>>

\* External: the engine takes the next intent of the session; an accepted one
\* advances its version, a rejected one is dropped.
EngineJudges ==
  /\ wire # << >>
  /\ wire' = Tail(wire)
  /\ adj' = [adj EXCEPT !.advanced = @ \/ (adj.holder # Nobody /\ Head(wire) \notin Forbidden)]
  /\ UNCHANGED <<round, batch, phase, pos, inst, cache, outrun, record>>

\* Mutant: the version is not looked at.
PollVersionOptimistic ==
  /\ adj.step = "poll"
  /\ \/ adj.polls = MaxPolls /\ Verdict(TRUE)
     \/ /\ adj.polls < MaxPolls
        /\ adj' = [adj EXCEPT !.polls = @ + 1]
        /\ UNCHANGED <<round, batch, phase, pos, inst, cache, wire, outrun, record>>

\* The version is polled; when it has not moved in the window, the intent was
\* rejected.
PollVersion ==
  /\ adj.step = "poll"
  /\ \/ adj.advanced /\ Verdict(TRUE)
     \/ ~adj.advanced /\ adj.polls = MaxPolls /\ Verdict(FALSE)
     \/ /\ ~adj.advanced /\ adj.polls < MaxPolls
        /\ adj' = [adj EXCEPT !.polls = @ + 1]
        /\ UNCHANGED <<round, batch, phase, pos, inst, cache, wire, outrun, record>>

\* Mutant: the guard of the mutex outlives the error.
ChannelErrorHolds ==
  /\ Faults
  /\ adj.step \in {"read", "poll"}
  /\ \/ /\ adj.attempt = 1
        /\ adj' = [Unlocked EXCEPT !.holder = adj.holder, !.step = "read", !.attempt = 2]
        /\ wire' = << >>
        /\ UNCHANGED <<inst, outrun>>
     \/ /\ adj.attempt = 2
        /\ adj' = [adj EXCEPT !.step = "idle"]
        /\ inst' = Outcome(adj.holder, "error")
        /\ UNCHANGED <<wire, outrun>>
  /\ UNCHANGED <<round, batch, phase, pos, cache, record>>

\* A request about the session fails: a second attempt with a new session, then
\* the call is refused (fail closed).
ChannelError ==
  /\ Faults
  /\ adj.step \in {"read", "poll"}
  /\ \/ /\ adj.attempt = 1
        /\ adj' = [Unlocked EXCEPT !.holder = adj.holder, !.step = "read", !.attempt = 2]
        /\ wire' = << >>
        /\ UNCHANGED <<inst, outrun>>
     \/ /\ adj.attempt = 2
        /\ adj' = Unlocked
        /\ outrun' = (outrun \/ wire # << >>)
        /\ inst' = Outcome(adj.holder, "error")
        /\ UNCHANGED wire
  /\ UNCHANGED <<round, batch, phase, pos, cache, record>>

\* Mutant: the entry of a paused call is left out of the trace.
NotedNot(c) == trace

\* The approval_pending entry of a paused call.
Noted(c) == {c}

\* AlwaysDeny, the proposal of a candidate without a decision, the user's hooks.
Approve(s) ==
  LET c == inst[s].call IN
    /\ inst[s].stage = "approve"
    /\ \/ c \in Denied /\ inst' = Outcome(s, "error") /\ UNCHANGED trace
       \/ /\ c \in Candidate \ Denied /\ inst[s].preset # "approved"
          /\ inst' = Outcome(s, "proposal") /\ trace' = Noted(c)
       \/ /\ c \notin Denied /\ (c \notin Candidate \/ inst[s].preset = "approved")
          /\ \/ inst' = [inst EXCEPT ![s].stage = "exec"]
             \/ Hooks /\ inst' = Outcome(s, "blocked")
          /\ UNCHANGED trace
    /\ UNCHANGED <<round, batch, phase, pos, cache, channel, runs, approved, misfiled>>

\* A transient error of an idempotent tool, a limited number of times.
Retryable(c, n) == c \in Idempotent /\ n < MaxRetries

PlaceOf(s) == IF s = Main THEN pos ELSE s

\* A legacy tool looks at its arguments: the runner puts the flag there after a
\* decision, or it is the LLM's own that nobody has taken out.
Unlocks(i) == i.preset \in {"approved", "claimed"}

\* A cached result is taken as it is.  The first call of a legacy tool or of a
\* question has no effect but its answer.  Otherwise the tool runs; a retry is
\* journalled first, by the loop's instance.
Execute(s) ==
  LET i == inst[s]  c == i.call IN
    /\ i.stage = "exec"
    /\ \/ /\ i.cached.kind # "none"
          /\ inst' = Outcome(s, i.cached.kind) /\ trace' = {c} /\ UNCHANGED runs
       \/ /\ i.cached.kind = "none" /\ c \in Legacy /\ ~Unlocks(i)
          /\ inst' = Outcome(s, "proposal") /\ trace' = {c} /\ UNCHANGED runs
       \/ /\ i.cached.kind = "none" /\ c \in Question /\ i.preset # "answered"
          /\ inst' = Outcome(s, "pending") /\ trace' = {c} /\ UNCHANGED runs
       \/ /\ i.cached.kind = "none"
          /\ c \in Legacy => Unlocks(i)
          /\ c \in Question => i.preset = "answered"
          /\ runs' = [runs EXCEPT ![PlaceOf(s)] = @ + 1]
          /\ \/ inst' = Outcome(s, "ok") /\ trace' = {c}
             \/ inst' = Outcome(s, "failed") /\ trace' = {c}
             \/ /\ Retryable(c, i.retries)
                /\ inst' = [inst EXCEPT ![s].retries = @ + 1] /\ UNCHANGED trace
             \/ /\ Retryable(c, i.retries) /\ Faults /\ s = Main
                /\ inst' = Outcome(s, "error") /\ UNCHANGED trace
    /\ UNCHANGED <<round, batch, phase, pos, cache, channel, approved, misfiled>>

-----------------------------------------------------------------------------
(* The LLM's answer, and the execution of a batch ahead *)

Ahead(calls) == Cap > 1 /\ Len(calls) > 1

\* The cache is cleared when a batch is about to be executed ahead.
Answer(calls) ==
  /\ phase = "llm"
  /\ round < MaxRounds
  /\ round' = round + 1
  /\ batch' = calls
  /\ pos' = 1
  /\ runs' = [p \in Place |-> 0]
  /\ approved' = {}
  /\ phase' = IF Ahead(calls) THEN "preflight" ELSE "main"
  /\ cache' = IF Ahead(calls) THEN [c \in Call |-> NoValue] ELSE cache
  /\ UNCHANGED <<inst, channel, trace, misfiled>>

Serial(i) == batch[i] \notin ReadOnly

\* The chunk of at most Cap read-only calls that i belongs to.
Chunk(i) == Cardinality({j \in 1 .. i - 1 : ~Serial(j)}) \div Cap

\* Calls that are not read-only run first, one after the other; then the
\* read-only ones, a chunk at a time.
MayStart(i) ==
  \A j \in DOMAIN batch :
    \/ inst[j].stage = "done"
    \/ Serial(i) /\ (j >= i \/ ~Serial(j))
    \/ ~Serial(i) /\ ~Serial(j) /\ Chunk(j) >= Chunk(i)

\* execute_single_tool takes the arguments as they are; the loop's first call
\* strips a flag of the LLM's (strip_approved_flag).
AsWritten(c) == IF c \in SelfApproved THEN "claimed" ELSE "none"

Start(i) ==
  /\ phase = "preflight"
  /\ i \in DOMAIN batch
  /\ inst[i].stage = "none"
  /\ MayStart(i)
  /\ inst' = [inst EXCEPT ![i] = Enter(batch[i], AsWritten(batch[i]), NoValue)]
  /\ UNCHANGED <<round, batch, phase, pos, cache, channel, record>>

\* Everything but a proposal is cached; of equal calls the last result stays.
Keep(c) ==
  LET kept == {i \in DOMAIN batch : batch[i] = c /\ inst[i].out # "proposal"} IN
    IF kept = {} THEN cache[c]
    ELSE LET last == CHOOSE i \in kept : \A j \in kept : j <= i
         IN  [kind |-> inst[last].out, round |-> round]

\* Mutant: the results are not kept for the loop.
FillNot ==
  /\ phase = "preflight"
  /\ \A i \in DOMAIN batch : inst[i].stage = "done"
  /\ phase' = "main"
  /\ inst' = [s \in Slot |-> Idle]
  /\ UNCHANGED <<round, batch, pos, cache, channel, record>>

Fill ==
  /\ phase = "preflight"
  /\ \A i \in DOMAIN batch : inst[i].stage = "done"
  /\ phase' = "main"
  /\ cache' = [c \in Call |-> Keep(c)]
  /\ inst' = [s \in Slot |-> Idle]
  /\ UNCHANGED <<round, batch, pos, channel, record>>

-----------------------------------------------------------------------------
(* The loop over the calls *)

\* check_parallel_cache: looked at whenever parallel tools are configured.
Lookup(c) == IF Cap > 1 THEN cache[c] ELSE NoValue

\* plan_mode_blocked comes before the cache and the pipeline, here only.
Serve ==
  /\ phase = "main"
  /\ pos \in DOMAIN batch
  /\ inst[Main].stage = "none"
  /\ \/ /\ batch[pos] \in Narrowed
        /\ inst' = [inst EXCEPT ![Main] =
                      [Idle EXCEPT !.call = batch[pos], !.stage = "done", !.out = "blocked"]]
     \/ /\ batch[pos] \notin Narrowed
        /\ inst' = [inst EXCEPT ![Main] = Enter(batch[pos], "none", Lookup(batch[pos]))]
  /\ UNCHANGED <<round, batch, phase, pos, cache, channel, record>>

\* A proposal needs a decision, the question of ask_user an answer (not
\* when it comes out of the cache); every other result is the call's.
Waits == LET i == inst[Main] IN
           \/ i.out = "proposal"
           \/ i.out = "pending" /\ i.cached.kind = "none"

Ask ==
  /\ phase = "main"
  /\ inst[Main].stage = "done"
  /\ Waits
  /\ phase' = "asking"
  /\ UNCHANGED <<round, batch, pos, inst, cache, channel, record>>

\* attach_approval_to_last
Attach == misfiled' = (misfiled \/ trace # {batch[pos]})

Advance == pos' = pos + 1 /\ inst' = [inst EXCEPT ![Main] = Idle]

\* Mutant: a rejected call is executed again as well.
DecideAlways ==
  /\ phase = "asking"
  /\ inst[Main].out = "proposal"
  /\ phase' = "main"
  /\ inst' = [inst EXCEPT ![Main] = Enter(batch[pos], "approved", NoValue)]
  /\ approved' \in {approved, approved \cup {pos}}
  /\ UNCHANGED <<round, batch, pos, cache, channel, runs, trace, misfiled>>

\* resolve_approval: approved, the call goes through the pipeline again;
\* rejected or timed out, that is its result.
Decide ==
  /\ phase = "asking"
  /\ inst[Main].out = "proposal"
  /\ phase' = "main"
  /\ \/ /\ approved' = approved \cup {pos}
        /\ inst' = [inst EXCEPT ![Main] = Enter(batch[pos], "approved", NoValue)]
        /\ UNCHANGED <<pos, misfiled>>
     \/ Attach /\ Advance /\ UNCHANGED approved
  /\ UNCHANGED <<round, batch, cache, channel, runs, trace>>

\* resolve_ask_user: answered, the tool is called again with the answer;
\* timed out or nobody to ask, that is the result.
ResolveQuestion ==
  /\ phase = "asking"
  /\ inst[Main].out = "pending"
  /\ phase' = "main"
  /\ \/ /\ inst' = [inst EXCEPT ![Main] = Enter(batch[pos], "answered", NoValue)]
        /\ UNCHANGED pos
     \/ Advance
  /\ UNCHANGED <<round, batch, cache, channel, record>>

\* The result of the call goes back to the LLM.
Reply ==
  /\ phase = "main"
  /\ inst[Main].stage = "done"
  /\ ~Waits
  /\ Advance
  /\ IF inst[Main].preset = "approved" THEN Attach ELSE UNCHANGED misfiled
  /\ UNCHANGED <<round, batch, phase, cache, channel, runs, approved, trace>>

\* The turn ends between two calls: the runaway guard pauses it, a message
\* cannot be stored, the user cancels, or a plan has been submitted.
Leave ==
  /\ phase = "main"
  /\ inst[Main].stage = "none"
  /\ phase' = "ended"
  /\ UNCHANGED <<round, batch, pos, inst, cache, channel, record>>

RoundDone ==
  /\ phase = "main"
  /\ pos \notin DOMAIN batch
  /\ phase' = "llm"
  /\ UNCHANGED <<round, batch, pos, inst, cache, channel, record>>

-----------------------------------------------------------------------------

Pipeline == \/ \E s \in Slot : Lock(s) \/ Approve(s) \/ Execute(s)
            \/ ReadVersion \/ Settled \/ Unsettled \/ PollVersion \/ ChannelError

Loop == (\E i \in Place : Start(i)) \/ Fill \/ Serve \/ Ask \/ Decide
        \/ ResolveQuestion \/ Reply \/ RoundDone

Next == (\E calls \in Answers : Answer(calls)) \/ Pipeline \/ Loop \/ Leave \/ EngineJudges

Safety == Init /\ [][Next]_vars

\* The executor polls the turn; requests, tools, approval and question windows
\* all have time-outs.  The LLM and the engine owe nothing.
Spec == Safety /\ WF_vars(Pipeline \/ Loop)

-----------------------------------------------------------------------------
(* Properties *)

\* No call whose intent the rules reject reaches execution, over lost and
\* unsettled submissions, polling and a second attempt, as long as every intent
\* is judged before its verdict is given (~outrun).
ForbiddenNeverRuns ==
  ~outrun => \A s \in Slot : inst[s].stage = "exec" => inst[s].call \notin Forbidden

\* A tool that is not idempotent runs at most once for a call of the LLM:
\* ahead of the loop, in it, after an approval or in a retry.
AtMostOnce ==
  \A p \in DOMAIN batch : batch[p] \notin Idempotent => runs[p] <= 1

\* A call that needs a decision has no effect without one that approves it: in
\* the loop no flag of the LLM's counts for one, and ahead of it none that the
\* pipeline asks for (a candidate's).  What remains is the call of a legacy
\* tool that carries the flag itself, in a batch that is executed ahead.
EffectIsApproved ==
  \A p \in DOMAIN batch :
    batch[p] \in Candidate \cup Legacy /\ runs[p] > 0
      => p \in approved \/ (Ahead(batch) /\ batch[p] \in SelfApproved \ Candidate)

\* attach_approval_to_last hits the entry of the call that was decided, whatever
\* the instances of the batch and the second pass wrote to the trace.
ApprovalsFiledRight == ~misfiled

\* Every answer of the LLM is worked off or the turn ends: nobody waits for the channel for ever.
RoundEnds == phase \in {"preflight", "main", "asking"} ~> phase \in {"llm", "ended"}

(* What comments of the code say, and the code does not keep *)

\* "An approved flag of the LLM's own is stripped: the runner alone controls the
\* decision gate" (runner.rs); the batch executed ahead takes it as it is.
RunnerAloneApproves ==
  \A p \in DOMAIN batch : batch[p] \in Candidate \cup Legacy /\ runs[p] > 0 => p \in approved

\* parallel_cache_clear is "called at the start of every call_external"
\* (runner.rs): a result that is served was computed for this answer of the LLM.
ServedIsFresh == inst[Main].cached.kind # "none" => inst[Main].cached.round = round

\* plan_mode_blocked sits "at the single point that covers both paths: a tool
\* outside the allow list does not enter the pipeline" (runner.rs); the batch
\* executed ahead does not pass that point.
PlanModeReadOnly == \A p \in DOMAIN batch : batch[p] \in Narrowed => runs[p] = 0

\* "The execution has happened and its real outcome must be fed back"
\* (pipeline.rs): what was done ahead is not refused when it is served.
EffectIsReported ==
  inst[Main].stage = "done" /\ inst[Main].cached = [kind |-> "ok", round |-> round]
    => inst[Main].out = "ok"

\* An intent is judged for itself (adjudicator.rs: TRUE means the version
\* advanced because the intent was let through).
VerdictIsOwn == \A s \in Slot : inst[s].stage = "exec" => inst[s].call \notin Forbidden

\* execute_tool_stage: the ApprovalRequired frame goes out before the decision
\* is awaited (a cached call is decided inside the gated path, without one).
AskedIsAnnounced == phase = "asking" => inst[Main].cached.kind = "none"

\* A question in a batch reaches the user.
QuestionsAreAsked ==
  [][inst[Main].out = "pending" /\ inst[Main].stage = "done" => phase' = "asking" \/ phase = "asking"]_vars
=============================================================================
