------------------------------ MODULE TaskRuns ------------------------------
(***************************************************************************)
(* The tasks a user starts from the workbench (api/task_api.rs, tasks/).   *)
(* A request checks the limits, starts the process and registers a run; a  *)
(* task of the runtime then watches the process every 100 ms: it emits its *)
(* output, carries out a cancellation in two stages (interrupt, then kill) *)
(* and emits the end.  Every event goes to a bounded replay buffer, and    *)
(* then, in a step of its own, to whoever is subscribed.  A viewer first   *)
(* reads the buffer, then whether the run has finished, then subscribes.   *)
(***************************************************************************)
EXTENDS Naturals, Sequences, SequencesExt, FiniteSets

CONSTANTS
  Run,           \* requests to run a task; the run has the same name
  Label, LabelOf,\* LabelOf : [Run -> Label]
  Viewer,        \* WebSocket streams; all of them look at WatchedRun
  WatchedRun,
  MaxConcurrent, \* MAX_CONCURRENT
  ReplayCap,     \* REPLAY_CAP
  FinishedKeep,  \* FINISHED_KEEP
  MaxOutput,     \* bound, [Run -> Nat]: lines of output of its process
  MaxCancels     \* bound, [Run -> Nat]: cancellations of a run

ASSUME TaskAssumption ==
  /\ LabelOf \in [Run -> Label] /\ WatchedRun \in Run
  /\ {MaxConcurrent, ReplayCap, FinishedKeep} \subseteq Nat \ {0}
  /\ MaxOutput \in [Run -> Nat] /\ MaxCancels \in [Run -> Nat]

VARIABLES
  stage,    \* [Run -> "none", "admitted", "watched", "exited", "finished", "over"]
  process,  \* [Run -> "none", "runs", "exiting" (interrupted), "gone"]
  output,   \* [Run -> lines emitted so far]
  signals,  \* [Run -> cancellations in the channel]
  sent,     \* [Run -> cancellations so far]
  cancel,   \* [Run -> cancel_phase]
  grace,    \* [Run -> a grace deadline is set]
  emitted,  \* events of WatchedRun in its buffer so far; they are numbered
  told,     \* events of WatchedRun that were broadcast
  due,      \* events of the step at hand that are still to be emitted
  ended,    \* the number its event "ended" has or gets; 0: not yet
  runs,     \* the runs in the manager
  viewer    \* [Viewer -> where it is and what it has sent to its client]

\* How far the events are.
events == <<emitted, told, due>>

taskVars == <<stage, process, output, signals, sent, cancel, grace, events, ended, runs, viewer>>

NewViewer == [at |-> "new", seen |-> << >>, queue |-> << >>]

IsFinished(r) == stage[r] \in {"finished", "over"}
Active == {r \in runs : ~IsFinished(r)}

TaskTypeOK ==
  /\ stage \in [Run -> {"none", "admitted", "watched", "exited", "finished", "over"}]
  /\ process \in [Run -> {"none", "runs", "exiting", "gone"}]
  /\ output \in [Run -> Nat] /\ sent \in [Run -> Nat]
  /\ signals \in [Run -> Nat] /\ cancel \in [Run -> 0 .. 2] /\ grace \in [Run -> BOOLEAN]
  /\ emitted \in Nat /\ told \in Nat /\ due \in Nat /\ ended \in Nat
  /\ ended <= emitted + due /\ told <= emitted /\ emitted <= told + 1
  /\ \A r \in Run : /\ output[r] <= MaxOutput[r] /\ signals[r] <= sent[r] /\ sent[r] <= MaxCancels[r]
                    /\ grace[r] => cancel[r] = 1
  /\ runs \subseteq {r \in Run : stage[r] \notin {"none", "admitted"}}
  /\ viewer \in [Viewer -> [at : {"new", "replayed", "open", "live", "closed"},
                            seen : Seq(Nat), queue : Seq(Nat)]]

TaskInit ==
  /\ stage = [r \in Run |-> "none"] /\ process = [r \in Run |-> "none"]
  /\ output = [r \in Run |-> 0] /\ signals = [r \in Run |-> 0] /\ sent = [r \in Run |-> 0]
  /\ cancel = [r \in Run |-> 0] /\ grace = [r \in Run |-> FALSE]
  /\ emitted = 0 /\ told = 0 /\ due = 0 /\ ended = 0 /\ runs = {}
  /\ viewer = [v \in Viewer |-> NewViewer]

-----------------------------------------------------------------------------
(* Events: those of WatchedRun, since the others have no viewer here *)

\* Whoever emits for the run waits for the call: one event after the other, and
\* nothing else in between.
Settled(r) == r = WatchedRun => due = 0 /\ told = emitted

\* n events of r are to be emitted next.
Emit(r, n) == due' = (IF r = WatchedRun THEN n ELSE due) /\ UNCHANGED <<emitted, told>>

\* TaskRun::emit: under its lock the event goes into the buffer ...
Push ==
  /\ due > 0 /\ told = emitted
  /\ emitted' = emitted + 1 /\ due' = due - 1
  /\ UNCHANGED <<stage, process, output, signals, sent, cancel, grace, told, ended, runs, viewer>>

\* ... and after that to the queues of those who have subscribed by then.
Broadcast ==
  /\ told < emitted
  /\ told' = told + 1
  /\ viewer' = [v \in Viewer |->
       IF viewer[v].at = "live" THEN [viewer[v] EXCEPT !.queue = Append(@, told + 1)] ELSE viewer[v]]
  /\ UNCHANGED <<stage, process, output, signals, sent, cancel, grace, emitted, due, ended, runs>>

\* replay_snapshot: the newest ReplayCap events.
Replay ==
  LET first == IF emitted > ReplayCap THEN emitted - ReplayCap ELSE 0
  IN [i \in 1 .. emitted - first |-> first + i]

-----------------------------------------------------------------------------
(* run_task *)

\* The limits, by what is registered now.
Admit(r) ==
  /\ stage[r] = "none"
  /\ Cardinality(Active) < MaxConcurrent
  /\ \A q \in Active : LabelOf[q] # LabelOf[r]
  /\ stage' = [stage EXCEPT ![r] = "admitted"]
  /\ UNCHANGED <<process, output, signals, sent, cancel, grace, events, ended, runs, viewer>>

\* Mutant: any run makes room.
KeptAny == IF Cardinality(runs) >= FinishedKeep THEN {runs \ {q} : q \in runs} ELSE {runs}

\* TaskManager::register makes room for a run: one finished run goes.  Which
\* one is up to the order of the names as text ("run-10" before "run-9").
Kept ==
  LET finished == {q \in runs : IsFinished(q)}
  IN IF Cardinality(finished) >= FinishedKeep THEN {runs \ {q} : q \in finished} ELSE {runs}

\* The process starts, the run is registered, gov_event and started follow.
SpawnTask(r) ==
  /\ stage[r] = "admitted"
  /\ stage' = [stage EXCEPT ![r] = "watched"] /\ process' = [process EXCEPT ![r] = "runs"]
  /\ \E kept \in Kept : runs' = kept \cup {r}
  /\ Emit(r, 2)
  /\ UNCHANGED <<output, signals, sent, cancel, grace, ended, viewer>>

\* The command cannot be started.
SpawnFails(r) ==
  /\ stage[r] = "admitted" /\ stage' = [stage EXCEPT ![r] = "none"]
  /\ UNCHANGED <<process, output, signals, sent, cancel, grace, events, ended, runs, viewer>>

-----------------------------------------------------------------------------
(* The process: external *)

ProcessExits(r) ==
  /\ process[r] \in {"runs", "exiting"} /\ process' = [process EXCEPT ![r] = "gone"]
  /\ UNCHANGED <<stage, output, signals, sent, cancel, grace, events, ended, runs, viewer>>

-----------------------------------------------------------------------------
(* cancel_task, and the watching task *)

CancelTask(r) ==
  /\ r \in runs /\ ~IsFinished(r) /\ sent[r] < MaxCancels[r]
  /\ sent' = [sent EXCEPT ![r] = @ + 1] /\ signals' = [signals EXCEPT ![r] = @ + 1]
  /\ UNCHANGED <<stage, process, output, cancel, grace, events, ended, runs, viewer>>

\* Step 1: a line of output (the diagnostics that may follow it are taken for one
\* more); once more after the exit.
Output(r) ==
  /\ stage[r] \in {"watched", "exited"} /\ Settled(r) /\ output[r] < MaxOutput[r]
  /\ output' = [output EXCEPT ![r] = @ + 1] /\ Emit(r, 1)
  /\ UNCHANGED <<stage, process, signals, sent, cancel, grace, ended, runs, viewer>>

Killed(r) == process' = [process EXCEPT ![r] = "gone"]

\* Mutant: every signal interrupts.
TakeSignalAgain(r) ==
  /\ stage[r] = "watched" /\ Settled(r) /\ signals[r] > 0
  /\ signals' = [signals EXCEPT ![r] = @ - 1]
  /\ cancel' = [cancel EXCEPT ![r] = 1] /\ grace' = [grace EXCEPT ![r] = (cancel[r] = 0)]
  /\ process' = [process EXCEPT ![r] = IF @ = "runs" THEN "exiting" ELSE @]
  /\ UNCHANGED <<stage, output, sent, events, ended, runs, viewer>>

\* Step 2: the first signal interrupts and opens the grace window, the next one
\* kills.
TakeSignal(r) ==
  /\ stage[r] = "watched" /\ Settled(r) /\ signals[r] > 0
  /\ signals' = [signals EXCEPT ![r] = @ - 1]
  /\ IF cancel[r] > 0
     THEN Killed(r) /\ cancel' = [cancel EXCEPT ![r] = 2] /\ grace' = [grace EXCEPT ![r] = FALSE]
     ELSE /\ process' = [process EXCEPT ![r] = IF @ = "runs" THEN "exiting" ELSE @]
          /\ cancel' = [cancel EXCEPT ![r] = 1] /\ grace' = [grace EXCEPT ![r] = TRUE]
  /\ UNCHANGED <<stage, output, sent, events, ended, runs, viewer>>

\* Mutant: the deadline stays.
GraceOverKeeps(r) ==
  /\ stage[r] = "watched" /\ Settled(r) /\ grace[r]
  /\ Killed(r) /\ cancel' = [cancel EXCEPT ![r] = 2]
  /\ UNCHANGED <<stage, output, signals, sent, grace, events, ended, runs, viewer>>

\* Step 3: the window is over.
GraceOver(r) ==
  /\ stage[r] = "watched" /\ Settled(r) /\ grace[r]
  /\ Killed(r) /\ cancel' = [cancel EXCEPT ![r] = 2] /\ grace' = [grace EXCEPT ![r] = FALSE]
  /\ UNCHANGED <<stage, output, signals, sent, events, ended, runs, viewer>>

\* Step 4: the process is gone.
SeeExit(r) ==
  /\ stage[r] = "watched" /\ Settled(r) /\ process[r] = "gone" /\ stage' = [stage EXCEPT ![r] = "exited"]
  /\ UNCHANGED <<process, output, signals, sent, cancel, grace, events, ended, runs, viewer>>

\* The process cannot be asked: the run is given up like one that has ended,
\* whether the process lives or not.
WaitFails(r) ==
  /\ stage[r] = "watched" /\ Settled(r) /\ stage' = [stage EXCEPT ![r] = "exited"]
  /\ UNCHANGED <<process, output, signals, sent, cancel, grace, events, ended, runs, viewer>>

\* TaskRun::finish ...
Finish(r) ==
  /\ stage[r] = "exited" /\ Settled(r) /\ stage' = [stage EXCEPT ![r] = "finished"]
  /\ UNCHANGED <<process, output, signals, sent, cancel, grace, events, ended, runs, viewer>>

\* ... then the events ended and gov_event.
EmitEnded(r) ==
  /\ stage[r] = "finished" /\ stage' = [stage EXCEPT ![r] = "over"]
  /\ ended' = (IF r = WatchedRun THEN emitted + 1 ELSE ended) /\ Emit(r, 2)
  /\ UNCHANGED <<process, output, signals, sent, cancel, grace, runs, viewer>>

-----------------------------------------------------------------------------
(* A viewer (handle_stream) *)

\* The replay buffer of a run that the manager knows.
Open(v) ==
  /\ viewer[v].at = "new" /\ WatchedRun \in runs
  /\ viewer' = [viewer EXCEPT ![v].at = "replayed", ![v].seen = Replay]
  /\ UNCHANGED <<stage, process, output, signals, sent, cancel, grace, events, ended, runs>>

\* A finished run: the replay is taken for everything.
CheckFinished(v) ==
  /\ viewer[v].at = "replayed"
  /\ viewer' = [viewer EXCEPT ![v].at = IF IsFinished(WatchedRun) THEN "closed" ELSE "open"]
  /\ UNCHANGED <<stage, process, output, signals, sent, cancel, grace, events, ended, runs>>

\* Mutant: the newest event comes again.
SubscribeRepeats(v) ==
  /\ viewer[v].at = "open"
  /\ viewer' = [viewer EXCEPT ![v].at = "live", ![v].queue = <<emitted>>]
  /\ UNCHANGED <<stage, process, output, signals, sent, cancel, grace, events, ended, runs>>

Subscribe(v) ==
  /\ viewer[v].at = "open"
  /\ viewer' = [viewer EXCEPT ![v].at = "live"]
  /\ UNCHANGED <<stage, process, output, signals, sent, cancel, grace, events, ended, runs>>

\* Mutant: the stream is closed when "ended" comes.
ForwardStops(v) ==
  /\ viewer[v].at = "live" /\ viewer[v].queue # << >>
  /\ LET e == Head(viewer[v].queue)
     IN viewer' = [viewer EXCEPT ![v].seen = IF e = ended THEN @ ELSE Append(@, e), ![v].queue = Tail(@),
                                 ![v].at = IF e = ended THEN "closed" ELSE "live"]
  /\ UNCHANGED <<stage, process, output, signals, sent, cancel, grace, events, ended, runs>>

\* An event goes to the client; after "ended" the stream is closed.
Forward(v) ==
  /\ viewer[v].at = "live" /\ viewer[v].queue # << >>
  /\ LET e == Head(viewer[v].queue)
     IN viewer' = [viewer EXCEPT ![v].seen = Append(@, e), ![v].queue = Tail(@),
                                 ![v].at = IF e = ended THEN "closed" ELSE "live"]
  /\ UNCHANGED <<stage, process, output, signals, sent, cancel, grace, events, ended, runs>>

-----------------------------------------------------------------------------
TaskNext ==
  \/ \E r \in Run : \/ Admit(r) \/ SpawnTask(r) \/ SpawnFails(r) \/ ProcessExits(r) \/ CancelTask(r)
                    \/ Output(r) \/ TakeSignal(r) \/ GraceOver(r) \/ SeeExit(r) \/ WaitFails(r)
                    \/ Finish(r) \/ EmitEnded(r)
  \/ Push \/ Broadcast
  \/ \E v \in Viewer : Open(v) \/ CheckFinished(v) \/ Subscribe(v) \/ Forward(v)

TaskSpec == TaskInit /\ [][TaskNext]_taskVars

\* A step of the watching task, which the runtime runs every 100 ms; and an event
\* that is to be emitted, by it or by the request before it.
Watch(r) == TakeSignal(r) \/ GraceOver(r) \/ SeeExit(r) \/ Finish(r) \/ EmitEnded(r)
Emits == Push \/ Broadcast

-----------------------------------------------------------------------------
(* Properties *)

\* A run whose process is being watched can be found and cancelled: making room
\* for a new run takes only finished ones.
ActiveKept == \A r \in Run : stage[r] \in {"watched", "exited"} => r \in runs

\* A process that does not react to the interruption is killed, however many
\* cancellations come and whenever: one that was accepted stops the process,
\* unless the operating system refuses to say whether it lives (WaitFails) and
\* the run is given up.
CancelStops == \A r \in Run : signals[r] > 0 ~> (process[r] = "gone" \/ stage[r] # "watched")

\* What a viewer gets is in the order of the events, although buffer and
\* subscription are read one after the other, and at most one event comes twice:
\* the one that was in the buffer and not yet broadcast when it subscribed.
SeenInOrder ==
  \A v \in Viewer :
    LET got == viewer[v].seen \o viewer[v].queue
        Again(i) == got[i] = got[i + 1]
    IN /\ \A i \in 1 .. Len(got) - 1 : got[i] <= got[i + 1]
       /\ \A i, j \in 1 .. Len(got) - 1 : Again(i) /\ Again(j) => i = j

\* Types, runs that can be found as long as they run, and viewers that see them in order.
TaskInv == TaskTypeOK /\ ActiveKept /\ SeenInOrder

\* Nothing comes twice.  It does: push and broadcast are two steps, and a viewer
\* that replays and subscribes between them gets the event both ways.
NothingTwice ==
  \A v \in Viewer : LET got == viewer[v].seen \o viewer[v].queue
                    IN \A i \in 1 .. Len(got) - 1 : got[i] < got[i + 1]

\* A stream that is subscribed when the run ends is closed, after the event
\* "ended": the queue holds it until it was sent.
LiveSeesEnd ==
  \A v \in Viewer : (viewer[v].at = "live" /\ ended \in ToSet(viewer[v].queue))
                      ~> (viewer[v].at = "closed" /\ ended \in ToSet(viewer[v].seen))

\* task_api.rs: one run of a label at a time.  The check and the registration
\* are two critical sections.
OnePerLabel == \A p, q \in Active : LabelOf[p] = LabelOf[q] => p = q

\* task_api.rs: after the replay nothing is missing.  What is emitted between
\* the replay and the subscription is, the end included: such a stream is
\* never closed, since it holds the run's sender itself.
StreamsEnd == \A v \in Viewer : (viewer[v].at = "live" /\ ended # 0) ~> viewer[v].at = "closed"
=============================================================================
