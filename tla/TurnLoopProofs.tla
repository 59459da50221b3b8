-------------------------- MODULE TurnLoopProofs ---------------------------
(***************************************************************************)
(* TurnLoop for every threshold, limit, number of turns, crashes, requests *)
(* and tool calls.  The runaway quota, as long as tool batches are not     *)
(* executed ahead of the guard (Parallel = FALSE); then types, the rewind  *)
(* budget and what a successful turn rests on.                             *)
(*                                                                         *)
(* QuotaHolds counts executions, the guard counts calls, the journal       *)
(* counts lines: the invariant that carries the proof relates the three.   *)
(***************************************************************************)
EXTENDS TurnLoop, TLAPS

\* A running turn's guard agrees with the journal, every execution has its
\* line, and a call that is journalled and not yet executed is one line ahead.
IInv ==
  /\ actions \in Nat /\ invoked \in Nat /\ executed \in Nat
  /\ Running => actions = invoked
  /\ executed <= invoked
  /\ pc = "invoked" => executed < invoked
  /\ invoked <= Threshold

\* The quota is a number.
LEMMA ThresholdNat == Threshold \in Nat
  BY TurnLoopAssumption

\* The invariant holds at the start.
LEMMA IInvInit == Init => IInv
  BY ThresholdNat DEF Init, IInv, Running

\* Every step of the engine, the runner and the user keeps it: the guard's
\* counter and the journal move together (Invoke, Pause), an execution spends
\* the line written for it (Execute), a new turn reads the journal (Begin).
LEMMA IInvInductive ==
  ASSUME ~Parallel, IInv, [Next]_vars
  PROVE  IInv'
<1> USE ThresholdNat DEF IInv, Running, quota
<1>1. CASE Engine
  BY <1>1 DEF Engine, EngineTake, EngineRequest, EngineTransition, EngineNotice, engine
<1>2. ASSUME NEW mode \in {"Continuation", "CrashResume"}, Begin(mode)
      PROVE  IInv'
  BY <1>2 DEF Begin, ReplayActions
<1>3. CASE Crash
  BY <1>3 DEF Crash
<1>4. CASE Cancel
  BY <1>4 DEF Cancel, End
<1>5. CASE OnIoRequest
  BY <1>5 DEF OnIoRequest, Event, End
<1>6. CASE OnStable \/ OnViolation \/ StreamLost
  BY <1>6 DEF OnStable, OnViolation, StreamLost, Event, End
<1>7. CASE OnStateTransition
  BY <1>7 DEF OnStateTransition, Event
<1>8. CASE OnError
  BY <1>8 DEF OnError, Event, End
<1>9. CASE Heartbeat
  BY <1>9 DEF Heartbeat, End
<1>10. CASE Fails
  BY <1>10 DEF Fails, End
<1>11. ASSUME NEW n \in 1 .. MaxCalls, LlmTools(n) PROVE IInv'
  BY <1>11 DEF LlmTools
<1>12. CASE LlmFinal
  BY <1>12 DEF LlmFinal, NextRound, End
<1>13. CASE Pause
  BY <1>13 DEF Pause, End
<1>14. CASE Invoke
  BY <1>14 DEF Invoke, Tripped
<1>15. CASE GateRejects
  BY <1>15 DEF GateRejects
<1>16. CASE Execute
  BY <1>16 DEF Execute
<1>17. CASE StoreService \/ StoreResult
  BY <1>17 DEF StoreService, StoreResult, End
<1>18. CASE FeedBack
  BY <1>18 DEF FeedBack, NextRound, End
<1>19. CASE UNCHANGED vars
  BY <1>19 DEF vars
<1> QED
  BY <1>1, <1>2, <1>3, <1>4, <1>5, <1>6, <1>7, <1>8, <1>9, <1>10, <1>11, <1>12, <1>13,
     <1>14, <1>15, <1>16, <1>17, <1>18, <1>19 DEF Next, Runner

\* The runaway quota (RunawayGuard and replay_runaway_actions): over all turns,
\* crashes and restarts of a session, the loop never executes more tool calls
\* than the policy allows before it has paused for a human.
THEOREM Quota ==
  ASSUME ~Parallel
  PROVE  Safety => []QuotaHolds
<1>1. IInv => QuotaHolds
  BY ThresholdNat DEF IInv, QuotaHolds
<1> QED
  BY IInvInit, IInvInductive, <1>1, PTL DEF Safety
-----------------------------------------------------------------------------
(* Types, the rewind budget and what a success rests on *)

\* A turn that runs has a number, and its guard agrees with the journal,
\* whether or not batches run ahead of the guard.
GuardInv == (Running => turn > 0 /\ actions = invoked) /\ invoked <= Threshold

\* The calls of an answer are stored one after the other: what is left to do
\* and what is stored make up the answer.
BatchInv ==
  /\ pc \in {"react", "tools", "invoked", "executed"} =>
       loop.io \in {"call_external", "call_service"} /\ ~loop.rewound
  /\ pc \in {"invoked", "executed"} => loop.todo > 0
  /\ pc \in {"tools", "invoked", "executed"} /\ loop.io = "call_external" =>
       tail.results + loop.todo = tail.calls

\* Until the first crash the rewinds in a row and what is left of the budget
\* stay within the limit; a turn that is not rewound has work to show.
RewindInv ==
  /\ pc = "down" => tally.crashes > 0
  /\ tally.crashes = 0 => tally.streak <= Limit
  /\ tally.crashes = 0 /\ Running => tally.streak + loop.budget <= Limit
  /\ Running /\ ~loop.rewound => tally.worked

TurnIInv == TypeOK /\ GuardInv /\ BatchInv /\ RewindInv

\* The constants, one by one.
LEMMA TurnLoopConstants ==
  /\ MaxSteps \in Nat \ {0} /\ Limit \in Nat \ {0} /\ MaxCalls \in Nat \ {0}
  /\ Threshold \in Nat /\ GuardRetries \in Nat /\ MaxTurns \in Nat
  /\ MaxCrashes \in Nat /\ MaxRequests \in Nat /\ MaxBacklog \in Nat
  /\ Issued \subseteq Request
  BY TurnLoopAssumption, IssuedAssumption

\* The types by owner: the engine's, the runner's and the session's.
EngineType ==
  /\ eng \in [phase : {"idle", "busy", "waiting", "answered", "settling"},
              id : 0 .. MaxRequests, io : Request \cup {"none"}, owner : 0 .. MaxTurns]
  /\ queue \in Seq(1 .. MaxTurns)
EventType == [type : Request \cup Notice, id : 0 .. MaxRequests]
LoopType == [steps : 0 .. MaxSteps, budget : 0 .. Limit, rewound : BOOLEAN, misses : 0 .. 1,
             rid : 0 .. MaxRequests, io : Request \cup {"none"},
             todo : 0 .. MaxCalls, rejections : 0 .. GuardRetries]
TallyType == [streak : Nat, worked : BOOLEAN,
              rejected : BOOLEAN, lost : Nat, crashes : 0 .. MaxCrashes]
RunnerType ==
  /\ stream \in Seq(EventType)
  /\ pc \in {"idle", "wait", "react", "tools", "invoked", "executed", "down"}
  /\ turn \in 0 .. MaxTurns
  /\ loop \in LoopType
  /\ outcome \in Outcome
RecordType ==
  /\ journal \in [remaining : 0 .. Limit, progressed : BOOLEAN]
  /\ actions \in 0 .. Threshold
  /\ invoked \in Nat
  /\ executed \in Nat
  /\ tail \in [calls : 0 .. MaxCalls, results : 0 .. MaxCalls]
  /\ ran \subseteq 1 .. MaxCalls
  /\ tally \in TallyType

\* The parts are the whole.
LEMMA TypeParts == TypeOK <=> EngineType /\ RunnerType /\ RecordType
  BY DEF TypeOK, EngineType, RunnerType, RecordType, EventType, LoopType, TallyType

\* Answers and interruptions leave the engine well typed.
LEMMA AnswerType ==
  ASSUME EngineType, NEW id, TryAnswer(id) \/ Answer(id) \/ Interrupted \/ UNCHANGED engine
  PROVE  EngineType'
<1>1. CASE UNCHANGED engine
  BY <1>1 DEF EngineType, engine
<1>2. CASE Answer(id)
  BY <1>2 DEF EngineType, Answer
<1>3. CASE Interrupted
  <2>1. CASE eng' = [eng EXCEPT !.phase = "idle"] /\ queue' = << >>
    <3>1. << >> \in Seq(1 .. MaxTurns)
      OBVIOUS
    <3> QED
      BY <2>1, <3>1 DEF EngineType
  <2> QED
    BY <1>1, <1>3, <2>1 DEF Interrupted
<1> QED
  BY <1>1, <1>2, <1>3 DEF TryAnswer

\* An answer to nobody is an event like another.
LEMMA HeededType ==
  ASSUME NEW id, NEW events \in Seq(EventType)
  PROVE  Heeded(id, events) \in Seq(EventType)
<1>1. [type |-> "Timeout", id |-> 0] \in EventType
  BY TurnLoopConstants DEF EventType, Notice
<1> QED
  BY <1>1 DEF Heeded

\* A progress event keeps the journal well typed.
LEMMA ProgressType ==
  ASSUME RecordType
  PROVE  Progress(journal) \in [remaining : 0 .. Limit, progressed : BOOLEAN]
  BY DEF RecordType, Progress

\* The locals of a turn that has not started.
LEMMA FreshType == Fresh \in LoopType
  BY TurnLoopConstants DEF Fresh, LoopType

\* Any event resets the heartbeat and nothing else.
LEMMA HeardType ==
  ASSUME RunnerType
  PROVE  /\ Heard \in LoopType /\ Heard.steps = loop.steps /\ Heard.budget = loop.budget
         /\ Heard.rewound = loop.rewound /\ Heard.io = loop.io
<1>1. loop \in LoopType
  BY DEF RunnerType
<1> QED
  BY <1>1 DEF Heard, LoopType

\* The end of a turn leaves the runner well typed.
LEMMA EndType ==
  ASSUME RunnerType, NEW how \in Outcome, End(how)
  PROVE  RunnerType' /\ pc' = "idle" /\ loop' = Fresh
  BY FreshType DEF RunnerType, End

\* The event at the head of the stream.
LEMMA HeadType ==
  ASSUME RunnerType, NEW types, Event(types)
  PROVE  /\ Head(stream) \in EventType /\ Head(stream).type \in types
         /\ Head(stream).id \in 0 .. MaxRequests
         /\ Tail(stream) \in Seq(EventType) /\ pc = "wait"
<1>1. stream \in Seq(EventType) /\ stream # << >> /\ pc = "wait" /\ Head(stream).type \in types
  BY DEF RunnerType, Event
<1>2. Head(stream) \in EventType /\ Tail(stream) \in Seq(EventType)
  BY <1>1
<1> QED
  BY <1>1, <1>2 DEF EventType

TurnParts == EngineType /\ RunnerType /\ RecordType /\ GuardInv /\ BatchInv /\ RewindInv

\* A turn that ends keeps the invariant, however it ends.
LEMMA EndKeeps ==
  ASSUME TurnParts, NEW how \in Outcome, End(how), EngineType', journal' = Progress(journal),
         tally' \in TallyType, tally'.crashes = tally.crashes, tally'.streak \in {0, tally.streak},
         UNCHANGED quota \/ (actions' = 0 /\ invoked' = 0 /\ executed' = 0),
         tail' \in [calls : 0 .. MaxCalls, results : 0 .. MaxCalls], UNCHANGED ran
  PROVE  TurnParts'
<1> USE TurnLoopConstants
<1>1. RunnerType' /\ pc' = "idle"
  BY EndType DEF TurnParts
<1>2. RecordType'
  BY ProgressType DEF TurnParts, RecordType, quota
<1>3. GuardInv' /\ BatchInv'
  BY <1>1 DEF TurnParts, GuardInv, BatchInv, Running, quota
<1>4. RewindInv'
  BY <1>1 DEF TurnParts, RewindInv, Running
<1> QED
  BY <1>1, <1>2, <1>3, <1>4 DEF TurnParts

\* ... among them the ends that count nothing.
LEMMA PlainEndKeeps ==
  ASSUME TurnParts, NEW how \in Outcome, End(how), NEW id,
         TryAnswer(id) \/ Answer(id) \/ Interrupted \/ UNCHANGED engine, journal' = Progress(journal),
         UNCHANGED tally, UNCHANGED quota, UNCHANGED tail, UNCHANGED ran
  PROVE  TurnParts'
<1>1. EngineType'
  BY AnswerType DEF TurnParts
<1>2. /\ tally' \in TallyType /\ tally'.crashes = tally.crashes /\ tally'.streak = tally.streak
      /\ tail' \in [calls : 0 .. MaxCalls, results : 0 .. MaxCalls]
  BY DEF TurnParts, RecordType
<1> QED
  BY <1>1, <1>2, EndKeeps

\* A step within a turn keeps the invariant if it keeps its parts.
LEMMA StepKeeps ==
  ASSUME TurnParts, turn > 0, EngineType', stream' \in Seq(EventType), loop' \in LoopType,
         pc' \in {"wait", "react", "tools", "invoked", "executed"}, UNCHANGED <<turn, outcome>>,
         journal' \in [remaining : 0 .. Limit, progressed : BOOLEAN],
         tail' \in [calls : 0 .. MaxCalls, results : 0 .. MaxCalls], ran' \subseteq 1 .. MaxCalls,
         tally' \in TallyType, tally'.crashes = tally.crashes,
         actions' \in 0 .. Threshold, invoked' = actions', executed' \in Nat,
         BatchInv',
         tally.crashes = 0 => tally'.streak + loop'.budget <= Limit,
         ~loop'.rewound => tally'.worked
  PROVE  TurnParts'
<1> USE TurnLoopConstants
<1>1. RunnerType' /\ RecordType'
  BY DEF TurnParts, RunnerType, RecordType
<1>2. GuardInv'
  BY DEF GuardInv
<1>3. tally'.streak \in Nat /\ loop'.budget \in Nat
  BY DEF TallyType, LoopType
<1>4. RewindInv'
  BY <1>3 DEF RewindInv, Running
<1> QED
  BY <1>1, <1>2, <1>4 DEF TurnParts

\* A step within a turn that leaves the budget and the rewinds as they are, or
\* ends the streak.
LEMMA PlainStepKeeps ==
  ASSUME TurnParts, Running, NEW id, Answer(id) \/ UNCHANGED engine, stream' \in Seq(EventType),
         loop' \in LoopType, loop'.budget = loop.budget, loop'.rewound = loop.rewound,
         pc' \in {"wait", "react", "tools", "invoked", "executed"}, UNCHANGED <<turn, outcome>>,
         journal' \in {journal, Progress(journal)},
         tail' \in [calls : 0 .. MaxCalls, results : 0 .. MaxCalls], ran' \subseteq 1 .. MaxCalls,
         tally' \in {tally, [tally EXCEPT !.streak = 0], [tally EXCEPT !.rejected = TRUE]},
         actions' \in 0 .. Threshold, invoked' = actions', executed' \in Nat,
         BatchInv'
  PROVE  TurnParts'
<1> USE TurnLoopConstants
<1>1. /\ EngineType /\ tally \in TallyType /\ loop.budget \in 0 .. Limit
      /\ journal \in [remaining : 0 .. Limit, progressed : BOOLEAN]
      /\ Progress(journal) \in [remaining : 0 .. Limit, progressed : BOOLEAN]
  BY ProgressType DEF TurnParts, RecordType, RunnerType, LoopType
<1>2. /\ turn > 0 /\ (tally.crashes = 0 => tally.streak + loop.budget <= Limit)
      /\ ~loop.rewound => tally.worked
  BY DEF TurnParts, GuardInv, RewindInv
<1>3. EngineType'
  BY <1>1, AnswerType
<1>4. /\ tally' \in TallyType /\ tally'.crashes = tally.crashes /\ tally'.worked = tally.worked
      /\ tally'.streak \in {0, tally.streak}
  <2>1. CASE tally' = tally
    BY <1>1, <2>1
  <2>2. CASE tally' = [tally EXCEPT !.streak = 0]
    BY <1>1, <2>2 DEF TallyType
  <2>3. CASE tally' = [tally EXCEPT !.rejected = TRUE]
    BY <1>1, <2>3 DEF TallyType
  <2> QED
    BY <2>1, <2>2, <2>3
<1>5. tally.crashes = 0 => tally'.streak + loop'.budget <= Limit
  BY <1>1, <1>2, <1>4
<1> QED
  BY <1>1, <1>2, <1>3, <1>4, <1>5, StepKeeps

\* At the start everything is typed.
LEMMA TurnIInvInit == Init => TurnIInv
<1> SUFFICES ASSUME Init PROVE TurnIInv
  OBVIOUS
<1> USE TurnLoopConstants
<1>1. EngineType /\ RunnerType /\ RecordType
  BY FreshType DEF Init, EngineType, RunnerType, RecordType, TallyType, Outcome
<1>2. GuardInv /\ BatchInv /\ RewindInv
  BY DEF Init, GuardInv, BatchInv, RewindInv, Running, Fresh
<1> QED
  BY <1>1, <1>2, TypeParts DEF TurnIInv

\* The steps of the runner within a turn.
LEMMA RunnerKeeps ==
  ASSUME TurnParts, Runner \/ StreamLost \/ Cancel
  PROVE  TurnParts'
<1> USE TurnLoopConstants
<1>1. EngineType /\ RunnerType /\ RecordType /\ GuardInv /\ BatchInv /\ RewindInv
  BY DEF TurnParts
<1>2. /\ stream \in Seq(EventType) /\ loop \in LoopType /\ outcome \in Outcome
      /\ journal \in [remaining : 0 .. Limit, progressed : BOOLEAN]
      /\ Progress(journal) \in [remaining : 0 .. Limit, progressed : BOOLEAN]
      /\ tail \in [calls : 0 .. MaxCalls, results : 0 .. MaxCalls] /\ ran \subseteq 1 .. MaxCalls
      /\ tally \in TallyType
      /\ actions \in 0 .. Threshold /\ invoked \in Nat /\ executed \in Nat
  BY <1>1, ProgressType DEF RunnerType, RecordType
<1>3. /\ loop.steps \in 0 .. MaxSteps /\ loop.budget \in 0 .. Limit /\ loop.todo \in 0 .. MaxCalls
      /\ loop.misses \in 0 .. 1 /\ loop.rewound \in BOOLEAN /\ loop.rejections \in 0 .. GuardRetries
      /\ loop.rid \in 0 .. MaxRequests
  BY <1>2 DEF LoopType
<1>4. tally.streak \in Nat /\ tally.worked \in BOOLEAN /\ tally.lost \in Nat /\ tally.crashes \in 0 .. MaxCrashes
  BY <1>2 DEF TallyType
<1>5. ASSUME Running
      PROVE  /\ turn > 0 /\ actions = invoked
             /\ tally.crashes = 0 => tally.streak + loop.budget <= Limit
             /\ ~loop.rewound => tally.worked
  BY <1>1, <1>5 DEF GuardInv, RewindInv
<1>6. CASE OnIoRequest
  <2>1. /\ Head(stream) \in EventType /\ Head(stream).type \in Request
        /\ Head(stream).id \in 0 .. MaxRequests
        /\ Tail(stream) \in Seq(EventType) /\ pc = "wait"
    BY <1>1, <1>6, HeadType DEF OnIoRequest
  <2>2. CASE loop.steps = MaxSteps
    <3>1. /\ End("max_steps") /\ journal' = Progress(journal)
          /\ UNCHANGED engine /\ UNCHANGED tally /\ UNCHANGED quota /\ UNCHANGED tail /\ UNCHANGED ran
      BY <1>6, <2>2 DEF OnIoRequest
    <3>2. "max_steps" \in Outcome
      BY DEF Outcome
    <3> QED
      BY <3>1, <3>2, PlainEndKeeps
  <2>3. CASE loop.steps # MaxSteps
    <3> DEFINE req == Head(stream)
    <3>1. /\ loop' = [Heard EXCEPT !.steps = @ + 1, !.rewound = FALSE, !.rid = req.id,
                          !.io = req.type, !.rejections = 0,
                          !.todo = IF req.type = "call_service" THEN 1 ELSE 0]
          /\ tally' = [tally EXCEPT !.worked = TRUE, !.lost = 0]
          /\ UNCHANGED <<turn, journal, outcome>>
          /\ UNCHANGED quota /\ UNCHANGED tail /\ UNCHANGED ran
      BY <1>6, <2>3 DEF OnIoRequest
    <3>2. /\ loop' \in LoopType /\ loop'.io = req.type /\ ~loop'.rewound /\ loop'.budget = loop.budget
          /\ loop'.todo = IF req.type = "call_service" THEN 1 ELSE 0
      <4>1. 1 \in 0 .. MaxCalls
        OBVIOUS
      <4>2. loop.steps + 1 \in 0 .. MaxSteps
        BY <1>3, <2>3
      <4>3. Heard \in LoopType /\ Heard.steps = loop.steps /\ Heard.budget = loop.budget
        BY HeardType, <1>1
      <4>4. req.type \in Request /\ req.id \in 0 .. MaxRequests /\ (IF req.type = "call_service" THEN 1 ELSE 0) \in 0 .. MaxCalls
        BY <2>1, <4>1
      <4>5. 0 \in 0 .. GuardRetries /\ FALSE \in BOOLEAN
        OBVIOUS
      <4> DEFINE todo == IF req.type = "call_service" THEN 1 ELSE 0
      <4>6. loop' = [Heard EXCEPT !.steps = @ + 1, !.rewound = FALSE, !.rid = req.id,
                          !.io = req.type, !.rejections = 0, !.todo = todo]
        BY <3>1
      <4>7. todo \in 0 .. MaxCalls
        BY <4>4
      <4> HIDE DEF req, todo
      <4>8. loop' \in LoopType
        BY <4>2, <4>3, <4>4, <4>5, <4>6, <4>7 DEF LoopType
      <4>9. loop'.io = req.type /\ loop'.rewound = FALSE /\ loop'.budget = Heard.budget /\ loop'.todo = todo
        BY <4>3, <4>6 DEF LoopType
      <4> QED
        BY <4>3, <4>8, <4>9 DEF todo
    <3>3. tally' \in TallyType /\ tally'.worked /\ tally'.crashes = tally.crashes /\ tally'.streak = tally.streak
      BY <1>2, <3>1 DEF TallyType
    <3>4. /\ pc' \in {"wait", "react", "tools"}
          /\ pc' = "react" => req.type = "call_external"
          /\ pc' = "tools" => req.type = "call_service"
          /\ Answer(req.id) \/ UNCHANGED engine
          /\ stream' \in {Heeded(req.id, Tail(stream)), Tail(stream)}
      BY <1>6, <2>3 DEF OnIoRequest, Consume
    <3>5. EngineType' /\ stream' \in Seq(EventType)
      BY <1>1, <2>1, <3>4, AnswerType, HeededType
    <3>6. BatchInv'
      BY <3>2, <3>4 DEF BatchInv
    <3>7. turn > 0 /\ invoked' = actions' /\ actions' = actions /\ executed' = executed
      BY <1>5, <2>1, <3>1 DEF quota, Running
    <3> HIDE DEF req
    <3>8. tally.crashes = 0 => tally'.streak + loop'.budget <= Limit
      BY <1>5, <2>1, <3>2, <3>3 DEF Running
    <3> QED
      BY <1>2, <3>1, <3>2, <3>3, <3>4, <3>5, <3>6, <3>7, <3>8, StepKeeps
  <2> QED
    BY <2>2, <2>3
<1>7. CASE OnStable \/ OnViolation \/ StreamLost
  <2>1. \E how \in {"error", "success", "aborted"} : End(how)
    BY <1>7 DEF OnStable, OnViolation, StreamLost
  <2>2. /\ journal' = Progress(journal)
        /\ Interrupted \/ UNCHANGED engine
        /\ UNCHANGED tally /\ UNCHANGED quota /\ UNCHANGED tail /\ UNCHANGED ran
    BY <1>7 DEF OnStable, OnViolation, StreamLost
  <2>3. PICK how \in Outcome : End(how)
    BY <2>1 DEF Outcome
  <2> QED
    BY <2>2, <2>3, PlainEndKeeps
<1>8. CASE OnStateTransition
  <2>1. Tail(stream) \in Seq(EventType) /\ pc = "wait"
    BY <1>1, <1>8, HeadType DEF OnStateTransition
  <2>2. /\ stream' = Tail(stream) /\ loop' = [Heard EXCEPT !.budget = Limit]
        /\ tally' = [tally EXCEPT !.streak = 0]
        /\ UNCHANGED engine /\ UNCHANGED quota /\ UNCHANGED <<pc, turn, journal, tail, ran, outcome>>
    BY <1>8 DEF OnStateTransition, Consume
  <2>3. loop' \in LoopType /\ loop'.budget = Limit /\ loop'.rewound = loop.rewound
    BY <1>1, <2>2, HeardType DEF LoopType
  <2>4. tally' \in TallyType /\ tally'.crashes = tally.crashes /\ tally'.streak = 0 /\ tally'.worked = tally.worked
    BY <1>2, <2>2 DEF TallyType
  <2>5. EngineType'
    BY <1>1, <2>2, AnswerType
  <2>6. BatchInv'
    BY <2>1, <2>2 DEF BatchInv
  <2>7. /\ turn > 0 /\ invoked' = actions' /\ actions' = actions /\ executed' = executed
        /\ ~loop'.rewound => tally'.worked
    BY <1>5, <2>1, <2>2, <2>3, <2>4 DEF quota, Running
  <2> QED
    BY <1>2, <2>1, <2>2, <2>3, <2>4, <2>5, <2>6, <2>7, StepKeeps
<1>9. CASE OnError
  <2>1. CASE End("error")
    <3>1. OnError => \/ /\ UNCHANGED pc /\ pc = "wait"
                     \/ /\ Interrupted /\ journal' = Progress(journal) /\ UNCHANGED tally
                        /\ UNCHANGED quota /\ UNCHANGED tail /\ UNCHANGED ran
      BY DEF OnError, Event
    <3>2. /\ Interrupted /\ journal' = Progress(journal) /\ UNCHANGED tally
          /\ UNCHANGED quota /\ UNCHANGED tail /\ UNCHANGED ran
      BY <1>9, <2>1, <3>1 DEF End
    <3>3. "error" \in Outcome
      BY DEF Outcome
    <3> QED
      BY <2>1, <3>2, <3>3, PlainEndKeeps
  <2>2. CASE ~End("error")
    <3>1. /\ loop.budget > 0 /\ stream' = Tail(stream)
          /\ loop' = [Heard EXCEPT !.budget = ConsumeBudget(@), !.rewound = TRUE]
          /\ journal' = [journal EXCEPT !.remaining = ConsumeBudget(loop.budget), !.progressed = FALSE]
          /\ tally' = [tally EXCEPT !.streak = @ + 1, !.worked = FALSE]
          /\ (queue' = Append(queue, turn) /\ UNCHANGED eng) \/ UNCHANGED engine
          /\ UNCHANGED <<pc, turn, outcome>> /\ UNCHANGED quota /\ UNCHANGED tail /\ UNCHANGED ran
      BY <1>9, <2>2 DEF OnError, Consume
    <3>2. Tail(stream) \in Seq(EventType) /\ pc = "wait"
      BY <1>1, <1>9, HeadType DEF OnError
    <3>3. loop.budget - 1 \in 0 .. Limit /\ loop.budget \in Nat
      BY <1>3, <3>1
    <3>4. loop' \in LoopType /\ loop'.budget = loop.budget - 1 /\ loop'.rewound
      <4>1. Heard \in LoopType /\ Heard.budget = loop.budget
        BY <1>1, HeardType
      <4>2. loop' = [Heard EXCEPT !.budget = loop.budget - 1, !.rewound = TRUE]
        BY <3>1, <4>1 DEF ConsumeBudget, LoopType
      <4>3. loop' \in LoopType
        BY <3>3, <4>1, <4>2 DEF LoopType
      <4> QED
        BY <4>1, <4>2, <4>3 DEF LoopType
    <3>5. tally' \in TallyType /\ tally'.crashes = tally.crashes /\ tally'.streak = tally.streak + 1
      <4>1. tally' = [tally EXCEPT !.streak = tally.streak + 1, !.worked = FALSE] /\ tally.streak + 1 \in Nat
        BY <1>4, <3>1
      <4>2. tally' \in TallyType
        BY <1>2, <4>1 DEF TallyType
      <4> QED
        BY <1>2, <4>1, <4>2 DEF TallyType
    <3>6. journal' \in [remaining : 0 .. Limit, progressed : BOOLEAN]
      BY <1>2, <3>1, <3>3 DEF ConsumeBudget
    <3>7. EngineType'
      <4>1. CASE queue' = Append(queue, turn) /\ UNCHANGED eng
        <5>1. turn \in 1 .. MaxTurns
          BY <1>1, <1>5, <3>2 DEF RunnerType, Running
        <5> QED
          BY <1>1, <4>1, <5>1 DEF EngineType
      <4> QED
        BY <1>1, <3>1, <4>1, AnswerType
    <3>8. BatchInv'
      BY <3>1, <3>2 DEF BatchInv
    <3>9. /\ turn > 0 /\ invoked' = actions' /\ actions' = actions /\ executed' = executed
          /\ tally.crashes = 0 => tally'.streak + loop'.budget <= Limit
      <4>1. turn > 0 /\ actions = invoked /\ (tally.crashes = 0 => tally.streak + loop.budget <= Limit)
        BY <1>5, <3>2 DEF Running
      <4>2. UNCHANGED <<actions, invoked, executed>>
        BY <3>1 DEF quota
      <4>3. tally.streak + 1 + (loop.budget - 1) = tally.streak + loop.budget
        BY <1>4, <3>3
      <4> QED
        BY <3>4, <3>5, <4>1, <4>2, <4>3
    <3> QED
      BY <1>2, <3>1, <3>2, <3>4, <3>5, <3>6, <3>7, <3>8, <3>9, StepKeeps
  <2> QED
    BY <2>1, <2>2
<1>10. CASE Heartbeat
  <2>1. CASE loop' = [loop EXCEPT !.misses = Missed(@)] /\ pc' = "wait"
    <3>1. /\ loop' = [loop EXCEPT !.misses = Missed(@)] /\ Missed(loop.misses) < 2
          /\ UNCHANGED engine /\ UNCHANGED <<stream, pc, turn, journal, outcome, tally>>
          /\ UNCHANGED quota /\ UNCHANGED tail /\ UNCHANGED ran
      BY <1>10, <2>1 DEF Heartbeat, End
    <3>2. /\ loop' \in LoopType /\ loop'.budget = loop.budget /\ loop'.rewound = loop.rewound
      <4>1. loop' = [loop EXCEPT !.misses = loop.misses + 1] /\ loop.misses + 1 \in 0 .. 1
        BY <1>3, <3>1 DEF Missed
      <4> QED
        BY <1>2, <4>1 DEF LoopType
    <3>3. pc = "wait" /\ Running /\ BatchInv'
      BY <1>10, <3>1 DEF Heartbeat, Running, BatchInv
    <3>4. invoked' = actions' /\ actions' = actions /\ executed' = executed
      BY <1>5, <3>1, <3>3 DEF quota
    <3> QED
      BY <1>2, <3>1, <3>2, <3>3, <3>4, PlainStepKeeps
  <2>2. CASE ~(loop' = [loop EXCEPT !.misses = Missed(@)] /\ pc' = "wait")
    <3>1. /\ TryAnswer(eng.id) /\ End("heartbeat_lost") /\ journal' = Progress(journal)
          /\ tally' = [tally EXCEPT !.lost = IF eng.phase = "waiting" /\ eng.owner # turn THEN @ + 1 ELSE 0]
          /\ UNCHANGED quota /\ UNCHANGED tail /\ UNCHANGED ran
      BY <1>10, <2>2 DEF Heartbeat
    <3>2. tally' \in TallyType /\ tally'.crashes = tally.crashes /\ tally'.streak = tally.streak
      <4>1. \E n \in Nat : tally' = [tally EXCEPT !.lost = n]
        BY <1>4, <3>1
      <4> QED
        BY <1>2, <4>1 DEF TallyType
    <3>3. EngineType' /\ "heartbeat_lost" \in Outcome
      BY <1>1, <3>1, AnswerType DEF Outcome
    <3> QED
      BY <1>2, <3>1, <3>2, <3>3, EndKeeps
  <2> QED
    BY <2>1, <2>2
<1>11. CASE Cancel
  <2>1. /\ End("cancelled") /\ journal' = Progress(journal)
        /\ TryAnswer(loop.rid) \/ UNCHANGED engine
        /\ UNCHANGED quota /\ UNCHANGED tail /\ UNCHANGED ran /\ UNCHANGED tally
    BY <1>11 DEF Cancel
  <2>2. "cancelled" \in Outcome
    BY DEF Outcome
  <2> QED
    BY <2>1, <2>2, PlainEndKeeps
<1>12. CASE Fails
  <2>1. /\ journal' = Progress(journal) /\ TryAnswer(loop.rid)
        /\ UNCHANGED quota /\ UNCHANGED tail /\ UNCHANGED ran /\ UNCHANGED tally
    BY <1>12 DEF Fails
  <2>2. PICK how \in Outcome : End(how)
    BY <1>12 DEF Fails, Outcome
  <2> QED
    BY <2>1, <2>2, PlainEndKeeps
<1>13. ASSUME NEW n \in 1 .. MaxCalls, LlmTools(n) PROVE TurnParts'
  <2>1. /\ pc = "react" /\ pc' = "tools" /\ loop' = [loop EXCEPT !.todo = n]
        /\ tail' = [calls |-> n, results |-> 0] /\ journal' = Progress(journal)
        /\ tally' = [tally EXCEPT !.streak = 0]
        /\ UNCHANGED engine /\ UNCHANGED <<actions, invoked, stream, turn, outcome>>
    BY <1>13 DEF LlmTools
  <2>2. ran' \subseteq 1 .. MaxCalls /\ executed' \in Nat
    <3>1. ran' \in {1 .. n, {}} /\ executed' \in {executed + n, executed}
      BY <1>13 DEF LlmTools
    <3> QED
      BY <1>2, <3>1
  <2>3. /\ loop' \in LoopType /\ loop'.budget = loop.budget /\ loop'.rewound = loop.rewound
        /\ loop'.io = loop.io /\ loop'.todo = n
    <3>1. n \in 0 .. MaxCalls
      OBVIOUS
    <3> QED
      BY <1>2, <2>1, <3>1 DEF LoopType
  <2>4. Running /\ tail' \in [calls : 0 .. MaxCalls, results : 0 .. MaxCalls]
    BY <2>1 DEF Running
  <2>5. BatchInv'
    BY <1>1, <2>1, <2>3 DEF BatchInv
  <2>6. invoked' = actions' /\ actions' \in 0 .. Threshold
    BY <1>2, <1>5, <2>1, <2>4
  <2> QED
    BY <1>2, <2>1, <2>2, <2>3, <2>4, <2>5, <2>6, PlainStepKeeps
<1>14. CASE FeedBack \/ LlmFinal
  <2>1. /\ Running /\ pc \in {"tools", "react"} /\ journal' = Progress(journal)
        /\ UNCHANGED quota /\ UNCHANGED tail /\ UNCHANGED ran
        /\ tally' \in {tally, [tally EXCEPT !.streak = 0]}
    BY <1>14 DEF FeedBack, LlmFinal, Running
  <2>2. /\ tally' \in TallyType /\ tally'.crashes = tally.crashes /\ tally'.streak \in {0, tally.streak}
        /\ invoked' = actions' /\ actions' = actions /\ executed' = executed
    <3>1. tally' \in TallyType /\ tally'.crashes = tally.crashes /\ tally'.streak \in {0, tally.streak}
      <4>1. CASE tally' = tally
        BY <1>2, <4>1
      <4>2. CASE tally' = [tally EXCEPT !.streak = 0]
        BY <1>2, <4>2 DEF TallyType
      <4> QED
        BY <2>1, <4>1, <4>2
    <3> QED
      BY <1>5, <2>1, <3>1 DEF quota
  <2>3. ASSUME NEW how \in Outcome, End(how), TryAnswer(loop.rid) \/ Answer(loop.rid)
        PROVE  TurnParts'
    <3>1. EngineType'
      BY <1>1, <2>3, AnswerType
    <3> QED
      BY <1>2, <2>1, <2>2, <2>3, <3>1, EndKeeps
  <2>4. ASSUME NEW l \in LoopType, l.budget = loop.budget, l.rewound = loop.rewound, l.io = loop.io,
               l.rid = loop.rid, NextRound(l)
        PROVE  TurnParts'
    <3>1. CASE pc' = "react"
      <4>1. /\ l.steps < MaxSteps /\ loop' = [l EXCEPT !.steps = @ + 1]
            /\ UNCHANGED engine /\ UNCHANGED <<stream, turn, outcome>>
        BY <2>4, <3>1 DEF NextRound, End
      <4>2. l.steps + 1 \in 0 .. MaxSteps
        BY <4>1 DEF LoopType
      <4>3. /\ loop' \in LoopType /\ loop'.budget = loop.budget /\ loop'.rewound = loop.rewound
            /\ loop'.io = loop.io
        BY <2>4, <4>1, <4>2 DEF LoopType
      <4>4. BatchInv'
        BY <1>1, <2>1, <3>1, <4>3 DEF BatchInv
      <4>5. tally' \in {tally, [tally EXCEPT !.streak = 0], [tally EXCEPT !.rejected = TRUE]}
        BY <2>1
      <4> QED
        BY <1>2, <2>1, <2>2, <3>1, <4>1, <4>3, <4>4, <4>5, PlainStepKeeps
    <3>2. CASE pc' # "react"
      BY <2>3, <2>4, <3>2 DEF NextRound, Outcome
    <3> QED
      BY <3>1, <3>2
  <2>5. CASE FeedBack
    BY <1>2, <2>4, <2>5 DEF FeedBack
  <2>6. CASE LlmFinal
    <3>1. CASE /\ Answer(loop.rid) /\ stream' = Heeded(loop.rid, stream)
               /\ pc' = "wait" /\ UNCHANGED <<turn, loop, outcome>>
      <4>1. stream' \in Seq(EventType) /\ BatchInv'
        BY <1>2, <3>1, HeededType DEF BatchInv
      <4>2. tally' \in {tally, [tally EXCEPT !.streak = 0], [tally EXCEPT !.rejected = TRUE]}
        BY <2>1
      <4> QED
        BY <1>2, <2>1, <2>2, <3>1, <4>1, <4>2, PlainStepKeeps
    <3>2. CASE loop.rejections < GuardRetries /\ NextRound([loop EXCEPT !.rejections = @ + 1])
      <4> DEFINE l == [loop EXCEPT !.rejections = @ + 1]
      <4>1. loop.rejections + 1 \in 0 .. GuardRetries
        BY <1>3, <3>2
      <4>2. l \in LoopType /\ l.budget = loop.budget /\ l.rewound = loop.rewound /\ l.io = loop.io
            /\ l.rid = loop.rid
        BY <1>2, <4>1 DEF LoopType
      <4> HIDE DEF l
      <4> QED
        BY <2>4, <3>2, <4>2 DEF l
    <3>3. CASE \E how \in {"success", "aborted", "error"} : End(how) /\ (Answer(loop.rid) \/ TryAnswer(loop.rid))
      BY <2>3, <3>3 DEF Outcome
    <3> QED
      BY <2>6, <3>1, <3>2, <3>3 DEF LlmFinal
  <2> QED
    BY <1>14, <2>5, <2>6
<1>15. CASE Pause
  <2>1. /\ End("runaway_paused") /\ journal' = Progress(journal)
        /\ actions' = 0 /\ invoked' = 0 /\ executed' = 0
        /\ UNCHANGED engine /\ UNCHANGED <<tail, ran, tally>>
    BY <1>15 DEF Pause
  <2>2. EngineType' /\ "runaway_paused" \in Outcome
    BY <1>1, <2>1, AnswerType DEF Outcome
  <2> QED
    BY <1>2, <2>1, <2>2, EndKeeps
<1>16. CASE Invoke
  <2>1. /\ pc = "tools" /\ loop.todo > 0 /\ pc' = "invoked" /\ journal' = Progress(journal)
        /\ actions' = actions + 1 /\ invoked' = invoked + 1 /\ actions + 1 <= Threshold
        /\ tally' = [tally EXCEPT !.streak = 0]
        /\ UNCHANGED engine /\ UNCHANGED <<executed, stream, turn, loop, tail, ran, outcome>>
    BY <1>2, <1>16 DEF Invoke, Tripped
  <2>2. Running /\ BatchInv'
    BY <1>1, <2>1 DEF Running, BatchInv
  <2>3. invoked' = actions' /\ actions' \in 0 .. Threshold
    BY <1>2, <1>5, <2>1, <2>2
  <2> QED
    BY <1>2, <2>1, <2>2, <2>3, PlainStepKeeps
<1>17. CASE GateRejects
  <2>1. /\ pc = "invoked" /\ pc' = "wait" /\ tally' = [tally EXCEPT !.rejected = TRUE]
        /\ UNCHANGED engine /\ UNCHANGED quota
        /\ UNCHANGED <<stream, turn, loop, journal, tail, ran, outcome>>
    BY <1>17 DEF GateRejects
  <2>2. Running /\ BatchInv'
    BY <1>1, <2>1 DEF Running, BatchInv
  <2>3. invoked' = actions' /\ actions' = actions /\ executed' = executed
    BY <1>5, <2>1, <2>2 DEF quota
  <2> QED
    BY <1>2, <2>1, <2>2, <2>3, PlainStepKeeps
<1>18. CASE Execute
  <2>1. /\ pc = "invoked" /\ pc' = "executed"
        /\ UNCHANGED engine /\ UNCHANGED <<actions, invoked, stream, turn, loop, journal, tail, outcome, tally>>
    BY <1>18 DEF Execute
  <2>2. Running /\ BatchInv' /\ executed' \in Nat
    BY <1>1, <1>2, <1>18, <2>1 DEF Running, BatchInv, Execute
  <2>3. invoked' = actions'
    BY <1>5, <2>1, <2>2
  <2>4. ran' \subseteq 1 .. MaxCalls
    <3>1. CASE loop.io = "call_external"
      <4>1. tail.results \in Nat /\ tail.calls \in 0 .. MaxCalls /\ loop.todo \in Nat /\ loop.todo > 0
            /\ tail.results + loop.todo = tail.calls
        BY <1>1, <1>2, <1>3, <2>1, <3>1 DEF BatchInv
      <4>2. Call \in 1 .. MaxCalls
        BY <4>1 DEF Call
      <4> QED
        BY <1>2, <1>18, <3>1, <4>2 DEF Execute
    <3>2. CASE loop.io # "call_external"
      BY <1>2, <1>18, <3>2 DEF Execute
    <3> QED
      BY <3>1, <3>2
  <2> QED
    BY <1>2, <2>1, <2>2, <2>3, <2>4, PlainStepKeeps
<1>19. CASE StoreService
  <2>1. /\ pc = "executed" /\ journal' = Progress(journal) /\ UNCHANGED quota
        /\ UNCHANGED tail /\ UNCHANGED ran /\ UNCHANGED tally
    BY <1>19 DEF StoreService
  <2>2. CASE /\ pc' = "wait" /\ Answer(loop.rid) /\ stream' = Heeded(loop.rid, stream)
             /\ UNCHANGED <<turn, loop, outcome>>
    <3>1. stream' \in Seq(EventType) /\ BatchInv' /\ Running
      BY <1>2, <2>1, <2>2, HeededType DEF BatchInv, Running
    <3>2. invoked' = actions' /\ actions' = actions /\ executed' = executed
      BY <1>5, <2>1, <3>1 DEF quota
    <3> QED
      BY <1>2, <2>1, <2>2, <3>1, <3>2, PlainStepKeeps
  <2>3. CASE End("aborted") /\ UNCHANGED engine
    <3>1. "aborted" \in Outcome
      BY DEF Outcome
    <3> QED
      BY <2>1, <2>3, <3>1, PlainEndKeeps
  <2> QED
    BY <1>19, <2>2, <2>3 DEF StoreService
<1>20. CASE StoreResult
  <2>1. /\ pc = "executed" /\ loop.io = "call_external" /\ tail' = [tail EXCEPT !.results = @ + 1]
        /\ journal' = Progress(journal) /\ UNCHANGED engine /\ UNCHANGED quota
        /\ UNCHANGED ran /\ UNCHANGED tally
    BY <1>20 DEF StoreResult
  <2>2. /\ tail.results \in Nat /\ tail.calls \in 0 .. MaxCalls /\ loop.todo \in Nat /\ loop.todo > 0
        /\ tail.results + loop.todo = tail.calls
    BY <1>1, <1>2, <1>3, <2>1 DEF BatchInv
  <2>3. tail.results + 1 \in 0 .. MaxCalls /\ loop.todo - 1 \in 0 .. MaxCalls
    BY <1>3, <2>2
  <2>4. /\ tail' \in [calls : 0 .. MaxCalls, results : 0 .. MaxCalls]
        /\ tail'.results = tail.results + 1 /\ tail'.calls = tail.calls
    BY <1>2, <2>1, <2>3
  <2>5. CASE pc' = "tools" /\ loop' = [loop EXCEPT !.todo = @ - 1] /\ UNCHANGED <<stream, turn, outcome>>
    <3>1. /\ loop' \in LoopType /\ loop'.budget = loop.budget /\ loop'.rewound = loop.rewound
          /\ loop'.io = loop.io /\ loop'.todo = loop.todo - 1
      BY <1>2, <2>3, <2>5 DEF LoopType
    <3>2. tail'.results + loop'.todo = tail'.calls
      BY <2>2, <2>4, <3>1
    <3>3. BatchInv' /\ Running
      BY <1>1, <2>1, <2>5, <3>1, <3>2 DEF BatchInv, Running
    <3>4. invoked' = actions' /\ actions' = actions /\ executed' = executed
      BY <1>5, <2>1, <3>3 DEF quota
    <3> QED
      BY <1>2, <2>1, <2>4, <2>5, <3>1, <3>3, <3>4, PlainStepKeeps
  <2>6. CASE End("plan_submitted")
    <3>1. EngineType' /\ "plan_submitted" \in Outcome
      BY <1>1, <2>1, AnswerType DEF Outcome
    <3> QED
      BY <1>2, <2>1, <2>4, <2>6, <3>1, EndKeeps
  <2> QED
    BY <1>20, <2>5, <2>6 DEF StoreResult
<1> QED
  BY <1>6, <1>7, <1>8, <1>9, <1>10, <1>11, <1>12, <1>13, <1>14, <1>15, <1>16, <1>17, <1>18, <1>19, <1>20
     DEF Runner

\* Every step keeps it.  A rewind moves one unit from the budget to the streak,
\* and what refills the budget (a transition, a new turn) ends the streak; only
\* a restart refills it and goes on counting.
LEMMA TurnIInvInductive ==
  ASSUME TurnIInv, [Next]_vars
  PROVE  TurnIInv'
<1> USE TurnLoopConstants
<1>0. EngineType /\ RunnerType /\ RecordType /\ GuardInv /\ BatchInv /\ RewindInv
  BY TypeParts DEF TurnIInv
<1> SUFFICES EngineType' /\ RunnerType' /\ RecordType' /\ GuardInv' /\ BatchInv' /\ RewindInv'
  BY TypeParts DEF TurnIInv, TypeOK, EngineType, RunnerType, RecordType, EventType, LoopType, TallyType
<1> DEFINE Rest == GuardInv /\ BatchInv /\ RewindInv
<1>1. CASE Engine
  <2>1. /\ UNCHANGED <<quota, pc, turn, loop, journal, tail, ran, outcome, tally>>
        /\ RecordType' /\ Rest'
    BY <1>0, <1>1 DEF Engine, EngineTake, EngineRequest, EngineTransition, EngineNotice, engine,
                      quota, RecordType, GuardInv, BatchInv, RewindInv, Running
  <2>2. ASSUME NEW type \in Request \cup Notice, NEW id \in 0 .. MaxRequests,
               Notify(type, id) \/ UNCHANGED stream
        PROVE  RunnerType'
    <3>1. [type |-> type, id |-> id] \in EventType
      BY DEF EventType
    <3>2. stream' \in Seq(EventType)
      BY <1>0, <2>2, <3>1 DEF RunnerType, Notify
    <3> QED
      BY <1>0, <2>1, <3>2 DEF RunnerType
  <2>3. CASE EngineTake
    <3>1. queue \in Seq(1 .. MaxTurns) /\ queue # << >>
      BY <1>0, <2>3 DEF EngineTake, EngineType
    <3>2. Head(queue) \in 0 .. MaxTurns /\ Tail(queue) \in Seq(1 .. MaxTurns)
      BY <3>1
    <3>3. EngineType'
      BY <1>0, <2>3, <3>2 DEF EngineTake, EngineType
    <3>4. RunnerType'
      BY <1>0, <2>1, <2>3 DEF EngineTake, RunnerType
    <3> QED
      BY <2>1, <3>3, <3>4
  <2>4. CASE EngineRequest
    <3>1. PICK io \in Issued : /\ eng' = [eng EXCEPT !.phase = "waiting", !.id = @ + 1, !.io = io]
                              /\ Notify(io, eng.id + 1)
      BY <2>4 DEF EngineRequest
    <3>2. eng.id + 1 \in 0 .. MaxRequests /\ io \in Request /\ UNCHANGED queue
      BY <1>0, <2>4 DEF EngineRequest, EngineType
    <3>3. EngineType'
      BY <1>0, <3>1, <3>2 DEF EngineType
    <3>4. RunnerType'
      BY <2>2, <3>1, <3>2
    <3> QED
      BY <2>1, <3>3, <3>4
  <2>6. CASE EngineTransition
    <3>1. Notify("StateTransition", 0) /\ UNCHANGED engine
      BY <2>6 DEF EngineTransition
    <3>2. EngineType'
      BY <1>0, <3>1 DEF EngineType, engine
    <3>3. "StateTransition" \in Request \cup Notice /\ 0 \in 0 .. MaxRequests
      BY DEF Notice
    <3>4. RunnerType'
      BY ONLY <2>2, <3>1, <3>3
    <3> QED
      BY <2>1, <3>2, <3>4
  <2>5. CASE EngineNotice
    <3>1. PICK type \in Notice, next \in {"settling", "idle"} :
            eng' = [eng EXCEPT !.phase = next] /\ Notify(type, 0)
      BY <2>5 DEF EngineNotice
    <3>2. EngineType'
      BY <1>0, <2>5, <3>1 DEF EngineNotice, EngineType
    <3>3. type \in Request \cup Notice /\ 0 \in 0 .. MaxRequests
      OBVIOUS
    <3>4. RunnerType'
      BY ONLY <2>2, <3>1, <3>3
    <3> QED
      BY <2>1, <3>2, <3>4
  <2> QED
    BY <1>1, <2>1, <2>3, <2>4, <2>5, <2>6 DEF Engine
<1>2. ASSUME NEW mode \in {"Continuation", "CrashResume"}, Begin(mode)
      PROVE  EngineType' /\ RunnerType' /\ RecordType' /\ Rest'
  <2>1. EngineType'
    <3>1. CASE Answer(eng.id) \/ UNCHANGED engine
      BY <1>0, <3>1, AnswerType
    <3>2. CASE queue' = Append(queue, turn + 1) /\ UNCHANGED eng
      BY <1>0, <1>2, <3>2 DEF Begin, EngineType, RunnerType
    <3> QED
      BY <1>2, <3>1, <3>2 DEF Begin
  <2>2. loop' \in LoopType /\ ~loop'.rewound /\ (mode # "CrashResume" => loop'.budget = Limit)
    BY <1>0, <1>2, FreshType DEF Begin, ReplayBudget, Progress, RecordType, LoopType, Fresh
  <2>3. RunnerType'
    BY <1>0, <1>2, <2>2 DEF Begin, RunnerType, Outcome
  <2>4. tally' \in TallyType /\ tally'.worked /\ tally'.crashes = tally.crashes
        /\ tally'.streak = IF mode = "CrashResume" THEN tally.streak ELSE 0
    BY <1>0, <1>2 DEF Begin, RecordType, TallyType
  <2>5. RecordType'
    BY <1>0, <1>2, <2>4, ProgressType DEF Begin, RecordType, ReplayActions, GuardInv
  <2>6. GuardInv' /\ BatchInv'
    <3>1. turn' > 0 /\ pc' \in {"wait", "idle"}
      BY <1>0, <1>2 DEF Begin, RunnerType
    <3> QED
      BY <1>0, <1>2, <3>1 DEF Begin, GuardInv, BatchInv, ReplayActions, Running
  <2>7. RewindInv'
    <3>1. tally.crashes = 0 => mode # "CrashResume"
      BY <1>0, <1>2 DEF Begin, RewindInv
    <3>2. tally'.crashes = 0 => tally'.streak = 0 /\ loop'.budget = Limit
      BY <2>2, <2>4, <3>1
    <3>3. pc' \in {"wait", "idle"}
      BY <1>2 DEF Begin
    <3> QED
      BY <2>4, <3>2, <3>3 DEF RewindInv, Running
  <2> QED
    BY <2>1, <2>3, <2>5, <2>6, <2>7
<1>3. CASE Crash
  <2>1. EngineType' /\ RunnerType'
    BY <1>0, <1>3, FreshType DEF Crash, engine, EngineType, RunnerType
  <2>2. tally' \in TallyType /\ tally'.crashes = tally.crashes + 1 /\ tally.crashes \in Nat
    <3>1. tally \in TallyType
      BY <1>0 DEF RecordType
    <3>2. tally.crashes \in Nat /\ tally.crashes + 1 \in 0 .. MaxCrashes
      BY <1>3, <3>1 DEF Crash, TallyType
    <3> QED
      BY <1>3, <3>1, <3>2 DEF Crash, TallyType
  <2>3. RecordType'
    BY <1>0, <1>3, <2>2 DEF Crash, quota, RecordType
  <2>4. pc' = "down" /\ UNCHANGED <<invoked, actions>> /\ tally'.crashes > 0
    BY <1>3, <2>2 DEF Crash, quota
  <2>5. GuardInv' /\ BatchInv'
    BY <1>0, <2>4 DEF GuardInv, BatchInv, Running
  <2>6. RewindInv'
    <3>1. tally'.crashes # 0 /\ ~Running'
      BY <2>2, <2>4 DEF Running
    <3> QED
      BY <2>4, <3>1 DEF RewindInv
  <2> QED
    BY <2>1, <2>3, <2>5, <2>6
<1>4. CASE Runner \/ StreamLost \/ Cancel
  BY <1>0, <1>4, RunnerKeeps DEF TurnParts
<1>5. CASE UNCHANGED vars
  BY <1>0, <1>5 DEF vars, engine, quota, EngineType, RunnerType, RecordType,
                    GuardInv, BatchInv, RewindInv, Running
<1> QED
  BY <1>1, <1>2, <1>3, <1>4, <1>5 DEF Next

\* Types hold, and within the life of one process a turn never rewinds more
\* often in a row than the budget allows (RewindBudget), whatever errors, time-
\* outs and late answers the engine sends and however many commands are
\* submitted again.
THEOREM RewindsAreBounded == Safety => []TurnInv
<1>1. TurnIInv => TurnInv
  BY DEF TurnIInv, TurnInv, RewindInv, RewindsBoundedAlive, RewindsBounded
<1> QED
  BY TurnIInvInit, TurnIInvInductive, <1>1, PTL DEF Safety

\* A turn reported as a success has taken up a request after its last rewind
\* (on_stable looks at the rewound flag, and the ReAct loop runs only for a
\* request that has reset it).
THEOREM SuccessIsEarned == Safety => NoEmptySuccess
<1>1. ASSUME TurnIInv, [Next]_vars
      PROVE  [outcome' = "success" /\ outcome # "success" => tally.worked]_vars
  <2>1. SUFFICES ASSUME outcome' = "success", outcome # "success"
                 PROVE  tally.worked
    OBVIOUS
  <2>2. (OnStable /\ ~loop.rewound) \/ LlmFinal
    <3>1. ~Engine /\ ~Crash /\ ~UNCHANGED vars
      BY <2>1 DEF Engine, EngineTake, EngineRequest, EngineTransition, EngineNotice, Crash, vars
    <3>2. \A mode \in {"Continuation", "CrashResume"} : ~Begin(mode)
      BY <2>1 DEF Begin
    <3>3. ~StreamLost /\ ~Cancel /\ ~OnIoRequest /\ ~OnStateTransition /\ ~OnError /\ ~OnViolation /\ ~Heartbeat
      BY <2>1 DEF StreamLost, Cancel, OnIoRequest, OnStateTransition, OnError, OnViolation, Heartbeat, End
    <3>4. ~Fails /\ (\A n \in 1 .. MaxCalls : ~LlmTools(n)) /\ ~Pause /\ ~Invoke /\ ~GateRejects
      BY <2>1 DEF Fails, LlmTools, Pause, Invoke, GateRejects, End
    <3>5. ~Execute /\ ~StoreService /\ ~StoreResult /\ ~FeedBack
      BY <2>1 DEF Execute, StoreService, StoreResult, FeedBack, NextRound, End
    <3>6. OnStable => ~loop.rewound
      BY <2>1 DEF OnStable, End
    <3> QED
      BY <1>1, <3>1, <3>2, <3>3, <3>4, <3>5, <3>6 DEF Next, Runner
  <2>3. Running /\ ~loop.rewound
    BY <1>1, <2>2 DEF OnStable, Event, LlmFinal, Running, TurnIInv, BatchInv
  <2> QED
    BY <1>1, <2>3 DEF TurnIInv, RewindInv
<1> QED
  BY TurnIInvInit, TurnIInvInductive, <1>1, PTL DEF Safety, NoEmptySuccess
=============================================================================
