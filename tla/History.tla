------------------------------ MODULE History ------------------------------
(***************************************************************************)
(* The message history of a session (runner.rs, memory.rs).  A turn keeps  *)
(* the messages in a vector; each one it persists becomes a record of the  *)
(* session's payload under the index it has in the vector, at once or in   *)
(* batches.  The vector and the batch belong to the turn: a crash loses    *)
(* them, and the next turn loads the records, mends the pairing of tool    *)
(* calls and results, and goes on at the length of what it has loaded.     *)
(*                                                                         *)
(* Some messages are fed to the LLM without being persisted, writes and    *)
(* the load can fail, and the turn can end at every await.  A message is   *)
(* its role, its tool calls and a number; texts are left out.              *)
(***************************************************************************)
EXTENDS Naturals, Sequences, FiniteSets, SequencesExt

CONSTANTS
  ToolName,     \* names of tools
  PersistMode,  \* the modes of message_persist a session may have
  BatchSize,    \* the n of every_n
  GuardRetries, \* IO_GUARD_MAX_RETRIES
  MaxMessages,  \* bound: messages spoken
  MaxTrouble    \* bound: failed writes and loads, and crashes

ASSUME HistoryAssumption ==
  /\ PersistMode \subseteq {"every_message", "every_n", "per_react_round"}
  /\ BatchSize \in Nat \ {0} /\ GuardRetries \in Nat
  /\ MaxMessages \in Nat /\ MaxTrouble \in Nat

VARIABLES
  mode,     \* message_persist_mode
  store,    \* the records in the payload: [indices -> Message]
  messages, \* the vector of the turn
  pending,  \* pending_messages of the turn: records not yet written
  phase,    \* where the turn is; "idle" between turns
  rejected, \* guard_rejections
  crashed,  \* the last turn was cut off by a crash
  report,   \* DanglingRepairReport.dangling of the last recovery
  spoken,   \* messages spoken so far
  trouble,  \* failures so far
  skipped,  \* has an index been passed over, or the history been given up
  gone      \* messages whose record another message has replaced

recordVars == <<store, gone>>
vectorVars == <<messages, pending, phase, rejected>>
historyVars == <<mode, recordVars, vectorVars, crashed, report, spoken, trouble, skipped>>

Phase == {"idle", "open", "ask", "wait", "io", "service", "llm", "tools", "fix", "final"}
Calls == UNION {[1 .. n -> ToolName] : n \in 0 .. 2}
Message == [n : 0 .. MaxMessages, role : {"system", "user", "assistant", "tool"},
            calls : Calls, tool : ToolName \cup {""}]
PayloadRecord == [idx : Nat, msg : Message]

HistoryTypeOK ==
  /\ mode \in PersistMode
  /\ DOMAIN store \subseteq 0 .. MaxMessages /\ \A i \in DOMAIN store : store[i] \in Message
  /\ messages \in Seq(Message)
  /\ pending \in Seq(PayloadRecord) /\ (mode = "every_message" => pending = << >>)
  /\ phase \in Phase /\ (phase = "idle" => messages = << >> /\ pending = << >>)
  /\ rejected \in 0 .. GuardRetries
  /\ crashed \in BOOLEAN /\ skipped \in BOOLEAN
  /\ report \in Nat /\ spoken \in 0 .. MaxMessages /\ trouble \in 0 .. MaxTrouble
  /\ gone \subseteq 0 .. MaxMessages

HistoryInit ==
  /\ mode \in PersistMode
  /\ store = << >> /\ gone = {}
  /\ messages = << >> /\ pending = << >> /\ phase = "idle" /\ rejected = 0
  /\ crashed = FALSE /\ report = 0 /\ spoken = 0 /\ trouble = 0 /\ skipped = FALSE

\* The system prompt is the same text whenever it is made: it has the number 0.
SystemPrompt == [n |-> 0, role |-> "system", calls |-> << >>, tool |-> ""]
Said(role, calls, tool) == [n |-> spoken + 1, role |-> role, calls |-> calls, tool |-> tool]
Make == spoken < MaxMessages /\ spoken' = spoken + 1
Trouble == trouble < MaxTrouble /\ trouble' = trouble + 1

-----------------------------------------------------------------------------
(* Writing records *)

Written(rs) ==
  [i \in DOMAIN store \cup {r.idx : r \in rs} |->
     IF \E r \in rs : r.idx = i THEN (CHOOSE r \in rs : r.idx = i).msg ELSE store[i]]

\* append_message_with_reasoning, append_messages_batch: the record at an index is replaced.
Append_messages(rs) ==
  /\ store' = Written(rs)
  /\ gone' = gone \cup {store[i].n : i \in {i \in DOMAIN store : Written(rs)[i].n # store[i].n}}

\* flush_messages: a batch that is refused is written message by message, and what fails is dropped.
Flush_messages(rs) ==
  \E bad \in SUBSET rs :
    /\ Append_messages(rs \ bad)
    /\ IF bad = {} THEN UNCHANGED <<trouble, skipped>> ELSE Trouble /\ skipped' = TRUE

EndTurn == messages' = << >> /\ pending' = << >> /\ phase' = "idle" /\ rejected' = 0

\* Mutant: the index is taken after the push.
NextIndexLate == Len(messages) + 1

NextIndex == Len(messages)

\* messages.push and persist_message_with_reasoning, from which the turn goes on at next; only the mode
\* that writes at once has a failure that ends the turn, and the write may have taken effect.
Persist(m, next) ==
  LET rec == [idx |-> NextIndex, msg |-> m]
      buffered == Append(pending, rec)
      goesOn == messages' = Append(messages, m) /\ phase' = next /\ UNCHANGED rejected
  IN  /\ UNCHANGED <<mode, crashed, report>>
      /\ \/ /\ mode = "every_message"
            /\ Append_messages({rec}) /\ goesOn
            /\ UNCHANGED <<pending, trouble, skipped>>
         \/ /\ mode = "every_message"
            /\ Trouble /\ EndTurn
            /\ Append_messages({rec}) \/ UNCHANGED recordVars
            /\ UNCHANGED skipped
         \/ /\ mode = "every_n" /\ Len(buffered) >= BatchSize
            /\ Flush_messages(Range(buffered)) /\ goesOn
            /\ pending' = << >>
         \/ /\ mode # "every_message" /\ (mode = "every_n" => Len(buffered) < BatchSize)
            /\ pending' = buffered /\ goesOn
            /\ UNCHANGED <<recordVars, trouble, skipped>>

-----------------------------------------------------------------------------
(* The pairing of calls and results *)

Count(s, t) == Cardinality({k \in DOMAIN s : s[k] = t})

\* What a run of results in h belongs to: the message before the run, 0 if there is none.
Owner(h, i) == LET before == {j \in 1 .. i - 1 : h[j].role # "tool"}
               IN  IF before = {} THEN 0 ELSE CHOOSE j \in before : \A k \in before : k <= j

\* The result at i is one that its owner has called for.
Expected(h, i) ==
  /\ Owner(h, i) # 0
  /\ Cardinality({j \in Owner(h, i) + 1 .. i : h[j].tool = h[i].tool})
       <= Count(h[Owner(h, i)].calls, h[i].tool)

\* The calls of the message at i have their results right after it.
Answered(h, i) ==
  \A k \in DOMAIN h[i].calls : i + k \in DOMAIN h /\ h[i + k].role = "tool"

Orphans(h) == {i \in DOMAIN h : h[i].role = "tool" /\ ~Expected(h, i)}
Unanswered(h) == {i \in DOMAIN h : ~Answered(h, i)}

\* Results without a call become user messages.
Reclaimed(h) ==
  [i \in DOMAIN h |-> IF i \in Orphans(h) THEN [h[i] EXCEPT !.role = "user", !.tool = ""] ELSE h[i]]

\* Mutant: a message with unanswered calls is left out of the history.
SanitizeDrops(h) == SelectSeq(Reclaimed(h), LAMBDA m : \A i \in Unanswered(Reclaimed(h)) : Reclaimed(h)[i] # m)

\* Mutant: only the results are looked at.
SanitizeResults(h) == Reclaimed(h)

\* sanitize_tool_pairing: then the calls of a message that has not got all its results are voided.
Sanitize(h) ==
  [i \in DOMAIN h |-> IF i \in Unanswered(Reclaimed(h)) THEN [Reclaimed(h)[i] EXCEPT !.calls = << >>]
                                                       ELSE Reclaimed(h)[i]]

\* plan_dangling_repair: the calls of the last message that has some, if no result follows it.
PlanDanglingRepair(h) ==
  LET calling == {i \in DOMAIN h : h[i].calls # << >>}
      last == CHOOSE i \in calling : \A j \in calling : j <= i
  IN  IF calling = {} \/ \E j \in DOMAIN h : j > last /\ h[j].role = "tool" THEN << >> ELSE h[last].calls

-----------------------------------------------------------------------------
(* The beginning of a turn *)

\* load_messages_from_payload: the records in the order of their indices.
LoadMessages ==
  LET below(i) == Cardinality({j \in DOMAIN store : j < i})
  IN  [k \in 1 .. Cardinality(DOMAIN store) |-> store[CHOOSE i \in DOMAIN store : below(i) = k - 1]]

\* A first turn or a continuation.  A history that cannot be loaded counts as none.
StartTurn ==
  /\ phase = "idle" /\ spoken < MaxMessages
  /\ \/ /\ messages' = Sanitize(LoadMessages)
        /\ UNCHANGED <<trouble, skipped>>
     \/ /\ store # << >> /\ Trouble
        /\ messages' = << >> /\ skipped' = TRUE
  /\ phase' = IF messages' = << >> THEN "open" ELSE "ask"
  /\ crashed' = FALSE /\ report' = 0
  /\ UNCHANGED <<mode, recordVars, pending, rejected, spoken>>

OpenHistory == phase = "open" /\ Persist(SystemPrompt, "ask") /\ UNCHANGED spoken

PushUser == phase = "ask" /\ Make /\ Persist(Said("user", << >>, ""), "wait")

\* resume_crashed: no new input.  repair_dangling_tail answers the calls that it finds dangling, by
\* running them again or by an observation of the crash; both are a result here.
ResumeCrashed ==
  /\ phase = "idle" /\ crashed /\ store # << >>
  /\ LET h == Sanitize(LoadMessages)
         plan == PlanDanglingRepair(h)
         repairs == [k \in DOMAIN plan |->
                       [n |-> spoken + k, role |-> "tool", calls |-> << >>, tool |-> plan[k]]]
         records == [k \in DOMAIN plan |-> [idx |-> Len(h) + k - 1, msg |-> repairs[k]]]
     IN  /\ spoken + Len(plan) <= MaxMessages /\ spoken' = spoken + Len(plan)
         /\ messages' = h \o repairs
         /\ IF mode = "every_message"
            THEN Append_messages(Range(records)) /\ UNCHANGED pending
            ELSE pending' = records /\ UNCHANGED recordVars
         /\ report' = Len(plan)
  /\ phase' = "wait" /\ crashed' = FALSE
  /\ UNCHANGED <<mode, rejected, trouble, skipped>>

-----------------------------------------------------------------------------
(* The rounds of a turn *)

\* A message that is fed to the LLM and not persisted.
PushUnsaved(m, next) ==
  /\ Make
  /\ messages' = Append(messages, m) /\ phase' = next /\ skipped' = TRUE
  /\ UNCHANGED <<mode, recordVars, pending, crashed, report>>

\* An IoRequest has come: notes that the user has queued join the history,
SteeringNote ==
  /\ phase \in {"wait", "io"}
  /\ PushUnsaved(Said("user", << >>, ""), "io")
  /\ UNCHANGED <<rejected, trouble>>

\* then the mode per_react_round writes what has been buffered.
BeginRound ==
  /\ phase \in {"wait", "io"} /\ phase' \in {"llm", "service"} /\ rejected' = 0
  /\ IF mode = "per_react_round"
     THEN Flush_messages(Range(pending)) /\ pending' = << >>
     ELSE UNCHANGED <<recordVars, pending, trouble, skipped>>
  /\ UNCHANGED <<mode, messages, crashed, report, spoken>>

\* The LLM asks for tools, answers, or answers in a form that the validator refuses.
LlmAnswers ==
  /\ phase = "llm" /\ Make
  /\ \/ \E cs \in Calls \ {<< >>} : Persist(Said("assistant", cs, ""), "tools")
     \/ Persist(Said("assistant", << >>, ""), "final")
     \/ Persist(Said("assistant", << >>, ""), "fix")

PushCorrection == phase = "fix" /\ Make /\ Persist(Said("system", << >>, ""), "llm")

\* The next tool of the answer has run.
ToolReturns ==
  /\ phase = "tools" /\ Make
  /\ LET asked == CHOOSE i \in DOMAIN messages :
                    messages[i].role = "assistant" /\ \A j \in i + 1 .. Len(messages) : messages[j].role = "tool"
         k == Len(messages) - asked + 1
         calls == messages[asked].calls
     IN  Persist(Said("tool", << >>, calls[k]), IF k = Len(calls) THEN "llm" ELSE "tools")

\* A call_service of the engine: its result has no call in the history.
ServiceReturns ==
  /\ phase = "service" /\ Make
  /\ \E t \in ToolName : Persist(Said("tool", << >>, t), "wait")

\* The acceptance gate refuses an instruction: a failing write of that result is only logged.
GateRejectUnsaved ==
  /\ phase = "service" /\ mode = "every_message" /\ Trouble
  /\ \E t \in ToolName : PushUnsaved(Said("tool", << >>, t), "wait")
  /\ UNCHANGED rejected

\* An answer that was cut short is marked, in the vector only.
MarkTruncated ==
  /\ phase = "final" /\ Last(messages).role = "assistant"
  /\ PushUnsaved(Said("system", << >>, ""), "final")
  /\ UNCHANGED <<rejected, trouble>>

FinalAccepted ==
  /\ phase = "final" /\ phase' = "wait"
  /\ UNCHANGED <<mode, recordVars, messages, pending, rejected, crashed, report, spoken, trouble, skipped>>

\* The io_guard refuses the answer: the correction is fed to the LLM, in the vector only.
GuardRejects ==
  /\ phase = "final" /\ rejected < GuardRetries
  /\ PushUnsaved(Said("user", << >>, ""), "llm")
  /\ rejected' = rejected + 1 /\ UNCHANGED trouble

-----------------------------------------------------------------------------
(* The end of a turn *)

\* Stable, a cancellation, a lost engine, an exhausted budget, a failing LLM, a runaway pause, a
\* submitted plan, an answer that cannot be submitted: what is buffered is written first.
EndFlushed ==
  /\ phase \in {"wait", "io", "llm", "tools", "final"}
  /\ Flush_messages(Range(pending)) /\ EndTurn
  /\ UNCHANGED <<mode, crashed, report, spoken>>

\* The request cannot be sent, its answer not be submitted, the provider has filtered the answer, the
\* guard has refused it too often, or the client has left: nothing is written.
EndBare ==
  /\ phase # "idle"
  /\ EndTurn
  /\ UNCHANGED <<mode, recordVars, crashed, report, spoken, trouble, skipped>>

\* The process dies.
Dies ==
  /\ phase # "idle" /\ Trouble
  /\ EndTurn /\ crashed' = TRUE
  /\ UNCHANGED <<mode, recordVars, report, spoken, skipped>>

HistoryNext ==
  \/ StartTurn \/ OpenHistory \/ PushUser \/ ResumeCrashed
  \/ SteeringNote \/ BeginRound \/ LlmAnswers \/ PushCorrection \/ ToolReturns \/ ServiceReturns \/ GateRejectUnsaved
  \/ MarkTruncated \/ FinalAccepted \/ GuardRejects
  \/ EndFlushed \/ EndBare \/ Dies

HistorySpec == HistoryInit /\ [][HistoryNext]_historyVars

-----------------------------------------------------------------------------
(* Properties *)

\* While every message spoken has been persisted or lost with the end of its turn, the records are those
\* messages: their indices have no hole, they are in the order in which they were spoken, none has replaced
\* another, and each message of the running turn is at its index or waits to be written there.  So an
\* index that a turn takes from the length of its vector is free, across crashes, failed writes and the
\* mending of what was loaded.
RecordsMatch ==
  ~skipped =>
    /\ DOMAIN store = 0 .. Cardinality(DOMAIN store) - 1
    /\ \A i, j \in DOMAIN store : i < j => store[i].n < store[j].n
    /\ gone = {}
    /\ \A k \in DOMAIN messages :
         \/ k - 1 \in DOMAIN store /\ store[k - 1].n = messages[k].n
         \/ \E r \in Range(pending) : r.idx = k - 1 /\ r.msg.n = messages[k].n

\* No call is sent to the LLM without its result: whatever a crash, a dropped record or a paused turn
\* has left of a batch of calls.
CallsAnswered == phase = "llm" => Unanswered(messages) = {}

HistoryInv == HistoryTypeOK /\ RecordsMatch /\ CallsAnswered

\* What sanitize_tool_pairing leaves can be sent: neither a result without its call nor a call without
\* its result.
LoadedIsPaired == phase = "ask" => Orphans(messages) = {} /\ Unanswered(messages) = {}

\* A record is never replaced by that of another message.
NothingReplaced == gone = {}

\* Crash recovery answers the calls that the crash left dangling.
DanglingRepaired ==
  [][crashed /\ ~crashed' /\ phase' = "wait" => report' = Len(PlanDanglingRepair(LoadMessages))]_historyVars
=============================================================================
