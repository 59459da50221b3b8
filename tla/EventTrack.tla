----------------------------- MODULE EventTrack -----------------------------
(***************************************************************************)
(* The event track (event_ledger.rs) on top of the store of memory events  *)
(* (memory_event/store.rs).  An event of the track is written to the       *)
(* engine below a path made from its sequence number, caused by the last   *)
(* event that was written; then the source event is written again with the *)
(* new one among its effects.  Every write makes a new fact; facts are     *)
(* numbered as they come and the versions of an event are the facts of its *)
(* path.                                                                   *)
(*                                                                         *)
(* The track of the /mcp endpoint lives in a session of its own that is    *)
(* kept in a state file, found again after a restart and replaced when the *)
(* engine has lost it; the track of a runner lives in the session of the   *)
(* runner.  Requests may be lost, and so may their answers.                *)
(***************************************************************************)
EXTENDS Naturals, Sequences, FiniteSets, FiniteSetsExt

CONSTANTS
  TurnQuota,   \* DEFAULT_TURN_QUOTA
  MaxEvents,   \* bound: events the track builds
  MaxTools,    \* bound: tool calls that complete
  MaxTurns,    \* bound: turns of a process
  MaxFaults,   \* bound: lost requests and answers, sessions the engine loses
  MaxStarts    \* bound: starts of the process

ASSUME TrackAssumption ==
  /\ TurnQuota \in Nat /\ MaxTools \in Nat
  /\ MaxEvents \in Nat \ {0} /\ MaxStarts \in Nat \ {0}
  /\ MaxTurns \in Nat /\ MaxFaults \in Nat

VARIABLES
  owner,    \* "mcp" or "runner": who records
  facts,    \* the facts of the engine, of all sessions
  live,     \* sessions the engine has
  minted,   \* sessions created so far
  file,     \* session in the state file, 0 = none
  sid,      \* session of the store, 0 = none
  cache,    \* [EventId -> Cached]: event_cache
  mapped,   \* [FactId -> event id]: fact_to_event, 0 = none
  seq,      \* sequence number given last
  prev,     \* prev_fact, 0 = None
  written,  \* turn_written
  dropped,  \* turn_dropped
  armed,    \* needs_ensure
  turn,     \* turns of this process
  event,    \* the event persist is at
  pc,       \* where the holder of the ledger's lock is
  made,     \* events built so far, over all processes
  tally,    \* of this process: tool calls that completed, were admitted, were journalled as dropped
  faults,   \* faults so far
  starts,   \* starts of the process
  torn      \* some process ended in the middle of persist

engineVars == <<facts, live, minted>>
storeVars == <<sid, cache, mapped>>
quotaVars == <<written, dropped, turn, tally>>
runVars == <<owner, made, starts, torn>>
trackVars == <<engineVars, file, storeVars, seq, prev, quotaVars, armed, event, pc, runVars, faults>>

EventId == 1 .. MaxEvents
FactId == 1 .. 2 * MaxEvents
Session == 1 .. MaxStarts + MaxFaults
Cached == [body : 1 .. MaxEvents, cause : {0} \cup FactId, effects : SUBSET EventId]
Absent == [body |-> 0, cause |-> 0, effects |-> {}]
Fact == [s : Session, e : EventId, v : Cached]

TrackTypeOK ==
  /\ owner \in {"mcp", "runner"}
  /\ facts \in Seq(Fact) /\ Len(facts) <= 2 * MaxEvents
  /\ live \subseteq 1 .. minted /\ minted \in {0} \cup Session
  /\ file \in 0 .. minted /\ sid \in 0 .. minted
  /\ cache \in [EventId -> Cached \cup {Absent}]
  /\ mapped \in [FactId -> {0} \cup EventId]
  /\ seq \in {0} \cup EventId /\ prev \in 0 .. Len(facts)
  /\ written \in 0 .. TurnQuota /\ dropped \in 0 .. MaxTools
  /\ turn \in 0 .. MaxTurns /\ armed \in BOOLEAN
  /\ event \in [e : {0} \cup EventId, body : 0 .. MaxEvents, cause : {0} \cup FactId]
  /\ pc \in {"start", "idle", "ensure", "write", "link"}
  /\ made \in 0 .. MaxEvents
  /\ tally \in [tools : 0 .. MaxTools, admitted : 0 .. MaxTools, journalled : 0 .. MaxTools]
  /\ faults \in 0 .. MaxFaults /\ starts \in 1 .. MaxStarts /\ torn \in BOOLEAN

NoEvent == [e |-> 0, body |-> 0, cause |-> 0]
NoTally == [tools |-> 0, admitted |-> 0, journalled |-> 0]

\* EventLedger::new: what a process has when it starts.
Fresh ==
  /\ sid' = 0 /\ cache' = [e \in EventId |-> Absent] /\ mapped' = [f \in FactId |-> 0]
  /\ seq' = 0 /\ prev' = 0
  /\ written' = 0 /\ dropped' = 0 /\ turn' = 0 /\ tally' = NoTally
  /\ armed' = FALSE /\ event' = NoEvent /\ pc' = "start"

TrackInit ==
  /\ owner \in {"mcp", "runner"}
  /\ facts = << >> /\ live = {} /\ minted = 0 /\ file = 0
  /\ sid = 0 /\ cache = [e \in EventId |-> Absent] /\ mapped = [f \in FactId |-> 0]
  /\ seq = 0 /\ prev = 0
  /\ written = 0 /\ dropped = 0 /\ turn = 0 /\ tally = NoTally
  /\ armed = FALSE /\ event = NoEvent /\ pc = "start"
  /\ made = 0 /\ starts = 1 /\ torn = FALSE /\ faults = 0

-----------------------------------------------------------------------------
(* Requests to the engine *)

Versions(fs, s, e) == {i \in DOMAIN fs : fs[i].s = s /\ fs[i].e = e}
OfSession(fs, s) == {i \in DOMAIN fs : fs[i].s = s}

\* One request fails: it is lost, or its answer is.
Fault == faults < MaxFaults /\ faults' = faults + 1
NoFault == UNCHANGED faults

\* update_payload takes effect.
Post(e, v) == facts' = Append(facts, [s |-> sid, e |-> e, v |-> v])

-----------------------------------------------------------------------------
(* ensure_gov_session: find or make the session of the track *)

\* Mutant: the content of the first version.
ReadEventFirst(s, e) ==
  IF cache[e] # Absent THEN cache[e] ELSE facts[Min(Versions(facts, s, e))].v

\* read_event: the cache first, else the latest version of the event.
ReadEvent(s, e) ==
  IF cache[e] # Absent THEN cache[e] ELSE facts[Max(Versions(facts, s, e))].v

\* fetch_chain_tail in session s: the fact with the greatest id.
FetchChainTail(s) ==
  LET tail == Max(OfSession(facts, s))
      e == facts[tail].e
      known == Min(Versions(facts, s, e))
  IN /\ seq' = e
     /\ prev' = tail
     /\ \/ /\ cache' = [cache EXCEPT ![e] = ReadEvent(s, e)]
           /\ mapped' = [mapped EXCEPT ![known] = IF cache[e] = Absent THEN e ELSE @, ![tail] = e]
           /\ NoFault
        \/ \* the source event cannot be read back
           /\ cache[e] = Absent /\ Fault
           /\ mapped' = [mapped EXCEPT ![tail] = e] /\ UNCHANGED cache

\* Mutant: the chain goes on in a new session.
InjectKeeps(s) ==
  /\ sid' = s
  /\ \/ /\ s # sid /\ prev = 0 /\ OfSession(facts, s) # {}
        /\ FetchChainTail(s)
     \/ /\ s = sid \/ prev # 0 \/ OfSession(facts, s) = {}
        /\ NoFault /\ UNCHANGED <<seq, prev, cache, mapped>>

\* The session that was found becomes the session of the store.
Inject(s) ==
  /\ sid' = s
  /\ \/ /\ s # sid /\ prev = 0 /\ OfSession(facts, s) # {}
        /\ \/ FetchChainTail(s)
           \/ Fault /\ UNCHANGED <<seq, prev, cache, mapped>>
     \/ /\ s # sid /\ prev = 0 /\ OfSession(facts, s) = {}
        /\ NoFault /\ UNCHANGED <<seq, prev, cache, mapped>>
     \/ /\ s # sid /\ prev # 0
        /\ prev' = 0 /\ seq' = 0 /\ NoFault /\ UNCHANGED <<cache, mapped>>
     \/ /\ s = sid
        /\ NoFault /\ UNCHANGED <<seq, prev, cache, mapped>>

\* The session of the state file answers the probe.
Reuse == file \in live /\ Inject(file) /\ UNCHANGED <<live, minted, file>>

\* No state file, or 404: a new session; writing the file may fail.
Provision ==
  /\ file \notin live /\ minted < MaxStarts + MaxFaults
  /\ minted' = minted + 1 /\ live' = live \cup {minted + 1}
  /\ \/ file' = minted + 1 /\ Inject(minted + 1)
     \/ /\ Fault /\ UNCHANGED <<file, cache, mapped>>
        /\ sid' = minted + 1
        /\ IF prev = 0 THEN UNCHANGED <<seq, prev>> ELSE prev' = 0 /\ seq' = 0

\* The probe or the creation fails otherwise: everything stays.
Unreachable == Fault /\ UNCHANGED <<live, minted, file, sid, seq, prev, cache, mapped>>

EnsureGovSession ==
  /\ armed' = FALSE
  /\ \/ owner = "mcp" /\ (Reuse \/ Provision \/ Unreachable)
     \/ owner = "runner" /\ NoFault /\ UNCHANGED <<live, minted, file, sid, seq, prev, cache, mapped>>

\* A server ensures the session when it starts; a runner is given the
\* session it creates or resumes.
Start ==
  /\ pc = "start" /\ pc' = "idle"
  /\ \/ owner = "mcp" /\ EnsureGovSession
     \/ /\ owner = "runner"
        /\ \/ sid' \in live /\ UNCHANGED <<live, minted>>
           \/ /\ minted < MaxStarts /\ minted' = minted + 1
              /\ live' = live \cup {minted + 1} /\ sid' = minted + 1
        /\ NoFault /\ UNCHANGED <<file, seq, prev, cache, mapped, armed>>
  /\ UNCHANGED <<facts, quotaVars, event, runVars>>

\* persist, first part: the event already has its number.
Ensure ==
  /\ pc = "ensure" /\ pc' = "write"
  /\ EnsureGovSession
  /\ UNCHANGED <<facts, quotaVars, event, runVars>>

-----------------------------------------------------------------------------
(* Recording *)

\* next_seq and the construction of the event, then persist.
Build ==
  /\ made < MaxEvents /\ made' = made + 1
  /\ seq' = seq + 1
  /\ event' = [e |-> seq + 1, body |-> made + 1, cause |-> 0]
  /\ pc' = IF armed THEN "ensure" ELSE "write"

Same == UNCHANGED <<engineVars, file, storeVars, prev, armed, owner, starts, torn, faults>>

\* Mutant: off by one at the quota.
RecordToolLate ==
  /\ pc = "idle" /\ tally.tools < MaxTools /\ written <= TurnQuota
  /\ written' = written + 1
  /\ tally' = [tally EXCEPT !.tools = @ + 1, !.admitted = @ + 1]
  /\ Build /\ UNCHANGED <<dropped, turn>>
  /\ Same

\* record_tool_completion; try_admit_tool_event drops what exceeds the quota.
RecordTool ==
  /\ pc = "idle" /\ tally.tools < MaxTools
  /\ \/ /\ written < TurnQuota
        /\ written' = written + 1
        /\ tally' = [tally EXCEPT !.tools = @ + 1, !.admitted = @ + 1]
        /\ Build /\ UNCHANGED dropped
     \/ /\ written >= TurnQuota
        /\ dropped' = dropped + 1
        /\ tally' = [tally EXCEPT !.tools = @ + 1]
        /\ UNCHANGED <<written, made, seq, event, pc>>
  /\ UNCHANGED turn
  /\ Same

\* record_approval (record_session_end below).
RecordApproval ==
  /\ pc = "idle" /\ owner = "runner"
  /\ Build
  /\ Same /\ UNCHANGED quotaVars

\* Mutant: reset before it is read.
TakeElidedLate == dropped' = 0 /\ UNCHANGED tally

\* take_turn_elided, journalled by the runner.
TakeElided == tally' = [tally EXCEPT !.journalled = @ + dropped] /\ dropped' = 0

\* The top of a turn: what was dropped is journalled, the quota is reset,
\* the first turn leaves a milestone.
BeginTurn ==
  /\ pc = "idle" /\ owner = "runner" /\ turn < MaxTurns
  /\ TakeElided
  /\ turn' = turn + 1 /\ written' = 0
  /\ IF turn = 0 THEN Build ELSE UNCHANGED <<made, seq, event, pc>>
  /\ Same

SessionEnd ==
  /\ pc = "idle" /\ owner = "runner" /\ turn > 0
  /\ TakeElided
  /\ Build
  /\ Same /\ UNCHANGED <<turn, written>>

-----------------------------------------------------------------------------
(* persist: write_event or write_event_with_cause *)

\* The fact id write_event returns when everything is answered.
Identity(fs, e) == Min(Versions(fs, sid, e))

\* The event is in the engine with its id.
Landed(v) ==
  LET fid == Identity(Append(facts, [s |-> sid, e |-> event.e, v |-> v]), event.e)
  IN /\ sid \in live
     /\ Post(event.e, v)
     /\ mapped' = [mapped EXCEPT ![fid] = event.e]
     /\ prev' = fid
     /\ \/ NoFault /\ UNCHANGED armed
        \/ Fault /\ armed' = TRUE    \* the shared face fails

\* No session, no answer, or no id: 0.
Missed(v) ==
  /\ \/ sid \notin live /\ NoFault /\ UNCHANGED facts
     \/ sid \in live /\ Fault /\ (Post(event.e, v) \/ UNCHANGED facts)
  /\ armed' = TRUE
  /\ UNCHANGED <<mapped, prev>>

Write ==
  LET v == [body |-> event.body, cause |-> prev, effects |-> {}]
  IN /\ pc = "write"
     /\ cache' = [cache EXCEPT ![event.e] = v]
     /\ IF prev # 0
        THEN pc' = "link" /\ event' = [event EXCEPT !.cause = prev]
        ELSE pc' = "idle" /\ event' = NoEvent
     /\ Landed(v) \/ Missed(v)
  /\ UNCHANGED <<live, minted, file, sid, seq, quotaVars, runVars>>

\* Mutant: the source is changed in the cache only.
LinkCacheOnly ==
  LET src == mapped[event.cause]
  IN /\ pc = "link" /\ pc' = "idle"
     /\ cache' = IF src = 0 \/ (src # 0 /\ cache[src] = Absent) THEN cache
                 ELSE [cache EXCEPT ![src].effects = @ \cup {event.e}]
  /\ event' = NoEvent /\ NoFault
  /\ UNCHANGED <<engineVars, file, sid, mapped, seq, prev, armed, quotaVars, runVars>>

\* write_event_with_cause: the source gets the event among its effects, in
\* the cache always and in the engine if the request gets there.
Link ==
  LET src == mapped[event.cause]
      v == [cache[src] EXCEPT !.effects = @ \cup {event.e}]
  IN /\ pc = "link" /\ pc' = "idle"
     /\ IF src # 0 /\ (src # 0 => cache[src] # Absent /\ event.e \notin cache[src].effects)
        THEN /\ cache' = [cache EXCEPT ![src] = v]
             /\ \/ sid \in live /\ Post(src, v) /\ NoFault
                \/ sid \notin live /\ UNCHANGED facts /\ NoFault
                \/ sid \in live /\ UNCHANGED facts /\ Fault
        ELSE NoFault /\ UNCHANGED <<cache, facts>>
  /\ event' = NoEvent
  /\ UNCHANGED <<live, minted, file, sid, mapped, seq, prev, armed, quotaVars, runVars>>

-----------------------------------------------------------------------------
(* Faults *)

\* The engine forgets a session (external).
SessionDies ==
  /\ Fault
  /\ \E s \in live : live' = live \ {s}
  /\ UNCHANGED <<facts, minted, file, storeVars, seq, prev, quotaVars, armed, event, pc, runVars>>

Restart ==
  /\ starts < MaxStarts /\ starts' = starts + 1
  /\ Fresh
  /\ torn' = (torn \/ pc \notin {"start", "idle"})
  /\ NoFault
  /\ UNCHANGED <<engineVars, file, owner, made>>

TrackNext ==
  \/ Start \/ Ensure \/ RecordTool \/ RecordApproval \/ BeginTurn \/ SessionEnd
  \/ Write \/ Link \/ SessionDies \/ Restart

TrackSpec == TrackInit /\ [][TrackNext]_trackVars

-----------------------------------------------------------------------------
(* Properties *)

\* A cause is an earlier fact of the session the event is in
\* (event_ledger.rs, ensure_gov_session: a fact of another session is no
\* valid cause), over restarts, lost sessions and lost answers.
CauseIsEarlier ==
  \A i \in DOMAIN facts :
    LET c == facts[i].v.cause
    IN c # 0 => c < i /\ facts[c].s = facts[i].s

Latest(fs, s, e) == fs[Max(Versions(fs, s, e))].v

\* A later version of an event never has fewer effects: write_event_with_cause
\* writes the source from the cache, which holds what the engine holds.
EffectsKept ==
  [][\A i \in DOMAIN facts :
       LET f == facts[i]
       IN f.v.body = Latest(facts, f.s, f.e).body
            /\ f.v.body = Latest(facts', f.s, f.e).body
          => f.v.effects \subseteq Latest(facts', f.s, f.e).effects]_trackVars

\* Without a fault, and with no process ended inside persist, the causal
\* chain can be walked both ways (store.rs, write_event_with_cause): for the
\* /mcp track over restarts, for a runner as long as it lives.
BothWays ==
  faults = 0 /\ ~torn /\ pc \in {"idle", "start"} /\ (owner = "mcp" \/ starts = 1) =>
    \A i \in DOMAIN facts :
      LET f == facts[i]
          v == Latest(facts, f.s, f.e)
      IN v.cause # 0 => f.e \in Latest(facts, f.s, facts[v.cause].e).effects

\* Every tool call of the process is an event of the track, or counted
\* among the dropped ones in the journal or on the way there.
DropsAccounted == tally.tools = tally.admitted + tally.journalled + dropped

\* Types, the causal chain in both directions, and no tool call without a trace.
TrackInv == TrackTypeOK /\ CauseIsEarlier /\ BothWays /\ DropsAccounted

\* Refuted: after a restart the sequence of the /mcp track goes on where it
\* was, so no event takes the number of another one (fetch_chain_tail).
EventKept ==
  owner = "mcp" =>
  \A i, j \in DOMAIN facts :
    facts[i].s = facts[j].s /\ facts[i].e = facts[j].e => facts[i].v.body = facts[j].v.body

\* Refuted: the /mcp endpoint records every call (mcp/server.rs).
McpRecordsAll == owner = "mcp" => dropped = 0
=============================================================================
