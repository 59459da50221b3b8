------------------------------ MODULE WsTurns ------------------------------
(***************************************************************************)
(* The turn life cycle of a WebSocket client.  handle_ws reads client      *)
(* messages and, from one bounded channel, the events that a spawned pump  *)
(* (forward_turn_events) forwards for each turn; select! takes either side *)
(* first.  A turn ends in two steps: TurnDone frees the connection for the *)
(* next message, TurnEnd writes the session index and the snapshot.  When  *)
(* the connection drops, the pump notices at its next send only.           *)
(*                                                                         *)
(* One client at a time holds the session; Reconnect opens the next        *)
(* connection, while pumps of earlier ones may still run ("orphans").      *)
(***************************************************************************)
EXTENDS Naturals, Sequences

CONSTANTS
  Turn,       \* turns the client may start; each is started once
  NoTurn,     \* no turn holds the connection
  Capacity,   \* slots of the event channel (128 in the code)
  MaxEvents   \* bound: non-terminal events a turn emits

ASSUME WsTurnsAssumption ==
  /\ NoTurn \notin Turn
  /\ Capacity \in Nat \ {0}
  /\ MaxEvents \in Nat

VARIABLES
  conn,         \* "open" or "closed"
  session,      \* current_session: "none", "given" by the path, or "created"
  exists,       \* does the engine know the given session
  turn_active,  \* the flag that refuses a second message
  current_cancel, \* the turn whose token interrupt cancels, or NoTurn
  session_established, turn_succeeded,  \* what TurnEnd looks at
  queue,        \* the event channel of the open connection
  pump,         \* [Turn -> Pump]: the forwarding task and its stream
  orphan,       \* turns whose connection is closed
  terminal_seen, \* [Turn -> BOOLEAN]: the pump's flag
  left,         \* [Turn -> Nat]: non-terminal events still to come
  cancelled,    \* turns whose token is cancelled
  won,          \* turns whose stream ended in a successful Done
  frames,       \* [Turn -> Nat]: terminal frames the client got
  ended,        \* turns whose TurnEnd was handled
  recorded      \* turns after which the session index was refreshed

connVars == <<conn, session, exists, turn_active, current_cancel,
              session_established, turn_succeeded>>
pumpVars == <<pump, orphan, terminal_seen, left, won>>
clientVars == <<frames, ended, recorded>>
vars == <<connVars, queue, pumpVars, cancelled, clientVars>>

\* idle, emitting its stream, after an Error frame that a Done follows, stream
\* exhausted, terminal frame certain, TurnDone sent, finished.
Pump == {"idle", "streaming", "failing", "exhausted", "closing", "released", "gone"}
Terminal == {"done_ok", "done_fail", "error"}
Kind == Terminal \cup {"created", "other", "turn_done", "turn_end"}
Event == [turn : Turn, kind : Kind]

TypeOK ==
  /\ conn \in {"open", "closed"}
  /\ session \in {"none", "given", "created"}
  /\ {exists, turn_active, session_established, turn_succeeded} \subseteq BOOLEAN
  /\ current_cancel \in Turn \cup {NoTurn}
  /\ queue \in Seq(Event) /\ Len(queue) <= Capacity
  /\ pump \in [Turn -> Pump]
  /\ terminal_seen \in [Turn -> BOOLEAN]
  /\ left \in [Turn -> 0 .. MaxEvents]
  /\ frames \in [Turn -> Nat]
  /\ {orphan, cancelled, won, ended, recorded} \subseteq SUBSET Turn

Init ==
  /\ conn = "open"
  /\ session \in {"none", "given"}
  /\ exists \in (IF session = "none" THEN {FALSE} ELSE BOOLEAN)
  /\ turn_active = FALSE
  /\ current_cancel = NoTurn
  /\ session_established = FALSE
  /\ turn_succeeded = FALSE
  /\ queue = << >>
  /\ pump = [t \in Turn |-> "idle"]
  /\ terminal_seen = [t \in Turn |-> FALSE]
  /\ left = [t \in Turn |-> MaxEvents]
  /\ frames = [t \in Turn |-> 0]
  /\ orphan = {} /\ cancelled = {} /\ won = {} /\ ended = {} /\ recorded = {}

-----------------------------------------------------------------------------
(* handle_ws, client side of the select *)

\* A message (a first or a continuation turn) or a resume: refused while a
\* turn is active, else a fresh runner is streamed by a new pump.
Start(t) ==
  /\ conn = "open"
  /\ ~turn_active
  /\ pump[t] = "idle"
  /\ pump' = [pump EXCEPT ![t] = "streaming"]
  /\ current_cancel' = t
  /\ turn_active' = TRUE
  /\ turn_succeeded' = FALSE
  /\ UNCHANGED <<conn, session, exists, session_established, queue, orphan,
                 terminal_seen, left, won, cancelled, clientVars>>

\* An interrupt cancels the token of the current turn, if there is one.
Interrupt ==
  /\ conn = "open"
  /\ current_cancel # NoTurn
  /\ cancelled' = cancelled \cup {current_cancel}
  /\ UNCHANGED <<connVars, queue, pumpVars, clientVars>>

\* Mutant: the clean-up after the loop is skipped.
DisconnectWithoutCancel ==
  /\ conn = "open"
  /\ conn' = "closed"
  /\ queue' = << >>
  /\ orphan' = {t \in Turn : pump[t] # "idle"}
  /\ turn_active' = FALSE
  /\ current_cancel' = NoTurn
  /\ UNCHANGED <<session, exists, session_established, turn_succeeded, pump,
                 terminal_seen, left, won, cancelled, clientVars>>

\* Close frame, receive error, end of stream or failed send: the loop breaks,
\* the clean-up cancels the current turn, the channel's receiver is dropped.
Disconnect ==
  /\ conn = "open"
  /\ conn' = "closed"
  /\ cancelled' = cancelled \cup ({current_cancel} \ {NoTurn})
  /\ queue' = << >>
  /\ orphan' = {t \in Turn : pump[t] # "idle"}
  /\ turn_active' = FALSE
  /\ current_cancel' = NoTurn
  /\ UNCHANGED <<session, exists, session_established, turn_succeeded, pump,
                 terminal_seen, left, won, clientVars>>

\* The client comes back with the session id it has (or still with none).
Reconnect ==
  /\ conn = "closed"
  /\ conn' = "open"
  /\ session' = IF session = "none" THEN "none" ELSE "given"
  /\ session_established' = FALSE
  /\ turn_succeeded' = FALSE
  /\ UNCHANGED <<exists, turn_active, current_cancel, queue, pumpVars, cancelled,
                 clientVars>>

-----------------------------------------------------------------------------
(* handle_ws, event side of the select *)

Head_is(kinds) == conn = "open" /\ queue # << >> /\ Head(queue).kind \in kinds

\* An agent event: the session id and the success flag follow it, the frame
\* goes to the client.
HandleAgent ==
  /\ Head_is(Terminal \cup {"created", "other"})
  /\ LET e == Head(queue) IN
       /\ session' = IF e.kind = "created" THEN "created" ELSE session
       /\ exists' = (exists \/ e.kind = "created")
       /\ session_established' = (session_established \/ e.kind = "created")
       /\ turn_succeeded' = IF e.kind \in Terminal THEN e.kind = "done_ok" ELSE turn_succeeded
       /\ frames' = IF e.kind \in Terminal THEN [frames EXCEPT ![e.turn] = @ + 1] ELSE frames
  /\ queue' = Tail(queue)
  /\ UNCHANGED <<conn, turn_active, current_cancel, pumpVars, cancelled, ended, recorded>>

\* TurnDone: the next message may come.
HandleTurnDone ==
  /\ Head_is({"turn_done"})
  /\ turn_active' = FALSE
  /\ current_cancel' = NoTurn
  /\ queue' = Tail(queue)
  /\ UNCHANGED <<conn, session, exists, session_established, turn_succeeded,
                 pumpVars, cancelled, clientVars>>

\* Mutant: the index is refreshed after every turn with a session id.
RefreshAlways(t) == IF session # "none" THEN recorded \cup {t} ELSE recorded

\* The index entry and the snapshot are written for a session that was created
\* on this connection or whose current turn succeeded.
Refresh(t) ==
  IF session # "none" /\ (session_established \/ turn_succeeded)
    THEN recorded \cup {t}
    ELSE recorded

\* Mutant: TurnEnd, not TurnDone alone, frees the connection.
HandleTurnEndFrees ==
  /\ Head_is({"turn_end"})
  /\ ended' = ended \cup {Head(queue).turn}
  /\ recorded' = Refresh(Head(queue).turn)
  /\ turn_active' = FALSE
  /\ current_cancel' = NoTurn
  /\ queue' = Tail(queue)
  /\ UNCHANGED <<conn, session, exists, session_established, turn_succeeded,
                 pumpVars, cancelled, frames>>

\* TurnEnd: bookkeeping only.
HandleTurnEnd ==
  /\ Head_is({"turn_end"})
  /\ ended' = ended \cup {Head(queue).turn}
  /\ recorded' = Refresh(Head(queue).turn)
  /\ queue' = Tail(queue)
  /\ UNCHANGED <<connVars, pumpVars, cancelled, frames>>

-----------------------------------------------------------------------------
(* forward_turn_events and the runner's stream behind it *)

\* Mutant: the channel is unbounded.
SendUnbounded(t, kind) ==
  /\ t \notin orphan
  /\ queue' = Append(queue, [turn |-> t, kind |-> kind])

\* tx.send: waits for a slot; on a closed connection it fails.
Send(t, kind) ==
  /\ t \notin orphan
  /\ Len(queue) < Capacity
  /\ queue' = Append(queue, [turn |-> t, kind |-> kind])

\* The first turn of a new session announces it before anything else happens.
Opening(t) == session = "none" /\ left[t] = MaxEvents

\* The stream yields a non-terminal event.
EmitEvent(t) ==
  /\ pump[t] = "streaming"
  /\ left[t] > 0
  /\ Send(t, IF Opening(t) THEN "created" ELSE "other")
  /\ left' = [left EXCEPT ![t] = @ - 1]
  /\ UNCHANGED <<connVars, pump, orphan, terminal_seen, won, cancelled, clientVars>>

\* The stream yields its result, an error the stream ends with, or an Error
\* event that the runner follows with a failed Done.  A turn on a session the
\* engine does not know cannot succeed.
EmitTerminal(t) ==
  /\ \E kind \in Terminal, next \in {"failing", "exhausted"} :
       /\ \/ pump[t] = "streaming" /\ (kind = "error" \/ next = "exhausted")
          \/ pump[t] = "failing" /\ kind = "done_fail" /\ next = "exhausted"
       /\ kind = "done_ok" => exists \/ (session = "none" /\ ~Opening(t))
       /\ Send(t, kind)
       /\ pump' = [pump EXCEPT ![t] = next]
       /\ won' = IF kind = "done_ok" THEN won \cup {t} ELSE won
  /\ terminal_seen' = [terminal_seen EXCEPT ![t] = TRUE]
  /\ UNCHANGED <<connVars, orphan, left, cancelled, clientVars>>

\* The stream ends without a terminal event.
StreamEnds(t) ==
  /\ pump[t] = "streaming"
  /\ pump' = [pump EXCEPT ![t] = "exhausted"]
  /\ UNCHANGED <<connVars, queue, orphan, terminal_seen, left, won, cancelled, clientVars>>

\* Mutant: no failed Done is made up for a stream that had no terminal event.
SynthesizeNever(t) ==
  /\ pump[t] = "exhausted"
  /\ pump' = [pump EXCEPT ![t] = "closing"]
  /\ UNCHANGED <<connVars, queue, orphan, terminal_seen, left, won, cancelled, clientVars>>

\* Mutant: the pump waits for a terminal event instead of making one up.
SynthesizeWaits(t) ==
  /\ pump[t] = "exhausted"
  /\ terminal_seen[t]
  /\ pump' = [pump EXCEPT ![t] = "closing"]
  /\ UNCHANGED <<connVars, queue, orphan, terminal_seen, left, won, cancelled, clientVars>>

\* After the stream: a failed Done is made up unless a terminal event went out.
Synthesize(t) ==
  /\ pump[t] = "exhausted"
  /\ pump' = [pump EXCEPT ![t] = "closing"]
  /\ \/ terminal_seen[t] /\ UNCHANGED queue
     \/ ~terminal_seen[t] /\ Send(t, "done_fail")
  /\ UNCHANGED <<connVars, orphan, terminal_seen, left, won, cancelled, clientVars>>

SendTurnDone(t) ==
  /\ pump[t] = "closing"
  /\ Send(t, "turn_done")
  /\ pump' = [pump EXCEPT ![t] = "released"]
  /\ UNCHANGED <<connVars, orphan, terminal_seen, left, won, cancelled, clientVars>>

SendTurnEnd(t) ==
  /\ pump[t] = "released"
  /\ Send(t, "turn_end")
  /\ pump' = [pump EXCEPT ![t] = "gone"]
  /\ UNCHANGED <<connVars, orphan, terminal_seen, left, won, cancelled, clientVars>>

\* A send on the channel of a closed connection fails: the pump returns.
OrphanStops(t) ==
  /\ t \in orphan
  /\ pump[t] # "gone"
  /\ pump' = [pump EXCEPT ![t] = "gone"]
  /\ UNCHANGED <<connVars, queue, orphan, terminal_seen, left, won, cancelled, clientVars>>

-----------------------------------------------------------------------------

PumpStep(t) == \/ EmitEvent(t) \/ EmitTerminal(t) \/ StreamEnds(t) \/ Synthesize(t)
               \/ SendTurnDone(t) \/ SendTurnEnd(t) \/ OrphanStops(t)

Loop == HandleAgent \/ HandleTurnDone \/ HandleTurnEnd

Next == \/ Interrupt \/ Disconnect \/ Reconnect \/ Loop
        \/ \E t \in Turn : Start(t) \/ PumpStep(t)

\* The executor polls the loop and every pump; a turn's stream ends (the
\* runner's step, heartbeat and approval limits).  The client owes nothing.
Safety == Init /\ [][Next]_vars

Spec == /\ Safety
        /\ WF_vars(Loop)
        /\ \A t \in Turn : WF_vars(PumpStep(t))

-----------------------------------------------------------------------------
(* Properties *)

Queued(t, kind) == \E i \in DOMAIN queue : queue[i] = [turn |-> t, kind |-> kind]

\* The turn holds the connection until its TurnDone has been handled.
Holds(t) ==
  /\ t \notin orphan
  /\ pump[t] \in {"streaming", "failing", "exhausted", "closing"} \/ Queued(t, "turn_done")

\* turn_active and current_cancel describe the one turn that holds the
\* connection: no late TurnDone or TurnEnd of an earlier turn frees a later one,
\* and an interrupt always reaches the turn that runs.
ActiveIsTheHolder ==
  /\ \A t, u \in Turn : Holds(t) /\ Holds(u) => t = u
  /\ turn_active <=> \E t \in Turn : Holds(t)
  /\ \A t \in Turn : current_cancel = t <=> Holds(t)

\* A turn that runs without a connection listening to it has been cancelled.
StrayTurnCancelled ==
  \A t \in Turn : pump[t] = "streaming" /\ current_cancel # t => t \in cancelled

\* The client has a terminal frame of a turn before it can start another one
\* (forward_turn_events makes one up when the stream has none).
ReleasedAfterTerminal ==
  \A t \in Turn : t \in ended \/ (pump[t] \in {"released", "gone"} /\ t \notin orphan /\ ~Holds(t))
    => frames[t] >= 1

\* The session index never gets an entry for a session the engine does not
\* know (the ghost entries handle_ws guards against).
NoGhostEntry == recorded # {} => exists

\* The state of a connection, with its types: the turn that holds it, the strays, the terminal frames,
\* and the index of the sessions, whatever order the pumps' events arrive in and whenever the client
\* leaves.
WsInv ==
  TypeOK /\ ActiveIsTheHolder /\ StrayTurnCancelled /\ ReleasedAfterTerminal /\ NoGhostEntry

\* Every turn lets go of its connection: it completes or the client leaves.
TurnReleases == turn_active ~> ~turn_active

(* What comments of the code say, and the code does not keep *)

\* forward_turn_events: the client gets exactly one terminal frame per turn.
OneTerminalFrame == \A t \in Turn : frames[t] <= 1

\* handle_ws: TurnEnd refreshes the index of a session whose turn succeeded.
SuccessfulTurnRecorded == \A t \in Turn : t \in ended /\ t \in won => t \in recorded
=============================================================================
