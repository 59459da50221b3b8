--------------------------- MODULE WsTurnsProofs ---------------------------
(***************************************************************************)
(* The state of a WebSocket connection (WsInv), proved for any set of      *)
(* turns, any capacity of the event channel and any number of events.      *)
(* What makes the invariant inductive is the contents of the channel: whose *)
(* events it may hold, and what must come before what in it.               *)
(***************************************************************************)
EXTENDS WsTurns, TLAPS

Pos == 1 .. Len(queue)

\* The connection belongs to the turn whose token it keeps.
Held ==
  /\ turn_active <=> current_cancel # NoTurn
  /\ \A t \in Turn : current_cancel = t <=> Holds(t)

\* Only turns of the open connection have events in the channel, at most one of
\* which is a TurnDone; pumps send TurnDone and TurnEnd last.
Channel ==
  /\ \A i \in Pos :
       /\ queue[i].turn \notin orphan
       /\ pump[queue[i].turn] # "idle"
       /\ queue[i].kind = "turn_done" => pump[queue[i].turn] \in {"released", "gone"}
       /\ queue[i].kind = "turn_end" => pump[queue[i].turn] = "gone"
  /\ \A i, j \in Pos : queue[i].kind = "turn_done" /\ queue[j].kind = "turn_done" => i = j

\* A closed connection has no events, and every turn it had is an orphan.
Closing ==
  /\ \A t \in orphan : pump[t] # "idle"
  /\ conn = "closed" => queue = << >> /\ \A t \in Turn : pump[t] # "idle" => t \in orphan

Terminated(t) == \E i \in Pos : queue[i].turn = t /\ queue[i].kind \in Terminal

TerminalBefore(t, n) == \E i \in Pos : i < n /\ queue[i].turn = t /\ queue[i].kind \in Terminal

\* A terminal frame comes before TurnDone and TurnEnd.
Framed ==
  /\ \A t \in Turn \ orphan :
       terminal_seen[t] \/ pump[t] \in {"closing", "released", "gone"} =>
         frames[t] >= 1 \/ Terminated(t)
  /\ \A i \in Pos : queue[i].kind \in {"turn_done", "turn_end"} =>
       frames[queue[i].turn] >= 1 \/ TerminalBefore(queue[i].turn, i)
  /\ \A t \in Turn \ orphan : pump[t] \in {"released", "gone"} =>
       frames[t] >= 1 \/ Queued(t, "turn_done")
  /\ \A t \in ended : frames[t] >= 1

Created == \E i \in Pos : queue[i].kind = "created"

CreatedBefore(n) == \E i \in Pos : i < n /\ queue[i].kind = "created"

\* Whoever works on a session that has no name yet has announced it, and the
\* announcement comes before the result.
Announced ==
  /\ session_established \/ turn_succeeded \/ recorded # {} => exists
  /\ \A t \in Turn : pump[t] = "idle" => left[t] = MaxEvents
  /\ session = "none" => \A t \in Turn \ orphan : left[t] < MaxEvents => Created
  /\ \A i \in Pos : queue[i].kind = "done_ok" => exists \/ CreatedBefore(i)

IInv == TypeOK /\ Held /\ Channel /\ Closing /\ StrayTurnCancelled /\ Framed /\ Announced

-----------------------------------------------------------------------------
(* The channel *)

\* What the type of the state says of the pieces the proofs use.
LEMMA Types ==
  ASSUME TypeOK
  PROVE  /\ queue \in Seq(Event) /\ Len(queue) \in Nat
         /\ \A i \in Pos : queue[i] \in Event /\ queue[i].turn \in Turn /\ queue[i].kind \in Kind
         /\ {orphan, cancelled, won, ended, recorded} \subseteq SUBSET Turn
         /\ pump \in [Turn -> Pump] /\ current_cancel \in Turn \cup {NoTurn}
<1>1. queue \in Seq(Event) /\ Len(queue) \in Nat
  BY DEF TypeOK
<1>2. \A i \in Pos : queue[i] \in Event
  BY <1>1 DEF Pos
<1>3. \A e \in Event : e.turn \in Turn /\ e.kind \in Kind
  BY DEF Event
<1> QED
  BY <1>1, <1>2, <1>3 DEF TypeOK

\* What a send adds to the channel.
LEMMA Grows ==
  ASSUME TypeOK, NEW t \in Turn, NEW k \in Kind, Send(t, k)
  PROVE  /\ Len(queue') = Len(queue) + 1
         /\ \A i \in Pos : queue'[i] = queue[i]
         /\ queue'[Len(queue) + 1] = [turn |-> t, kind |-> k]
         /\ queue' \in Seq(Event)
<1>1. [turn |-> t, kind |-> k] \in Event
  BY DEF Event
<1> QED
  BY <1>1, Types DEF Send, Pos

\* What is in the channel after a send.
LEMMA GrowsBefore ==
  ASSUME TypeOK, NEW t \in Turn, NEW k \in Kind, Send(t, k)
  PROVE  /\ Pos' = Pos \cup {Len(queue) + 1}
         /\ \A u \in Turn, m \in Kind : Queued(u, m)' <=> Queued(u, m) \/ (u = t /\ m = k)
         /\ \A u \in Turn, n \in Nat : TerminalBefore(u, n) => TerminalBefore(u, n)'
         /\ \A n \in Nat : CreatedBefore(n) => CreatedBefore(n)'
         /\ \A u \in Turn : Terminated(u)' <=> Terminated(u) \/ (u = t /\ k \in Terminal)
         /\ Created' <=> Created \/ k = "created"
<1>1. /\ Len(queue) \in Nat /\ Len(queue') = Len(queue) + 1
      /\ DOMAIN queue = Pos /\ DOMAIN queue' = Pos'
  <2>1. queue \in Seq(Event) /\ queue' \in Seq(Event) /\ Len(queue') = Len(queue) + 1
    BY Grows, Types
  <2> QED
    BY <2>1 DEF Pos
<1>2. Pos' = Pos \cup {Len(queue) + 1}
  BY <1>1 DEF Pos
<1>3. \A u \in Turn, m \in Kind : Queued(u, m)' <=> Queued(u, m) \/ (u = t /\ m = k)
  <2> SUFFICES ASSUME NEW u \in Turn, NEW m \in Kind
               PROVE  Queued(u, m)' <=> Queued(u, m) \/ (u = t /\ m = k)
    OBVIOUS
  <2>1. Queued(u, m)' <=> \E i \in Pos \cup {Len(queue) + 1} : queue'[i] = [turn |-> u, kind |-> m]
    BY <1>1, <1>2 DEF Queued
  <2>2. Queued(u, m) <=> \E i \in Pos : queue'[i] = [turn |-> u, kind |-> m]
    BY <1>1, Grows DEF Queued
  <2>3. [turn |-> t, kind |-> k] = [turn |-> u, kind |-> m] <=> u = t /\ m = k
    OBVIOUS
  <2> QED
    BY <2>1, <2>2, <2>3, Grows
<1>4. \A u \in Turn, n \in Nat : TerminalBefore(u, n) => TerminalBefore(u, n)'
  BY <1>2, Grows DEF TerminalBefore
<1>5. \A n \in Nat : CreatedBefore(n) => CreatedBefore(n)'
  BY <1>2, Grows DEF CreatedBefore
<1>6. \A u \in Turn : Terminated(u)' <=> Terminated(u) \/ (u = t /\ k \in Terminal)
  <2> SUFFICES ASSUME NEW u \in Turn
               PROVE  Terminated(u)' <=> Terminated(u) \/ (u = t /\ k \in Terminal)
    OBVIOUS
  <2>1. Terminated(u)' <=> \E i \in Pos \cup {Len(queue) + 1} :
                             queue'[i].turn = u /\ queue'[i].kind \in Terminal
    BY <1>2 DEF Terminated
  <2>2. Terminated(u) <=> \E i \in Pos : queue'[i].turn = u /\ queue'[i].kind \in Terminal
    BY Grows DEF Terminated
  <2>3. queue'[Len(queue) + 1].turn = t /\ queue'[Len(queue) + 1].kind = k
    <3>1. queue'[Len(queue) + 1] = [turn |-> t, kind |-> k]
      BY Grows
    <3> QED
      BY <3>1
  <2> QED
    BY <2>1, <2>2, <2>3
<1>7. Created' <=> Created \/ k = "created"
  <2>1. Created' <=> \E i \in Pos \cup {Len(queue) + 1} : queue'[i].kind = "created"
    BY <1>2 DEF Created
  <2>2. Created <=> \E i \in Pos : queue'[i].kind = "created"
    BY Grows DEF Created
  <2>3. queue'[Len(queue) + 1].kind = k
    <3>1. queue'[Len(queue) + 1] = [turn |-> t, kind |-> k]
      BY Grows
    <3> QED
      BY <3>1
  <2> QED
    BY <2>1, <2>2, <2>3
<1> QED
  BY <1>2, <1>3, <1>4, <1>5, <1>6, <1>7

\* What is in the channel after its head was taken.
LEMMA Shrinks ==
  ASSUME TypeOK, queue # << >>, queue' = Tail(queue)
  PROVE  /\ Len(queue) \in Nat \ {0} /\ Len(queue') = Len(queue) - 1
         /\ Head(queue) = queue[1] /\ 1 \in Pos
         /\ \A i \in Pos' : i + 1 \in Pos /\ queue'[i] = queue[i + 1]
         /\ \A i \in Pos : i = 1 \/ i - 1 \in Pos'
         /\ queue' \in Seq(Event)
BY Types DEF Pos

\* What was before a place of the channel after its head was taken.
LEMMA ShrinksBefore ==
  ASSUME TypeOK, queue # << >>, queue' = Tail(queue)
  PROVE  /\ \A u \in Turn, m \in Kind : Queued(u, m)' => Queued(u, m)
         /\ \A u \in Turn, m \in Kind : Queued(u, m) => Queued(u, m)' \/ queue[1] = [turn |-> u, kind |-> m]
         /\ \A u \in Turn, n \in Nat : TerminalBefore(u, n + 1) =>
              TerminalBefore(u, n)' \/ (queue[1].turn = u /\ queue[1].kind \in Terminal)
         /\ \A n \in Nat : CreatedBefore(n + 1) => CreatedBefore(n)' \/ queue[1].kind = "created"
         /\ \A u \in Turn : Terminated(u) =>
              Terminated(u)' \/ (queue[1].turn = u /\ queue[1].kind \in Terminal)
         /\ Created => Created' \/ queue[1].kind = "created"
<1>1. DOMAIN queue = Pos /\ DOMAIN queue' = Pos'
  BY Shrinks, Types DEF Pos
<1>2. \A i \in Pos : i \in Nat /\ (i = 1 \/ (i - 1 \in Pos' /\ queue'[i - 1] = queue[i]))
  BY Shrinks DEF Pos
<1>3. \A u \in Turn, m \in Kind : Queued(u, m)' => Queued(u, m)
  BY <1>1, Shrinks DEF Queued
<1>4. \A u \in Turn, m \in Kind : Queued(u, m) => Queued(u, m)' \/ queue[1] = [turn |-> u, kind |-> m]
  BY <1>1, <1>2 DEF Queued
<1>5. \A u \in Turn, n \in Nat : TerminalBefore(u, n + 1) =>
        TerminalBefore(u, n)' \/ (queue[1].turn = u /\ queue[1].kind \in Terminal)
  <2> SUFFICES ASSUME NEW u \in Turn, NEW n \in Nat, TerminalBefore(u, n + 1),
                      ~(queue[1].turn = u /\ queue[1].kind \in Terminal)
               PROVE  TerminalBefore(u, n)'
    OBVIOUS
  <2>1. PICK i \in Pos : i < n + 1 /\ queue[i].turn = u /\ queue[i].kind \in Terminal
    BY DEF TerminalBefore
  <2>2. i # 1
    BY <2>1
  <2>3. i \in Nat /\ i - 1 \in Pos' /\ queue'[i - 1] = queue[i]
    BY <1>2, <2>2, Zenon
  <2>4. i - 1 < n
    BY <2>1, <2>3
  <2> QED
    BY <2>1, <2>3, <2>4 DEF TerminalBefore
<1>6. \A n \in Nat : CreatedBefore(n + 1) => CreatedBefore(n)' \/ queue[1].kind = "created"
  <2> SUFFICES ASSUME NEW n \in Nat, CreatedBefore(n + 1), queue[1].kind # "created"
               PROVE  CreatedBefore(n)'
    OBVIOUS
  <2>1. PICK i \in Pos : i < n + 1 /\ queue[i].kind = "created"
    BY DEF CreatedBefore
  <2>2. i # 1
    BY <2>1
  <2>3. i \in Nat /\ i - 1 \in Pos' /\ queue'[i - 1] = queue[i]
    BY <1>2, <2>2, Zenon
  <2>4. i - 1 < n
    BY <2>1, <2>3
  <2> QED
    BY <2>1, <2>3, <2>4 DEF CreatedBefore
<1>7. \A u \in Turn : Terminated(u) => Terminated(u)' \/ (queue[1].turn = u /\ queue[1].kind \in Terminal)
  BY <1>2 DEF Terminated
<1>8. Created => Created' \/ queue[1].kind = "created"
  BY <1>2 DEF Created
<1> QED
  BY <1>3, <1>4, <1>5, <1>6, <1>7, <1>8
\* Nothing happens to the channel.
LEMMA Same ==
  ASSUME queue' = queue
  PROVE  /\ Pos' = Pos
         /\ \A u \in Turn, m \in Kind : Queued(u, m)' <=> Queued(u, m)
         /\ \A u \in Turn, n \in Nat : TerminalBefore(u, n)' <=> TerminalBefore(u, n)
         /\ \A n \in Nat : CreatedBefore(n)' <=> CreatedBefore(n)
         /\ \A u \in Turn : Terminated(u)' <=> Terminated(u)
         /\ Created' <=> Created
<1>1. Pos' = Pos
  BY DEF Pos
<1> QED
  BY <1>1 DEF Queued, TerminalBefore, CreatedBefore, Terminated, Created

\* What a pump's step does, without its bookkeeping: it sends, or it does not.
LEMMA PumpMoves ==
  ASSUME TypeOK, NEW t \in Turn, PumpStep(t)
  PROVE  /\ \/ queue' = queue
            \/ \E k \in Kind : Send(t, k)
         /\ UNCHANGED <<connVars, orphan, cancelled, clientVars>>
<1>1. CASE EmitEvent(t)
  <2>1. (IF Opening(t) THEN "created" ELSE "other") \in Kind
    BY DEF Kind
  <2> QED
    BY <1>1, <2>1 DEF EmitEvent
<1>2. CASE EmitTerminal(t)
  BY <1>2 DEF EmitTerminal, Kind
<1>3. CASE StreamEnds(t)
  BY <1>3 DEF StreamEnds
<1>4. CASE Synthesize(t)
  BY <1>4 DEF Synthesize, Kind, Terminal
<1>5. CASE SendTurnDone(t)
  BY <1>5 DEF SendTurnDone, Kind
<1>6. CASE SendTurnEnd(t)
  BY <1>6 DEF SendTurnEnd, Kind
<1>7. CASE OrphanStops(t)
  BY <1>7 DEF OrphanStops
<1> QED
  BY <1>1, <1>2, <1>3, <1>4, <1>5, <1>6, <1>7 DEF PumpStep

-----------------------------------------------------------------------------
(* The parts of the invariant *)

\* The steps of a pump keep the types.
LEMMA TypePump ==
  ASSUME TypeOK, NEW t \in Turn, PumpStep(t)
  PROVE  TypeOK'
<1>1. queue' \in Seq(Event) /\ Len(queue') <= Capacity
  <2>1. CASE queue' = queue
    BY <2>1 DEF TypeOK
  <2>2. ASSUME NEW k \in Kind, Send(t, k) PROVE queue' \in Seq(Event) /\ Len(queue') <= Capacity
    <3>1. Len(queue) < Capacity
      BY <2>2 DEF Send
    <3>2. Len(queue) \in Nat /\ Len(queue') = Len(queue) + 1 /\ queue' \in Seq(Event)
      BY <2>2, Grows, Types
    <3> QED
      BY <3>1, <3>2, WsTurnsAssumption
  <2> QED
    BY <2>1, <2>2, PumpMoves
<1>2. /\ pump' \in [Turn -> Pump]
      /\ terminal_seen' \in [Turn -> BOOLEAN]
      /\ left' \in [Turn -> 0 .. MaxEvents]
      /\ won' \in SUBSET Turn
  <2>t. /\ pump \in [Turn -> Pump] /\ terminal_seen \in [Turn -> BOOLEAN]
        /\ left \in [Turn -> 0 .. MaxEvents] /\ won \in SUBSET Turn
    BY DEF TypeOK
  <2>1. CASE EmitEvent(t)
    BY <2>1, <2>t, WsTurnsAssumption DEF EmitEvent
  <2>2. CASE EmitTerminal(t)
    BY <2>2, <2>t DEF EmitTerminal, Pump
  <2>3. CASE StreamEnds(t)
    BY <2>3, <2>t DEF StreamEnds, Pump
  <2>4. CASE Synthesize(t)
    BY <2>4, <2>t DEF Synthesize, Pump
  <2>5. CASE SendTurnDone(t)
    BY <2>5, <2>t DEF SendTurnDone, Pump
  <2>6. CASE SendTurnEnd(t)
    BY <2>6, <2>t DEF SendTurnEnd, Pump
  <2>7. CASE OrphanStops(t)
    BY <2>7, <2>t DEF OrphanStops, Pump
  <2> QED
    BY <2>1, <2>2, <2>3, <2>4, <2>5, <2>6, <2>7 DEF PumpStep
<1> QED
  BY <1>1, <1>2, PumpMoves DEF TypeOK, connVars, clientVars

\* Every step keeps the types.
LEMMA TypeInductive == TypeOK /\ [Next]_vars => TypeOK'
<1> SUFFICES ASSUME TypeOK, [Next]_vars PROVE TypeOK'
  OBVIOUS
<1>1. ASSUME NEW t \in Turn, Start(t) PROVE TypeOK'
  BY <1>1 DEF TypeOK, Start, Pump, clientVars
<1>2. CASE Interrupt
  BY <1>2 DEF TypeOK, Interrupt, connVars, pumpVars, clientVars
<1>3. CASE Disconnect
  <2>1. << >> \in Seq(Event) /\ Len(<< >>) <= Capacity
    BY WsTurnsAssumption
  <2> QED
    BY <1>3, <2>1 DEF TypeOK, Disconnect, clientVars
<1>4. CASE Reconnect
  BY <1>4 DEF TypeOK, Reconnect, pumpVars, clientVars
<1>5. CASE Loop
  <2>q. queue # << >> /\ queue' = Tail(queue)
    BY <1>5 DEF Loop, HandleAgent, HandleTurnDone, HandleTurnEnd, Head_is
  <2>h. Head(queue) \in Event /\ Head(queue).turn \in Turn
    BY <2>q, Shrinks, Types
  <2>1. queue' \in Seq(Event) /\ Len(queue') <= Capacity
    BY <2>q, Shrinks, WsTurnsAssumption DEF TypeOK
  <2>2. CASE HandleAgent
    <3>1. frames' \in [Turn -> Nat]
      BY <2>2, <2>h DEF TypeOK, HandleAgent
    <3>2. session' \in {"none", "given", "created"}
      BY <2>2 DEF TypeOK, HandleAgent
    <3>3. {exists', session_established', turn_succeeded', turn_active'} \subseteq BOOLEAN
      BY <2>2 DEF TypeOK, HandleAgent
    <3>4. UNCHANGED <<conn, current_cancel, pumpVars, cancelled, ended, recorded>>
      BY <2>2 DEF HandleAgent
    <3> QED
      BY <2>1, <3>1, <3>2, <3>3, <3>4 DEF TypeOK, pumpVars
  <2>3. CASE HandleTurnDone
    BY <2>1, <2>3 DEF TypeOK, HandleTurnDone, pumpVars, clientVars
  <2>4. CASE HandleTurnEnd
    BY <2>1, <2>4, <2>h DEF TypeOK, HandleTurnEnd, Refresh, connVars, pumpVars
  <2> QED
    BY <1>5, <2>2, <2>3, <2>4 DEF Loop
<1>6. ASSUME NEW t \in Turn, PumpStep(t) PROVE TypeOK'
  BY <1>6, TypePump
<1>7. CASE UNCHANGED vars
  BY <1>7 DEF TypeOK, vars, connVars, pumpVars, clientVars
<1> QED
  BY <1>1, <1>2, <1>3, <1>4, <1>5, <1>6, <1>7 DEF Next

\* Taking an event that is no TurnDone, or sending one, changes no holder.
LEMMA HeldInductive == IInv /\ [Next]_vars => Held'
<1> SUFFICES ASSUME IInv, [Next]_vars PROVE Held'
  OBVIOUS
<1>t. TypeOK /\ pump \in [Turn -> Pump] /\ NoTurn \notin Turn
  BY Types, WsTurnsAssumption DEF IInv
<1>h. Held /\ "turn_done" \in Kind
  BY DEF IInv, Kind
<1>s. ASSUME UNCHANGED <<turn_active, current_cancel>>, \A u \in Turn : Holds(u)' <=> Holds(u)
      PROVE  Held'
  BY <1>s, <1>h DEF Held
<1>1. ASSUME NEW t \in Turn, Start(t) PROVE Held'
  <2>1. current_cancel = NoTurn /\ current_cancel' = t /\ turn_active' = TRUE
    BY <1>1, <1>h DEF Start, Held
  <2>2. \A u \in Turn : Holds(u)' <=> Holds(u) \/ u = t
    <3>1. \A u \in Turn : Queued(u, "turn_done")' <=> Queued(u, "turn_done")
      BY <1>1, <1>h, Same DEF Start
    <3>2. t \notin orphan /\ orphan' = orphan /\ pump' = [pump EXCEPT ![t] = "streaming"]
      BY <1>1 DEF Start, IInv, Closing
    <3> QED
      BY <3>1, <3>2, <1>t DEF Holds
  <2>3. \A u \in Turn : ~Holds(u)
    BY <2>1, <1>t, <1>h DEF Held
  <2> QED
    BY <2>1, <2>2, <2>3, <1>t DEF Held
<1>2. CASE Interrupt \/ Reconnect
  <2>1. UNCHANGED <<turn_active, current_cancel, queue, pump, orphan>>
    BY <1>2 DEF Interrupt, Reconnect, connVars, pumpVars
  <2>2. \A u \in Turn : Holds(u)' <=> Holds(u)
    BY <2>1, <1>h, Same DEF Holds
  <2> QED
    BY <2>1, <2>2, <1>s
<1>3. CASE Disconnect
  <2>1. \A u \in Turn : ~Holds(u)'
    BY <1>3, <1>t DEF Disconnect, Holds, Queued
  <2> QED
    BY <1>3, <2>1, <1>t DEF Disconnect, Held
<1>4. CASE HandleAgent \/ HandleTurnEnd
  <2>1. queue # << >> /\ queue' = Tail(queue) /\ Head(queue).kind # "turn_done"
    BY <1>4 DEF HandleAgent, HandleTurnEnd, Head_is, Terminal
  <2>2. \A u \in Turn : Queued(u, "turn_done")' <=> Queued(u, "turn_done")
    <3>1. \A u \in Turn : queue[1] # [turn |-> u, kind |-> "turn_done"]
      BY <2>1, <1>t, Shrinks
    <3> QED
      BY <2>1, <1>t, <1>h, <3>1, ShrinksBefore
  <2> QED
    BY <1>4, <2>2, <1>s DEF HandleAgent, HandleTurnEnd, connVars, pumpVars, Holds
<1>5. CASE HandleTurnDone
  <2>1. queue # << >> /\ queue' = Tail(queue) /\ Head(queue).kind = "turn_done"
    BY <1>5 DEF HandleTurnDone, Head_is
  <2> DEFINE h == queue[1].turn
  <2>2. /\ 1 \in Pos /\ h \in Turn /\ queue[1].kind = "turn_done" /\ queue[1] \in Event
        /\ \A i \in Pos' : i \in Nat \ {0} /\ i + 1 \in Pos /\ queue'[i] = queue[i + 1]
        /\ DOMAIN queue' = Pos'
    <3>1. 1 \in Pos /\ h \in Turn /\ queue[1].kind = "turn_done" /\ queue[1] \in Event
      BY <2>1, <1>t, Shrinks, Types
    <3>2. \A i \in Pos' : i + 1 \in Pos /\ queue'[i] = queue[i + 1]
      BY <2>1, <1>t, Shrinks
    <3>3. DOMAIN queue' = Pos' /\ \A i \in Pos' : i \in Nat \ {0}
      BY <2>1, <1>t, Shrinks DEF Pos
    <3> QED
      BY <3>1, <3>2, <3>3
  <2>3. pump[h] \in {"released", "gone"}
    BY <2>2 DEF IInv, Channel
  <2>4. \A i \in Pos' : queue'[i].kind # "turn_done"
    BY <2>2 DEF IInv, Channel
  <2>5. \A u \in Turn : ~Queued(u, "turn_done")'
    BY <2>2, <2>4 DEF Queued
  <2>6. Holds(h)
    <3>1. queue[1] = [turn |-> h, kind |-> "turn_done"]
      BY <2>2 DEF Event
    <3>2. 1 \in DOMAIN queue
      BY <2>2, <1>t, Types DEF Pos
    <3>3. h \notin orphan
      BY <2>2 DEF IInv, Channel
    <3> QED
      BY <3>1, <3>2, <3>3 DEF Holds, Queued
  <2>7. \A u \in Turn : ~Holds(u)'
    <3> SUFFICES ASSUME NEW u \in Turn, Holds(u)' PROVE FALSE
      OBVIOUS
    <3>1. u \notin orphan /\ pump[u] \in {"streaming", "failing", "exhausted", "closing"}
      BY <2>5, <1>5 DEF Holds, HandleTurnDone, pumpVars
    <3>2. Holds(u)
      BY <3>1 DEF Holds
    <3>3. u = h
      BY <3>2, <2>6, <2>2, <1>h DEF Held
    <3> QED
      BY <3>1, <3>3, <2>3
  <2> QED
    BY <1>5, <2>7, <1>t DEF HandleTurnDone, Held
<1>6. ASSUME NEW t \in Turn, PumpStep(t) PROVE Held'
  <2>0. UNCHANGED <<turn_active, current_cancel, orphan>>
    BY <1>6, <1>t, PumpMoves DEF connVars
  <2>1. CASE EmitEvent(t)
    <3>1. \E k \in Kind \ {"turn_done"} : Send(t, k)
      BY <2>1 DEF EmitEvent, Kind
    <3>2. \A u \in Turn : Queued(u, "turn_done")' <=> Queued(u, "turn_done")
      BY <3>1, <1>t, <1>h, GrowsBefore
    <3> QED
      BY <2>0, <2>1, <3>2, <1>s DEF EmitEvent, Holds
  <2>2. CASE EmitTerminal(t)
    <3>1. \E k \in Kind \ {"turn_done"} : Send(t, k)
      BY <2>2 DEF EmitTerminal, Kind, Terminal
    <3>2. \A u \in Turn : Queued(u, "turn_done")' <=> Queued(u, "turn_done")
      BY <3>1, <1>t, <1>h, GrowsBefore
    <3> QED
      BY <2>0, <2>2, <3>2, <1>s, <1>t DEF EmitTerminal, Holds
  <2>3. CASE StreamEnds(t)
    BY <2>0, <2>3, <1>s, <1>t, <1>h, Same DEF StreamEnds, Holds
  <2>4. CASE Synthesize(t)
    <3>1. \A u \in Turn : Queued(u, "turn_done")' <=> Queued(u, "turn_done")
      <4>1. CASE queue' = queue
        BY <4>1, <1>h, Same
      <4>2. CASE Send(t, "done_fail")
        BY <4>2, <1>h, <1>t, GrowsBefore DEF Kind, Terminal
      <4> QED
        BY <2>4, <4>1, <4>2 DEF Synthesize
    <3> QED
      BY <2>0, <2>4, <3>1, <1>s, <1>t DEF Synthesize, Holds
  <2>5. CASE SendTurnDone(t)
    <3>1. Send(t, "turn_done") /\ pump[t] = "closing" /\ pump' = [pump EXCEPT ![t] = "released"]
      BY <2>5 DEF SendTurnDone
    <3>2. \A u \in Turn : Queued(u, "turn_done")' <=> Queued(u, "turn_done") \/ u = t
      BY <3>1, <1>h, <1>t, GrowsBefore
    <3> QED
      BY <2>0, <3>1, <3>2, <1>s, <1>t DEF Holds, Send
  <2>6. CASE SendTurnEnd(t)
    <3>1. Send(t, "turn_end") /\ pump[t] = "released" /\ pump' = [pump EXCEPT ![t] = "gone"]
      BY <2>6 DEF SendTurnEnd
    <3>2. \A u \in Turn : Queued(u, "turn_done")' <=> Queued(u, "turn_done")
      BY <3>1, <1>h, <1>t, GrowsBefore DEF Kind
    <3> QED
      BY <2>0, <3>1, <3>2, <1>s, <1>t DEF Holds
  <2>7. CASE OrphanStops(t)
    BY <2>0, <2>7, <1>s, <1>t, <1>h, Same DEF OrphanStops, Holds
  <2> QED
    BY <1>6, <2>1, <2>2, <2>3, <2>4, <2>5, <2>6, <2>7 DEF PumpStep
<1>7. CASE UNCHANGED vars
  BY <1>7, <1>s, <1>h, Same DEF vars, connVars, pumpVars, Holds
<1> QED
  BY <1>1, <1>2, <1>3, <1>4, <1>5, <1>6, <1>7 DEF Next, Loop

\* The channel keeps holding only events of turns of the open connection, and one
\* TurnDone at most.
LEMMA ChannelInductive == IInv /\ [Next]_vars => Channel'
<1> SUFFICES ASSUME IInv, [Next]_vars PROVE Channel'
  OBVIOUS
<1>t. TypeOK /\ pump \in [Turn -> Pump] /\ \A i \in Pos : queue[i].turn \in Turn
  BY Types DEF IInv
<1>c. Channel
  BY DEF IInv
<1>1. ASSUME NEW t \in Turn, Start(t) PROVE Channel'
  <2>1. queue' = queue /\ orphan' = orphan /\ Pos' = Pos
    BY <1>1, Same DEF Start
  <2>2. \A i \in Pos : pump'[queue[i].turn] = pump[queue[i].turn]
    BY <1>1, <1>t, <1>c DEF Start, Channel
  <2> QED
    BY <2>1, <2>2, <1>c DEF Channel
<1>2. CASE Interrupt \/ Reconnect \/ UNCHANGED vars
  <2>1. UNCHANGED <<queue, pump, orphan>> /\ Pos' = Pos
    BY <1>2, Same DEF Interrupt, Reconnect, pumpVars, vars
  <2> QED
    BY <2>1, <1>c DEF Channel
<1>3. CASE Disconnect
  <2>1. Pos' = {}
    BY <1>3 DEF Disconnect, Pos
  <2> QED
    BY <2>1 DEF Channel
<1>4. CASE Loop
  <2>1. queue # << >> /\ queue' = Tail(queue) /\ UNCHANGED <<pump, orphan>>
    BY <1>4 DEF Loop, HandleAgent, HandleTurnDone, HandleTurnEnd, Head_is, pumpVars
  <2>2. \A i \in Pos' : i \in Nat /\ i + 1 \in Pos /\ queue'[i] = queue[i + 1]
    BY <2>1, <1>t, Shrinks DEF Pos
  <2>3. \A i, j \in Pos' : queue'[i].kind = "turn_done" /\ queue'[j].kind = "turn_done" => i = j
    <3> SUFFICES ASSUME NEW i \in Pos', NEW j \in Pos',
                        queue'[i].kind = "turn_done", queue'[j].kind = "turn_done"
                 PROVE  i = j
      OBVIOUS
    <3>1. i + 1 = j + 1
      BY <2>2, <1>c DEF Channel
    <3> QED
      BY <2>2, <3>1
  <2> QED
    BY <2>1, <2>2, <2>3, <1>c DEF Channel
<1>5. ASSUME NEW t \in Turn, PumpStep(t) PROVE Channel'
  <2>0. orphan' = orphan
    BY <1>5, <1>t, PumpMoves
  <2>1. ASSUME queue' = queue, NEW x \in Pump \ {"idle"}, pump' = [pump EXCEPT ![t] = x],
               t \in orphan \/ pump[t] \notin {"released", "gone"}
        PROVE  Channel'
    <3>1. Pos' = Pos
      BY <2>1, Same
    <3>2. \A i \in Pos : queue[i].turn = t => queue[i].kind \notin {"turn_done", "turn_end"}
      BY <2>1, <1>c DEF Channel
    <3>3. \A i \in Pos : pump'[queue[i].turn] = IF queue[i].turn = t THEN x ELSE pump[queue[i].turn]
      BY <2>1, <1>t
    <3> QED
      BY <2>0, <2>1, <3>1, <3>2, <3>3, <1>c DEF Channel
  <2>2. ASSUME NEW k \in Kind \ {"turn_done", "turn_end"}, Send(t, k), pump[t] \notin {"released", "gone"},
               NEW x \in Pump \ {"idle"}, pump' = [pump EXCEPT ![t] = x]
        PROVE  Channel'
    <3>1. /\ Pos' = Pos \cup {Len(queue) + 1}
          /\ \A i \in Pos : queue'[i] = queue[i]
          /\ queue'[Len(queue) + 1] = [turn |-> t, kind |-> k]
      BY <2>2, <1>t, Grows, GrowsBefore
    <3>2. \A i \in Pos : queue[i].turn = t => queue[i].kind \notin {"turn_done", "turn_end"}
      BY <2>2, <1>c DEF Channel
    <3>3. \A i \in Pos : pump'[queue[i].turn] = IF queue[i].turn = t THEN x ELSE pump[queue[i].turn]
      BY <2>2, <1>t
    <3>4. t \notin orphan /\ pump'[t] = x
      BY <2>2, <1>t DEF Send
    <3> QED
      BY <2>0, <2>2, <3>1, <3>2, <3>3, <3>4, <1>c DEF Channel
  <2>3. CASE EmitEvent(t)
    <3>1. \E k \in Kind \ {"turn_done", "turn_end"} : Send(t, k)
      BY <2>3 DEF EmitEvent, Kind
    <3>2. pump[t] = "streaming" /\ pump' = [pump EXCEPT ![t] = "streaming"]
      BY <2>3, <1>t DEF EmitEvent
    <3> QED
      BY <2>2, <3>1, <3>2 DEF Pump
  <2>4. CASE EmitTerminal(t)
    BY <2>2, <2>4 DEF EmitTerminal, Kind, Terminal, Pump
  <2>5. CASE StreamEnds(t)
    BY <2>1, <2>5 DEF StreamEnds, Pump
  <2>6. CASE Synthesize(t)
    <3>1. pump[t] = "exhausted" /\ pump' = [pump EXCEPT ![t] = "closing"]
      BY <2>6 DEF Synthesize
    <3>2. queue' = queue \/ Send(t, "done_fail")
      BY <2>6 DEF Synthesize
    <3> QED
      BY <2>1, <2>2, <3>1, <3>2 DEF Kind, Terminal, Pump
  <2>7. CASE SendTurnDone(t)
    <3>1. Send(t, "turn_done") /\ pump[t] = "closing" /\ pump' = [pump EXCEPT ![t] = "released"]
      BY <2>7 DEF SendTurnDone
    <3>2. /\ Pos' = Pos \cup {Len(queue) + 1}
          /\ \A i \in Pos : queue'[i] = queue[i]
          /\ queue'[Len(queue) + 1] = [turn |-> t, kind |-> "turn_done"]
      BY <3>1, <1>t, Grows, GrowsBefore DEF Kind
    <3>3. \A i \in Pos : queue[i].turn = t => queue[i].kind \notin {"turn_done", "turn_end"}
      BY <3>1, <1>c DEF Channel
    <3>4. \A i \in Pos : queue[i].kind # "turn_done"
      <4> SUFFICES ASSUME NEW i \in Pos, queue[i].kind = "turn_done" PROVE FALSE
        OBVIOUS
      <4>1. queue[i].turn \in Turn /\ queue[i].turn \notin orphan /\ i \in DOMAIN queue
        BY <1>t, <1>c, Types DEF Channel, Pos
      <4>2. queue[i] = [turn |-> queue[i].turn, kind |-> "turn_done"]
        BY <1>t, Types DEF Event
      <4>3. Holds(queue[i].turn)
        BY <4>1, <4>2 DEF Holds, Queued
      <4>4. Holds(t)
        BY <3>1 DEF Holds, Send
      <4>5. queue[i].turn = t
        BY <4>1, <4>3, <4>4 DEF IInv, Held
      <4> QED
        BY <4>5, <3>3
    <3>5. \A i \in Pos : pump'[queue[i].turn] = IF queue[i].turn = t THEN "released" ELSE pump[queue[i].turn]
      BY <3>1, <1>t
    <3>6. t \notin orphan /\ pump'[t] = "released"
      BY <3>1, <1>t DEF Send
    <3> QED
      BY <2>0, <3>2, <3>3, <3>4, <3>5, <3>6, <1>c DEF Channel
  <2>8. CASE SendTurnEnd(t)
    <3>1. Send(t, "turn_end") /\ pump[t] = "released" /\ pump' = [pump EXCEPT ![t] = "gone"]
      BY <2>8 DEF SendTurnEnd
    <3>2. /\ Pos' = Pos \cup {Len(queue) + 1}
          /\ \A i \in Pos : queue'[i] = queue[i]
          /\ queue'[Len(queue) + 1] = [turn |-> t, kind |-> "turn_end"]
      BY <3>1, <1>t, Grows, GrowsBefore DEF Kind
    <3>3. \A i \in Pos : pump'[queue[i].turn] = IF queue[i].turn = t THEN "gone" ELSE pump[queue[i].turn]
      BY <3>1, <1>t
    <3>4. t \notin orphan /\ pump'[t] = "gone"
      BY <3>1, <1>t DEF Send
    <3> QED
      BY <2>0, <3>2, <3>3, <3>4, <1>c DEF Channel
  <2>9. CASE OrphanStops(t)
    BY <2>1, <2>9 DEF OrphanStops, Pump
  <2> QED
    BY <1>5, <2>3, <2>4, <2>5, <2>6, <2>7, <2>8, <2>9 DEF PumpStep
<1> QED
  BY <1>1, <1>2, <1>3, <1>4, <1>5 DEF Next

\* A turn that is over has sent what it has to send, in the order of the pump.
LEMMA ClosingInductive == IInv /\ [Next]_vars => Closing'
<1> SUFFICES ASSUME IInv, [Next]_vars PROVE Closing'
  OBVIOUS
<1>t. TypeOK /\ pump \in [Turn -> Pump] /\ orphan \in SUBSET Turn
  BY Types DEF IInv
<1>c. Closing
  BY DEF IInv
<1>1. ASSUME NEW t \in Turn, Start(t) PROVE Closing'
  BY <1>1, <1>t, <1>c DEF Start, Closing
<1>2. CASE Interrupt \/ Reconnect \/ UNCHANGED vars
  BY <1>2, <1>c DEF Interrupt, Reconnect, vars, connVars, pumpVars, Closing
<1>3. CASE Disconnect
  BY <1>3 DEF Disconnect, Closing
<1>4. CASE Loop
  BY <1>4, <1>c DEF Loop, HandleAgent, HandleTurnDone, HandleTurnEnd, Head_is, connVars, pumpVars, Closing
<1>5. ASSUME NEW t \in Turn, PumpStep(t) PROVE Closing'
  <2>1. UNCHANGED <<conn, orphan>>
    BY <1>5, <1>t, PumpMoves DEF connVars
  <2>2. /\ \A u \in Turn : (pump'[u] = "idle") <=> (pump[u] = "idle")
    BY <1>5, <1>t, <1>c DEF PumpStep, EmitEvent, EmitTerminal, StreamEnds, Synthesize, SendTurnDone,
       SendTurnEnd, OrphanStops, Closing
  <2>3. conn = "closed" => queue' = << >>
    <3>1. ASSUME conn = "closed", NEW k \in Kind, Send(t, k) PROVE FALSE
      <4>1. pump[t] # "idle"
        BY <1>5, <3>1 DEF PumpStep, EmitEvent, EmitTerminal, StreamEnds, Synthesize, SendTurnDone,
           SendTurnEnd, OrphanStops, Send
      <4> QED
        BY <3>1, <4>1, <1>c DEF Closing, Send
    <3> QED
      BY <1>5, <1>t, <1>c, <3>1, PumpMoves DEF Closing
  <2> QED
    BY <2>1, <2>2, <2>3, <1>c, <1>t DEF Closing
<1> QED
  BY <1>1, <1>2, <1>3, <1>4, <1>5 DEF Next

\* A turn that outlives its connection stays cancelled.
LEMMA StrayInductive == IInv /\ [Next]_vars => StrayTurnCancelled'
<1> SUFFICES ASSUME IInv, [Next]_vars PROVE StrayTurnCancelled'
  OBVIOUS
<1>t. TypeOK /\ pump \in [Turn -> Pump] /\ NoTurn \notin Turn /\ current_cancel \in Turn \cup {NoTurn}
  BY Types, WsTurnsAssumption DEF IInv
<1>c. StrayTurnCancelled
  BY DEF IInv
<1>1. ASSUME NEW t \in Turn, Start(t) PROVE StrayTurnCancelled'
  BY <1>1, <1>t, <1>c DEF Start, StrayTurnCancelled, IInv, Held
<1>2. CASE Interrupt \/ Reconnect \/ UNCHANGED vars
  BY <1>2, <1>c DEF Interrupt, Reconnect, vars, connVars, pumpVars, StrayTurnCancelled
<1>3. CASE Disconnect
  BY <1>3, <1>t, <1>c DEF Disconnect, StrayTurnCancelled
<1>4. CASE HandleAgent \/ HandleTurnEnd
  BY <1>4, <1>c DEF HandleAgent, HandleTurnEnd, connVars, pumpVars, StrayTurnCancelled
<1>5. CASE HandleTurnDone
  <2>1. queue # << >> /\ Head(queue).kind = "turn_done" /\ queue' = Tail(queue)
    BY <1>5 DEF HandleTurnDone, Head_is
  <2>2. 1 \in Pos /\ queue[1].kind = "turn_done" /\ queue[1].turn \in Turn /\ queue[1] \in Event
    BY <2>1, <1>t, Shrinks, Types
  <2>3. pump[queue[1].turn] \in {"released", "gone"} /\ queue[1].turn \notin orphan
    BY <2>2 DEF IInv, Channel
  <2>4. Holds(queue[1].turn)
    <3>1. queue[1] = [turn |-> queue[1].turn, kind |-> "turn_done"]
      BY <2>2 DEF Event
    <3>2. 1 \in DOMAIN queue
      BY <2>2, <1>t, Types DEF Pos
    <3> QED
      BY <2>3, <3>1, <3>2 DEF Holds, Queued
  <2>5. current_cancel = queue[1].turn
    BY <2>2, <2>4 DEF IInv, Held
  <2> QED
    BY <1>5, <2>3, <2>5, <1>c DEF HandleTurnDone, pumpVars, StrayTurnCancelled
<1>6. ASSUME NEW t \in Turn, PumpStep(t) PROVE StrayTurnCancelled'
  <2>1. UNCHANGED <<current_cancel, cancelled>>
    BY <1>6, <1>t, PumpMoves DEF connVars
  <2>2. \A u \in Turn : pump'[u] = "streaming" => pump[u] = "streaming"
    BY <1>6, <1>t DEF PumpStep, EmitEvent, EmitTerminal, StreamEnds, Synthesize, SendTurnDone,
       SendTurnEnd, OrphanStops
  <2> QED
    BY <2>1, <2>2, <1>c DEF StrayTurnCancelled
<1> QED
  BY <1>1, <1>2, <1>3, <1>4, <1>5, <1>6 DEF Next, Loop

\* The main loop takes events and messages: a terminal frame stays before the release.
LEMMA FramedLoop == IInv /\ Loop => Framed'
<1> SUFFICES ASSUME IInv, Loop PROVE Framed'
  OBVIOUS
<1>t. TypeOK /\ frames \in [Turn -> Nat] /\ ended \in SUBSET Turn /\ "turn_done" \in Kind
  BY Types DEF IInv, TypeOK, Kind
<1>f. Framed
  BY DEF IInv
<1>q. queue # << >> /\ queue' = Tail(queue) /\ UNCHANGED <<pump, orphan, terminal_seen>>
  BY DEF Loop, HandleAgent, HandleTurnDone, HandleTurnEnd, Head_is, pumpVars
<1>h. Head(queue) = queue[1] /\ queue[1] \in Event /\ queue[1].turn \in Turn /\ 1 \in Pos
  BY <1>t, <1>q, Shrinks, Types
<1>p. \A i \in Pos' : i \in Nat \ {0} /\ i + 1 \in Pos /\ queue'[i] = queue[i + 1]
  BY <1>t, <1>q, Shrinks DEF Pos
<1>i. \A i \in Pos : queue[i].turn \in Turn /\ i \in Nat \ {0}
  BY <1>t, Types DEF Pos
\* A head that ends a turn has its terminal frame behind it.
<1>e. queue[1].kind \in {"turn_done", "turn_end"} => frames[queue[1].turn] >= 1
  <2>1. ~TerminalBefore(queue[1].turn, 1)
    BY <1>i DEF TerminalBefore
  <2> QED
    BY <1>f, <1>h, <2>1 DEF Framed
\* A terminal event leaves the channel as a frame.
<1>g. \A u \in Turn : /\ frames'[u] \in Nat
                      /\ frames[u] >= 1 => frames'[u] >= 1
                      /\ queue[1].turn = u /\ queue[1].kind \in Terminal => frames'[u] >= 1
  <2>1. CASE HandleAgent
    BY <2>1, <1>t, <1>h DEF HandleAgent
  <2>2. CASE HandleTurnDone \/ HandleTurnEnd
    BY <2>2, <1>t, <1>h DEF HandleTurnDone, HandleTurnEnd, Head_is, clientVars, Terminal
  <2> QED
    BY <2>1, <2>2 DEF Loop
<1>1. \A u \in Turn \ orphan' : terminal_seen'[u] \/ pump'[u] \in {"closing", "released", "gone"} =>
        frames'[u] >= 1 \/ Terminated(u)'
  BY <1>t, <1>f, <1>q, <1>g, ShrinksBefore DEF Framed
<1>2. \A i \in Pos' : queue'[i].kind \in {"turn_done", "turn_end"} =>
        frames'[queue'[i].turn] >= 1 \/ TerminalBefore(queue[i].turn, i)'
  <2> SUFFICES ASSUME NEW i \in Pos', queue'[i].kind \in {"turn_done", "turn_end"},
                      ~(frames'[queue'[i].turn] >= 1)
               PROVE  TerminalBefore(queue[i].turn, i)'
    OBVIOUS
  <2> DEFINE u == queue[i + 1].turn
  <2>1. i + 1 \in Pos /\ i \in Nat /\ queue'[i] = queue[i + 1] /\ u \in Turn
    BY <1>p, <1>i
  <2>2. TerminalBefore(u, i + 1)
    BY <2>1, <1>f, <1>g DEF Framed
  <2>3. PICK j \in Pos : j < i + 1 /\ queue[j].turn = u /\ queue[j].kind \in Terminal
    BY <2>2 DEF TerminalBefore
  <2>4. j # 1
    BY <2>1, <2>3, <1>g
  <2>5. j - 1 \in Pos' /\ queue'[j - 1] = queue[j] /\ j - 1 < i
    <3>1. j \in Nat /\ j - 1 \in Pos'
      BY <2>4, <1>i, <1>t, <1>q, Shrinks
    <3> QED
      BY <3>1, <2>1, <2>3, <1>p
  <2> QED
    BY <2>1, <2>3, <2>5 DEF TerminalBefore
<1>3. \A u \in Turn \ orphan' : pump'[u] \in {"released", "gone"} =>
        frames'[u] >= 1 \/ Queued(u, "turn_done")'
  <2>1. \A u \in Turn : Queued(u, "turn_done") => Queued(u, "turn_done")' \/ frames'[u] >= 1
    <3>1. \A u \in Turn : queue[1] = [turn |-> u, kind |-> "turn_done"] => frames'[u] >= 1
      BY <1>e, <1>g
    <3> QED
      BY <1>t, <1>q, <3>1, ShrinksBefore
  <2> QED
    BY <1>f, <1>q, <1>g, <2>1 DEF Framed
<1>4. \A u \in ended' : frames'[u] >= 1
  <2>1. ended' = ended \/ (ended' = ended \cup {queue[1].turn} /\ queue[1].kind = "turn_end")
    BY <1>h DEF Loop, HandleAgent, HandleTurnDone, HandleTurnEnd, Head_is, clientVars
  <2> QED
    BY <1>e, <1>f, <1>g, <1>h, <1>t, <2>1 DEF Framed
<1> QED
  BY <1>1, <1>2, <1>3, <1>4 DEF Framed

\* A pump sends its terminal frame before its TurnDone and its TurnEnd.
LEMMA FramedPump ==
  ASSUME IInv, NEW t \in Turn, PumpStep(t)
  PROVE  Framed'
<1>t. TypeOK /\ pump \in [Turn -> Pump] /\ terminal_seen \in [Turn -> BOOLEAN] /\ "turn_done" \in Kind
  BY DEF IInv, TypeOK, Kind
<1>f. Framed
  BY DEF IInv
<1>0. UNCHANGED <<orphan, frames, ended>>
  BY <1>t, PumpMoves DEF clientVars
<1>i. \A i \in Pos : queue[i].turn \in Turn /\ i \in Nat \ {0}
  BY <1>t, Types DEF Pos
\* The channel only grows, and every event of a turn's end that is new comes after the frame.
<1>1. /\ \A u \in Turn : Terminated(u) => Terminated(u)'
      /\ \A u \in Turn : Queued(u, "turn_done") => Queued(u, "turn_done")'
  BY <1>t, PumpMoves, Same, GrowsBefore
<1>2. t \notin orphan => (terminal_seen'[t] \/ pump'[t] \in {"closing", "released", "gone"} =>
        frames[t] >= 1 \/ Terminated(t)')
  <2>1. CASE EmitEvent(t)
    BY <2>1, <1>1, <1>f, <1>t DEF EmitEvent, Framed
  <2>2. CASE EmitTerminal(t)
    <3>1. \E k \in Terminal : Send(t, k)
      BY <2>2 DEF EmitTerminal
    <3> QED
      BY <3>1, <1>t, GrowsBefore DEF Kind
  <2>3. CASE StreamEnds(t)
    BY <2>3, <1>1, <1>f, <1>t DEF StreamEnds, Framed
  <2>4. CASE Synthesize(t)
    <3>1. CASE terminal_seen[t]
      BY <3>1, <1>1, <1>f DEF Framed
    <3>2. CASE Send(t, "done_fail")
      BY <3>2, <1>t, GrowsBefore DEF Kind, Terminal
    <3> QED
      BY <2>4, <3>1, <3>2 DEF Synthesize
  <2>5. CASE SendTurnDone(t) \/ SendTurnEnd(t)
    BY <2>5, <1>1, <1>f DEF SendTurnDone, SendTurnEnd, Framed
  <2>6. CASE OrphanStops(t)
    BY <2>6 DEF OrphanStops
  <2> QED
    BY <2>1, <2>2, <2>3, <2>4, <2>5, <2>6 DEF PumpStep
<1>3. \A u \in Turn \ {t} : pump'[u] = pump[u] /\ terminal_seen'[u] = terminal_seen[u]
  BY <1>t DEF PumpStep, EmitEvent, EmitTerminal, StreamEnds, Synthesize, SendTurnDone,
     SendTurnEnd, OrphanStops
<1>4. t \notin orphan => (pump'[t] \in {"released", "gone"} => frames[t] >= 1 \/ Queued(t, "turn_done")')
  <2>1. CASE SendTurnDone(t)
    <3>1. Send(t, "turn_done")
      BY <2>1 DEF SendTurnDone
    <3> QED
      BY <3>1, <1>t, GrowsBefore
  <2>2. CASE SendTurnEnd(t)
    BY <2>2, <1>1, <1>f DEF SendTurnEnd, Framed
  <2>3. CASE ~SendTurnDone(t) /\ ~SendTurnEnd(t) /\ t \notin orphan
    BY <2>3, <1>t DEF PumpStep, EmitEvent, EmitTerminal, StreamEnds, Synthesize, OrphanStops
  <2> QED
    BY <2>1, <2>2, <2>3
<1>5. \A i \in Pos' : queue'[i].kind \in {"turn_done", "turn_end"} =>
        frames[queue'[i].turn] >= 1 \/ TerminalBefore(queue[i].turn, i)'
  <2>1. CASE queue' = queue
    BY <2>1, <1>i, <1>f, Same DEF Framed, TerminalBefore
  <2>2. ASSUME NEW k \in Kind, Send(t, k)
        PROVE  \A i \in Pos' : queue'[i].kind \in {"turn_done", "turn_end"} =>
                 frames[queue'[i].turn] >= 1 \/ TerminalBefore(queue[i].turn, i)'
    <3>1. /\ Pos' = Pos \cup {Len(queue) + 1} /\ \A i \in Pos : queue'[i] = queue[i]
          /\ queue'[Len(queue) + 1] = [turn |-> t, kind |-> k]
      BY <2>2, <1>t, Grows, GrowsBefore
    <3> SUFFICES ASSUME NEW i \in Pos', queue'[i].kind \in {"turn_done", "turn_end"},
                        ~(frames[queue'[i].turn] >= 1)
                 PROVE  TerminalBefore(queue[i].turn, i)'
      OBVIOUS
    <3>2. CASE i \in Pos
      <4>1. PICK j \in Pos : j < i /\ queue[j].turn = queue[i].turn /\ queue[j].kind \in Terminal
        BY <3>1, <3>2, <1>f DEF Framed, TerminalBefore
      <4> QED
        BY <3>1, <3>2, <4>1 DEF TerminalBefore
    <3>3. CASE i = Len(queue) + 1
      <4>1. k \in {"turn_done", "turn_end"} /\ queue'[i].turn = t
        <5>1. queue'[i] = [turn |-> t, kind |-> k]
          BY <3>1, <3>3
        <5> QED
          BY <5>1
      <4>2. t \notin orphan
        BY <2>2 DEF Send
      <4>3. pump[t] \in {"closing", "released"}
        <5>1. \A m \in Kind \ {k} : ~Send(t, m)
          <6> SUFFICES ASSUME NEW m \in Kind, Send(t, m), m # k PROVE FALSE
            OBVIOUS
          <6>1. queue'[Len(queue) + 1] = [turn |-> t, kind |-> m]
            BY <1>t, Grows
          <6>2. [turn |-> t, kind |-> m].kind = [turn |-> t, kind |-> k].kind
            BY <6>1, <3>1
          <6> QED
            BY <6>2
        <5>2. queue' # queue
          <6>1. Len(queue) \in Nat /\ Len(queue') = Len(queue) + 1
            BY <2>2, <1>t, Grows, Types
          <6> QED
            BY <6>1
        <5>3. ~EmitEvent(t)
          BY <4>1, <5>1 DEF EmitEvent, Kind
        <5>4. ~EmitTerminal(t)
          BY <4>1, <5>1 DEF EmitTerminal, Kind, Terminal
        <5>5. ~Synthesize(t)
          BY <4>1, <5>1, <5>2 DEF Synthesize, Kind, Terminal
        <5>6. ~StreamEnds(t) /\ ~OrphanStops(t)
          BY <5>2 DEF StreamEnds, OrphanStops
        <5> QED
          BY <5>3, <5>4, <5>5, <5>6 DEF PumpStep, SendTurnDone, SendTurnEnd
      <4>4. Terminated(t)
        <5>1. CASE pump[t] = "closing"
          BY <5>1, <4>1, <4>2, <1>f DEF Framed
        <5>2. CASE pump[t] = "released"
          BY <5>2, <4>1, <4>2, <1>f DEF Framed
        <5> QED
          BY <4>3, <5>1, <5>2
      <4>5. PICK j \in Pos : queue[j].turn = t /\ queue[j].kind \in Terminal
        BY <4>4 DEF Terminated
      <4>6. j < i
        BY <3>3, <1>t, Types DEF Pos
      <4> QED
        BY <3>1, <4>1, <4>5, <4>6 DEF TerminalBefore
    <3> QED
      BY <3>1, <3>2, <3>3
  <2> QED
    BY <2>1, <2>2, <1>t, PumpMoves
<1>6. \A u \in Turn \ orphan : terminal_seen'[u] \/ pump'[u] \in {"closing", "released", "gone"} =>
        frames[u] >= 1 \/ Terminated(u)'
  BY <1>1, <1>2, <1>3, <1>f DEF Framed
<1>7. \A u \in Turn \ orphan : pump'[u] \in {"released", "gone"} =>
        frames[u] >= 1 \/ Queued(u, "turn_done")'
  BY <1>1, <1>3, <1>4, <1>f DEF Framed
<1> QED
  BY <1>0, <1>5, <1>6, <1>7, <1>f DEF Framed

\* Every step keeps a terminal frame before the release.
LEMMA FramedInductive == IInv /\ [Next]_vars => Framed'
<1> SUFFICES ASSUME IInv, [Next]_vars PROVE Framed'
  OBVIOUS
<1>t. TypeOK /\ pump \in [Turn -> Pump] /\ "turn_done" \in Kind
  BY DEF IInv, TypeOK, Kind
<1>i. \A i \in Pos : queue[i].turn \in Turn /\ i \in Nat \ {0}
  BY <1>t, Types DEF Pos
<1>f. Framed
  BY DEF IInv
<1>s. ASSUME UNCHANGED <<queue, frames, ended, orphan, terminal_seen>>,
             \A u \in Turn \ orphan : pump'[u] = pump[u] \/ pump'[u] = "streaming"
      PROVE  Framed'
  <2>1. \A i \in Pos' : queue'[i].kind \in {"turn_done", "turn_end"} =>
          frames[queue'[i].turn] >= 1 \/ TerminalBefore(queue[i].turn, i)'
    BY <1>s, <1>i, <1>f, Same DEF Framed, TerminalBefore
  <2>2. \A u \in Turn : (Terminated(u)' <=> Terminated(u)) /\ (Queued(u, "turn_done")' <=> Queued(u, "turn_done"))
    BY <1>s, <1>t, Same
  <2> QED
    BY <1>s, <2>1, <2>2, <1>f DEF Framed
<1>1. ASSUME NEW t \in Turn, Start(t) PROVE Framed'
  BY <1>1, <1>s, <1>t DEF Start, clientVars
<1>2. CASE Interrupt \/ Reconnect \/ UNCHANGED vars
  BY <1>2, <1>s DEF Interrupt, Reconnect, vars, connVars, pumpVars, clientVars
<1>3. CASE Disconnect
  <2>1. Pos' = {} /\ UNCHANGED <<frames, ended, pump, terminal_seen>>
    BY <1>3 DEF Disconnect, Pos, clientVars
  <2>2. \A u \in Turn \ orphan' : pump[u] = "idle" /\ u \notin orphan
    BY <1>3 DEF Disconnect, IInv, Closing
  <2>3. \A u \in Turn \ orphan' : ~Terminated(u)
    BY <2>2 DEF Terminated, IInv, Channel
  <2>4. \A u \in Turn \ orphan' : terminal_seen'[u] => frames'[u] >= 1
    BY <2>1, <2>2, <2>3, <1>f DEF Framed
  <2> QED
    BY <2>1, <2>2, <2>4, <1>f DEF Framed
<1>4. CASE Loop
  BY <1>4, FramedLoop
<1>5. ASSUME NEW t \in Turn, PumpStep(t) PROVE Framed'
  BY <1>5, FramedPump
<1> QED
  BY <1>1, <1>2, <1>3, <1>4, <1>5 DEF Next

\* The main loop keeps the announcement of a turn before its successful result.
LEMMA AnnouncedLoop == IInv /\ Loop => Announced'
<1> SUFFICES ASSUME IInv, Loop PROVE Announced'
  OBVIOUS
<1>t. TypeOK
  BY DEF IInv
<1>a. Announced
  BY DEF IInv
<1>q. queue # << >> /\ queue' = Tail(queue) /\ UNCHANGED <<pump, orphan, left>>
  BY DEF Loop, HandleAgent, HandleTurnDone, HandleTurnEnd, Head_is, pumpVars
<1>h. Head(queue) = queue[1] /\ 1 \in Pos
  BY <1>t, <1>q, Shrinks
<1>p. \A i \in Pos' : i \in Nat /\ i + 1 \in Pos /\ queue'[i] = queue[i + 1]
  BY <1>t, <1>q, Shrinks DEF Pos
<1>i. \A i \in Pos : i \in Nat \ {0}
  BY <1>t, Types DEF Pos
\* A successful result at the head has the announcement behind it.
<1>e. queue[1].kind = "done_ok" => exists
  <2>1. ~CreatedBefore(1)
    BY <1>i DEF CreatedBefore
  <2> QED
    BY <1>a, <1>h, <2>1 DEF Announced
<1>g. /\ exists => exists'
      /\ queue[1].kind = "created" => exists' /\ session' = "created"
      /\ session' = "none" => session = "none"
  <2>1. CASE HandleAgent
    BY <2>1, <1>h DEF HandleAgent
  <2>2. CASE HandleTurnDone
    BY <2>2, <1>h DEF HandleTurnDone, Head_is
  <2>3. CASE HandleTurnEnd
    BY <2>3, <1>h DEF HandleTurnEnd, Head_is, connVars
  <2> QED
    BY <2>1, <2>2, <2>3 DEF Loop
<1>1. session_established' \/ turn_succeeded' \/ recorded' # {} => exists'
  <2>1. CASE HandleAgent
    BY <2>1, <1>a, <1>e, <1>g, <1>h DEF HandleAgent, Announced
  <2>2. CASE HandleTurnDone
    BY <2>2, <1>a DEF HandleTurnDone, Announced, clientVars
  <2>3. CASE HandleTurnEnd
    BY <2>3, <1>a DEF HandleTurnEnd, Refresh, Announced, connVars
  <2> QED
    BY <2>1, <2>2, <2>3 DEF Loop
<1>2. session' = "none" => \A u \in Turn \ orphan' : left'[u] < MaxEvents => Created'
  BY <1>a, <1>g, <1>q, <1>t, ShrinksBefore DEF Announced
<1>3. \A i \in Pos' : queue'[i].kind = "done_ok" => exists' \/ CreatedBefore(i)'
  <2> SUFFICES ASSUME NEW i \in Pos', queue'[i].kind = "done_ok", ~exists'
               PROVE  CreatedBefore(i)'
    OBVIOUS
  <2>1. CreatedBefore(i + 1)
    BY <1>a, <1>g, <1>p DEF Announced
  <2>2. PICK j \in Pos : j < i + 1 /\ queue[j].kind = "created"
    BY <2>1 DEF CreatedBefore
  <2>3. j # 1
    BY <2>2, <1>g
  <2>4. j \in Nat /\ j - 1 \in Pos'
    BY <2>3, <1>i, <1>t, <1>q, Shrinks
  <2>5. queue'[j - 1] = queue[j] /\ j - 1 < i
    BY <2>2, <2>4, <1>p
  <2> QED
    BY <2>2, <2>4, <2>5 DEF CreatedBefore
<1> QED
  BY <1>1, <1>2, <1>3, <1>a, <1>q DEF Announced

\* A pump announces its turn before the successful result.
LEMMA AnnouncedPump ==
  ASSUME IInv, NEW t \in Turn, PumpStep(t)
  PROVE  Announced'
<1>t. TypeOK /\ pump \in [Turn -> Pump] /\ left \in [Turn -> 0 .. MaxEvents] /\ MaxEvents \in Nat
  BY WsTurnsAssumption DEF IInv, TypeOK
<1>a. Announced
  BY DEF IInv
<1>0. UNCHANGED <<session, exists, session_established, turn_succeeded, recorded, orphan>>
  BY <1>t, PumpMoves DEF connVars, clientVars
<1>i. \A i \in Pos : i \in Nat /\ i < Len(queue) + 1
  BY <1>t, Types DEF Pos
<1>1. \A u \in Turn : pump'[u] = "idle" => left'[u] = MaxEvents
  <2>1. \A u \in Turn : pump'[u] = "idle" => pump[u] = "idle" /\ left'[u] = left[u]
    BY <1>t DEF PumpStep, EmitEvent, EmitTerminal, StreamEnds, Synthesize, SendTurnDone,
       SendTurnEnd, OrphanStops, IInv, Closing
  <2> QED
    BY <2>1, <1>a DEF Announced
\* A session without a name: the turn that goes on has announced it.
<1>2. t \notin orphan /\ session = "none" /\ left[t] # MaxEvents => Created
  BY <1>a, <1>t DEF Announced
<1>3. session = "none" => \A u \in Turn \ orphan : left'[u] < MaxEvents => Created'
  <2>1. Created => Created'
    BY <1>t, PumpMoves, Same, GrowsBefore
  <2>2. CASE EmitEvent(t)
    <3>1. \A u \in Turn \ {t} : left'[u] = left[u]
      BY <2>2, <1>t DEF EmitEvent
    <3>2. session = "none" => Created'
      <4>1. CASE Opening(t)
        <5>1. Send(t, "created") /\ "created" \in Kind
          BY <2>2, <4>1 DEF EmitEvent, Kind
        <5> QED
          BY <5>1, <1>t, GrowsBefore
      <4>2. CASE ~Opening(t)
        BY <2>2, <4>2, <2>1, <1>2 DEF EmitEvent, Opening, Send
      <4> QED
        BY <4>1, <4>2
    <3> QED
      BY <3>2
  <2>3. CASE ~EmitEvent(t)
    <3>1. left' = left
      BY <2>3 DEF PumpStep, EmitTerminal, StreamEnds, Synthesize, SendTurnDone, SendTurnEnd, OrphanStops
    <3> QED
      BY <3>1, <2>1, <1>a DEF Announced
  <2> QED
    BY <2>2, <2>3
<1>4. \A i \in Pos' : queue'[i].kind = "done_ok" => exists \/ CreatedBefore(i)'
  <2>1. CASE queue' = queue
    BY <2>1, <1>a, Same DEF Announced, CreatedBefore
  <2>2. ASSUME NEW k \in Kind, Send(t, k)
        PROVE  \A i \in Pos' : queue'[i].kind = "done_ok" => exists \/ CreatedBefore(i)'
    <3>1. /\ Pos' = Pos \cup {Len(queue) + 1} /\ \A i \in Pos : queue'[i] = queue[i]
          /\ queue'[Len(queue) + 1] = [turn |-> t, kind |-> k]
      BY <2>2, <1>t, Grows, GrowsBefore
    <3> SUFFICES ASSUME NEW i \in Pos', queue'[i].kind = "done_ok", ~exists
                 PROVE  CreatedBefore(i)'
      OBVIOUS
    <3>2. CASE i \in Pos
      BY <3>1, <3>2, <1>a DEF Announced, CreatedBefore
    <3>3. CASE i = Len(queue) + 1
      <4>1. k = "done_ok" /\ t \notin orphan
        <5>1. queue'[i] = [turn |-> t, kind |-> k]
          BY <3>1, <3>3
        <5> QED
          BY <5>1, <2>2 DEF Send
      <4>2. Created
        <5>1. \A m \in Kind : Send(t, m) => m = "done_ok"
          <6> SUFFICES ASSUME NEW m \in Kind, Send(t, m) PROVE m = "done_ok"
            OBVIOUS
          <6>1. queue'[Len(queue) + 1] = [turn |-> t, kind |-> m]
            BY <1>t, Grows
          <6>2. [turn |-> t, kind |-> m].kind = [turn |-> t, kind |-> k].kind
            BY <6>1, <3>1
          <6> QED
            BY <6>2, <4>1
        <5>2. queue' # queue
          <6>1. Len(queue) \in Nat /\ Len(queue') = Len(queue) + 1
            BY <2>2, <1>t, Grows, Types
          <6> QED
            BY <6>1
        <5>3. ~EmitEvent(t)
          BY <5>1 DEF EmitEvent, Kind
        <5>4. ~Synthesize(t)
          BY <5>1, <5>2 DEF Synthesize, Kind, Terminal
        <5>5. ~StreamEnds(t) /\ ~OrphanStops(t)
          BY <5>2 DEF StreamEnds, OrphanStops
        <5>6. ~SendTurnDone(t) /\ ~SendTurnEnd(t)
          BY <5>1 DEF SendTurnDone, SendTurnEnd, Kind
        <5>7. EmitTerminal(t)
          BY <5>3, <5>4, <5>5, <5>6 DEF PumpStep
        <5>8. session = "none" /\ ~Opening(t)
          BY <5>1, <5>7 DEF EmitTerminal, Kind
        <5> QED
          BY <5>8, <4>1, <1>2 DEF Opening
      <4> QED
        BY <3>1, <3>3, <4>2, <1>i DEF Created, CreatedBefore
    <3> QED
      BY <3>1, <3>2, <3>3
  <2> QED
    BY <2>1, <2>2, <1>t, PumpMoves
<1> QED
  BY <1>0, <1>1, <1>3, <1>4, <1>a DEF Announced

\* Every step keeps the announcement before the result.
LEMMA AnnouncedInductive == IInv /\ [Next]_vars => Announced'
<1> SUFFICES ASSUME IInv, [Next]_vars PROVE Announced'
  OBVIOUS
<1>t. TypeOK /\ pump \in [Turn -> Pump] /\ left \in [Turn -> 0 .. MaxEvents] /\ MaxEvents \in Nat
  BY WsTurnsAssumption DEF IInv, TypeOK
<1>a. Announced
  BY DEF IInv
<1>s. ASSUME UNCHANGED <<queue, exists, orphan, left, recorded>>,
             session' = "none" => session = "none",
             session_established' => session_established, turn_succeeded' => turn_succeeded,
             \A u \in Turn : pump'[u] = "idle" => pump[u] = "idle"
      PROVE  Announced'
  <2>1. \A i \in Pos' : queue'[i].kind = "done_ok" => exists \/ CreatedBefore(i)'
    BY <1>s, <1>a, Same DEF Announced, CreatedBefore
  <2>2. Created' <=> Created
    BY <1>s, Same
  <2> QED
    BY <1>s, <2>1, <2>2, <1>a DEF Announced
<1>1. ASSUME NEW t \in Turn, Start(t) PROVE Announced'
  BY <1>1, <1>s, <1>t DEF Start, clientVars
<1>2. CASE Interrupt \/ Reconnect \/ UNCHANGED vars
  BY <1>2, <1>s DEF Interrupt, Reconnect, vars, connVars, pumpVars, clientVars
<1>3. CASE Disconnect
  <2>1. /\ Pos' = {}
        /\ UNCHANGED <<session, exists, session_established, turn_succeeded, recorded, pump, left>>
    BY <1>3 DEF Disconnect, Pos, clientVars
  <2>2. \A u \in Turn \ orphan' : left[u] = MaxEvents
    BY <1>3, <1>a DEF Disconnect, Announced
  <2> QED
    BY <2>1, <2>2, <1>a, <1>t DEF Announced
<1>4. CASE Loop
  BY <1>4, AnnouncedLoop
<1>5. ASSUME NEW t \in Turn, PumpStep(t) PROVE Announced'
  BY <1>5, AnnouncedPump
<1> QED
  BY <1>1, <1>2, <1>3, <1>4, <1>5 DEF Next

-----------------------------------------------------------------------------
(* The theorems *)

\* A fresh connection satisfies the inductive invariant.
LEMMA InvInit == Init => IInv
<1> SUFFICES ASSUME Init PROVE IInv
  OBVIOUS
<1>1. TypeOK
  <2>1. << >> \in Seq(Event) /\ Len(<< >>) <= Capacity
    BY WsTurnsAssumption
  <2>2. {exists, turn_active, session_established, turn_succeeded} \subseteq BOOLEAN
    BY DEF Init
  <2> QED
    BY <2>1, <2>2, WsTurnsAssumption DEF Init, TypeOK, Pump
<1>2. Pos = {} /\ \A u \in Turn : ~Queued(u, "turn_done")
  BY DEF Init, Pos, Queued
<1>3. Held
  BY <1>2, WsTurnsAssumption DEF Init, Held, Holds
<1>4. Channel /\ Closing /\ StrayTurnCancelled
  BY <1>2 DEF Init, Channel, Closing, StrayTurnCancelled
<1>5. Framed
  BY <1>2 DEF Init, Framed
<1>6. Announced
  BY <1>2, WsTurnsAssumption DEF Init, Announced
<1> QED
  BY <1>1, <1>3, <1>4, <1>5, <1>6 DEF IInv

\* IInv is an invariant: the connection, its channel and its turns fit together after every step of
\* the loop, of a pump and of the client.
THEOREM Inductive == Safety => []IInv
<1>1. IInv /\ [Next]_vars => IInv'
  BY TypeInductive, HeldInductive, ChannelInductive, ClosingInductive, StrayInductive,
     FramedInductive, AnnouncedInductive DEF IInv
<1> QED
  BY <1>1, InvInit, PTL DEF Safety

\* The state of a connection, for any number of turns, events and slots of the channel: types, one
\* holder, strays cancelled, a terminal frame before the release, and no ghost entries.
THEOREM ConnectionSound == Safety => []WsInv
<1>1. IInv => WsInv
  <2> SUFFICES ASSUME IInv PROVE WsInv
    OBVIOUS
  <2>1. ActiveIsTheHolder
    <3>1. \A t \in Turn : t # NoTurn
      BY WsTurnsAssumption
    <3>2. current_cancel \in Turn \cup {NoTurn}
      BY Types DEF IInv
    <3> QED
      BY <3>1, <3>2 DEF IInv, Held, ActiveIsTheHolder
  <2>2. ReleasedAfterTerminal
    BY DEF IInv, Framed, ReleasedAfterTerminal, Holds
  <2>3. NoGhostEntry
    BY DEF IInv, Announced, NoGhostEntry
  <2> QED
    BY <2>1, <2>2, <2>3 DEF IInv, WsInv
<1> QED
  BY <1>1, Inductive, PTL
=============================================================================
