------------------------- MODULE HttpApprovalProofs -------------------------
(***************************************************************************)
(* Proofs about the approval window, for any number of sessions, proposals *)
(* and concurrent /approve requests, overlapping turns included.           *)
(***************************************************************************)
EXTENDS HttpApproval, TLAPS

\* What links the stage of a turn, its channel and the recorded decision.
Linked ==
  \A p \in Proposal :
    /\ stage[p] \in {"unused", "announced"} => chan[p] = "none"
    /\ chan[p] \in Sent =>
         /\ by[p] \in Body
         /\ chan[p] = "sent_yes" => by[p].yes
         /\ p \in Dangerous => ~(by[p].auto /\ by[p].yes)
    /\ stage[p] \in {"approved"} \cup Finished => chan[p] = "sent_yes"
    /\ stage[p] = "expired" => chan[p] \notin Sent

IInv == TypeOK /\ SenderHeldOnce /\ Linked /\ NamedDecisionMatches

\* The fields of a request body have their types.
LEMMA BodyFields ==
  ASSUME NEW b \in Body
  PROVE  /\ b.meant \in Proposal
         /\ b.named \in BOOLEAN /\ b.yes \in BOOLEAN /\ b.auto \in BOOLEAN
  BY DEF Body

\* Every step of the window keeps the variables in their types.
LEMMA TypeInductive == TypeOK /\ [Next]_vars => TypeOK'
<1> SUFFICES ASSUME TypeOK, [Next]_vars PROVE TypeOK'
  OBVIOUS
<1> USE HttpApprovalAssumption, BodyFields
    DEF TypeOK, Stage, Active, Outcome, Finished, Channel, Reply
<1>1. ASSUME NEW p \in Proposal, Turn(p) PROVE TypeOK'
  BY <1>1 DEF Turn, Announce, Register, Receive, ChannelClosed, Expire, CleanUp,
              Abandon, Reexecute, DropSender
<1>2. ASSUME NEW r \in Request, NEW b \in Body, Take(r, b) PROVE TypeOK'
  BY <1>2 DEF Take
<1>3. ASSUME NEW r \in Request, PutBack(r) PROVE TypeOK'
  BY <1>3 DEF PutBack, Return, DropSender
<1>4. ASSUME NEW r \in Request, Deliver(r) PROVE TypeOK'
  BY <1>4 DEF Deliver, Return
<1>5. ASSUME NEW r \in Request, HangUp(r) PROVE TypeOK'
  BY <1>5 DEF HangUp, Return
<1>6. CASE UNCHANGED vars
  BY <1>6 DEF vars
<1> QED
  BY <1>1, <1>2, <1>3, <1>4, <1>5, <1>6 DEF Next, Handler

\* The senders stay in one place each: Take moves one out of the map, PutBack
\* moves one in, Register and CleanUp drop the one they displace.
LEMMA SenderInductive == IInv /\ [Next]_vars => SenderHeldOnce'
<1> SUFFICES ASSUME IInv, [Next]_vars PROVE SenderHeldOnce'
  OBVIOUS
<1> USE HttpApprovalAssumption, BodyFields DEF IInv, TypeOK, SenderHeldOnce, Linked
<1>1. ASSUME NEW p \in Proposal, Register(p) PROVE SenderHeldOnce'
  BY <1>1 DEF Register, DropSender
<1>2. ASSUME NEW p \in Proposal, CleanUp(p) PROVE SenderHeldOnce'
  BY <1>2 DEF CleanUp, DropSender
<1>3. ASSUME NEW p \in Proposal,
             Announce(p) \/ Receive(p) \/ ChannelClosed(p) \/ Expire(p)
               \/ Abandon(p) \/ Reexecute(p)
      PROVE  SenderHeldOnce'
  BY <1>3 DEF Announce, Receive, ChannelClosed, Expire, Abandon, Reexecute
<1>4. ASSUME NEW r \in Request, NEW b \in Body, Take(r, b) PROVE SenderHeldOnce'
  BY <1>4 DEF Take
<1>5. ASSUME NEW r \in Request, PutBack(r) PROVE SenderHeldOnce'
  BY <1>5 DEF PutBack, Return, DropSender
<1>6. ASSUME NEW r \in Request, Deliver(r) PROVE SenderHeldOnce'
  BY <1>6 DEF Deliver, Return
<1>7. ASSUME NEW r \in Request, HangUp(r) PROVE SenderHeldOnce'
  BY <1>7 DEF HangUp, Return
<1>8. CASE UNCHANGED vars
  BY <1>8 DEF vars
<1> QED
  BY <1>1, <1>2, <1>3, <1>4, <1>5, <1>6, <1>7, <1>8 DEF Next, Turn, Handler

\* Decisions follow the guards of approve_agent, and a turn only moves on what
\* its channel holds.
LEMMA LinkedInductive == IInv /\ [Next]_vars => Linked' /\ NamedDecisionMatches'
<1> SUFFICES ASSUME IInv, [Next]_vars PROVE Linked' /\ NamedDecisionMatches'
  OBVIOUS
<1> USE HttpApprovalAssumption, BodyFields
    DEF IInv, TypeOK, SenderHeldOnce, Linked, NamedDecisionMatches, Sent, Finished
<1>1. ASSUME NEW p \in Proposal, Turn(p) PROVE Linked' /\ NamedDecisionMatches'
  BY <1>1 DEF Turn, Announce, Register, Receive, ChannelClosed, Expire, CleanUp,
              Abandon, Reexecute, DropSender
<1>2. ASSUME NEW r \in Request, NEW b \in Body, Take(r, b)
      PROVE  Linked' /\ NamedDecisionMatches'
  BY <1>2 DEF Take
<1>3. ASSUME NEW r \in Request, PutBack(r) PROVE Linked' /\ NamedDecisionMatches'
  BY <1>3 DEF PutBack, Return, DropSender
<1>4. ASSUME NEW r \in Request, Deliver(r) PROVE Linked' /\ NamedDecisionMatches'
  BY <1>4 DEF Deliver, Return, Mismatch, GuardHit
<1>5. ASSUME NEW r \in Request, HangUp(r) PROVE Linked' /\ NamedDecisionMatches'
  BY <1>5 DEF HangUp, Return
<1>6. CASE UNCHANGED vars
  BY <1>6 DEF vars
<1> QED
  BY <1>1, <1>2, <1>3, <1>4, <1>5, <1>6 DEF Next, Handler

\* A server that has just started satisfies the invariant.
LEMMA InvInit == Init => IInv
  BY HttpApprovalAssumption
     DEF Init, IInv, TypeOK, SenderHeldOnce, Linked, NamedDecisionMatches,
         Stage, Active, Outcome, Finished, Channel, Reply, Sent

\* The inductive invariant holds in every state of the window.
THEOREM Inductive == Safety => []IInv
<1>1. Init => IInv
  BY InvInit
<1>2. IInv /\ [Next]_vars => IInv'
  BY TypeInductive, SenderInductive, LinkedInductive DEF IInv
<1> QED
  BY <1>1, <1>2, PTL DEF Safety

\* Type correctness of the approval window.
THEOREM TypeCorrect == Safety => []TypeOK
<1>1. IInv => TypeOK
  BY DEF IInv
<1> QED
  BY <1>1, Inductive, PTL

\* No sender is ever duplicated, lost from both places or left where it cannot
\* decide, whatever requests, timeouts and overlapping turns do.
THEOREM OneHolder == Safety => []SenderHeldOnce
<1>1. IInv => SenderHeldOnce
  BY DEF IInv
<1> QED
  BY <1>1, Inductive, PTL

\* A request that names its proposal decides that one only.
THEOREM NamedDecisions == Safety => []NamedDecisionMatches
<1>1. IInv => NamedDecisionMatches
  BY DEF IInv
<1> QED
  BY <1>1, Inductive, PTL

\* A tool is executed after its window only if a request approved it, and a
\* dangerous one only if that request was not automatic.
THEOREM Approved == Safety => []ExecutedOnlyIfApproved
<1>1. IInv => ExecutedOnlyIfApproved
  BY HttpApprovalAssumption, BodyFields
     DEF IInv, Linked, ExecutedOnlyIfApproved, Sent, Finished
<1> QED
  BY <1>1, Inductive, PTL

\* The three together: a sender is never lost or held twice, a decision is that of the proposal it
\* names, and only an approval lets a tool run.
THEOREM Decided == Safety => []DecidedRight
<1>1. SenderHeldOnce /\ NamedDecisionMatches /\ ExecutedOnlyIfApproved => DecidedRight
  BY DEF DecidedRight
<1> QED
  BY <1>1, OneHolder, NamedDecisions, Approved, PTL

\* A decision that was sent is never replaced, and a closed turn stays closed.
THEOREM Final == Safety => DecisionFinal
<1> DEFINE Keep == \A p \in Proposal :
       /\ chan[p] \in Sent => chan'[p] = chan[p] /\ by'[p] = by[p]
       /\ stage[p] \in Closed => stage'[p] = stage[p]
<1>1. IInv /\ [Next]_vars => [Keep]_vars
  <2> SUFFICES ASSUME IInv, Next PROVE Keep
    OBVIOUS
  <2> USE HttpApprovalAssumption, BodyFields
      DEF IInv, TypeOK, SenderHeldOnce, Linked, Sent, Closed, Finished
  <2>1. ASSUME NEW p \in Proposal, Turn(p) PROVE Keep
    BY <2>1 DEF Turn, Announce, Register, Receive, ChannelClosed, Expire, CleanUp,
                Abandon, Reexecute, DropSender
  <2>2. ASSUME NEW r \in Request, NEW b \in Body, Take(r, b) PROVE Keep
    BY <2>2 DEF Take
  <2>3. ASSUME NEW r \in Request, PutBack(r) PROVE Keep
    BY <2>3 DEF PutBack, Return, DropSender
  <2>4. ASSUME NEW r \in Request, Deliver(r) \/ HangUp(r) PROVE Keep
    BY <2>4 DEF Deliver, HangUp, Return
  <2> QED
    BY <2>1, <2>2, <2>3, <2>4 DEF Next, Handler
<1> QED
  BY <1>1, Inductive, PTL DEF Safety, DecisionFinal

\* The gate of a proposal follows its stage and nothing else; its decision follows its channel.
LEMMA GateFollows ==
  ASSUME TypeOK, TypeOK', NEW p \in Proposal
  PROVE  /\ stage'[p] = stage[p] => GateOf(p)' = GateOf(p)
         /\ chan'[p] = chan[p] => DecisionOf(p)' = DecisionOf(p)
         /\ chan[p] \notin Sent /\ chan'[p] \notin Sent => DecisionOf(p)' = DecisionOf(p)
  BY DEF GateOf, DecisionOf, Sent

\* A step that moves the stage of one proposal, and changes no channel that holds a decision or gets
\* one, moves the gate of that proposal alone.
LEMMA GateMoves ==
  ASSUME TypeOK, TypeOK', NEW p \in Proposal,
         \A q \in Proposal \ {p} : stage'[q] = stage[q],
         \A q \in Proposal : chan'[q] = chan[q] \/ (chan[q] \notin Sent /\ chan'[q] \notin Sent)
  PROVE  /\ [q \in Proposal |-> GateOf(q)]' = [[q \in Proposal |-> GateOf(q)] EXCEPT ![p] = GateOf(p)']
         /\ [q \in Proposal |-> DecisionOf(q)]' = [q \in Proposal |-> DecisionOf(q)]
<1>1. \A q \in Proposal \ {p} : GateOf(q)' = GateOf(q)
  BY GateFollows
<1>2. \A q \in Proposal : DecisionOf(q)' = DecisionOf(q)
  BY GateFollows
<1> QED
  BY <1>1, <1>2

\* A step that moves no stage and no decision leaves the gate alone.
LEMMA GateStays ==
  ASSUME TypeOK, TypeOK', stage' = stage,
         \A q \in Proposal : chan'[q] = chan[q] \/ (chan[q] \notin Sent /\ chan'[q] \notin Sent)
  PROVE  UNCHANGED Abstract!gateVars
<1>1. \A q \in Proposal : GateOf(q)' = GateOf(q) /\ DecisionOf(q)' = DecisionOf(q)
  BY GateFollows
<1> QED
  BY <1>1 DEF Abstract!gateVars

\* Every step of a turn is a step of its gate, or leaves it alone.
LEMMA TurnRefines ==
  ASSUME IInv, TypeOK', NEW p \in Proposal, Turn(p)
  PROVE  Abstract!GateNext \/ UNCHANGED Abstract!gateVars
<1> USE HttpApprovalAssumption DEF IInv, TypeOK
<1>0. \A q \in Proposal \ {p} : stage'[q] = stage[q]
  BY DEF Turn, Announce, Register, Receive, ChannelClosed, Expire, CleanUp, Abandon, Reexecute
<1>c. \A q \in Proposal : chan'[q] = chan[q] \/ (chan[q] \notin Sent /\ chan'[q] \notin Sent)
  BY DEF Turn, Announce, Register, Receive, ChannelClosed, Expire, CleanUp, Abandon, Reexecute,
         DropSender, SenderHeldOnce, Linked, Sent
<1>m. /\ [q \in Proposal |-> GateOf(q)]' = [[q \in Proposal |-> GateOf(q)] EXCEPT ![p] = GateOf(p)']
      /\ [q \in Proposal |-> DecisionOf(q)]' = [q \in Proposal |-> DecisionOf(q)]
  BY <1>0, <1>c, GateMoves
<1>1. CASE Announce(p)
  <2>1. GateOf(p) = "idle" /\ GateOf(p)' = "asked"
    BY <1>1 DEF Announce, GateOf, Active, Finished
  <2> QED
    BY <1>m, <2>1 DEF Abstract!GateNext, Abstract!Ask, Abstract!Moves
<1>2. CASE Register(p) \/ Expire(p)
  <2>1. GateOf(p) = "asked" /\ GateOf(p)' = "asked"
    BY <1>2 DEF Register, Expire, GateOf, Active, Finished
  <2>2. [[q \in Proposal |-> GateOf(q)] EXCEPT ![p] = "asked"] = [q \in Proposal |-> GateOf(q)]
    BY <2>1
  <2>3. [q \in Proposal |-> GateOf(q)]' = [q \in Proposal |-> GateOf(q)]
    BY <1>m, <2>1, <2>2
  <2> QED
    BY <1>m, <2>3 DEF Abstract!gateVars
<1>3. CASE Receive(p) /\ chan[p] = "sent_yes"
  <2>1. GateOf(p) = "asked" /\ GateOf(p)' = "granted" /\ DecisionOf(p) = "yes"
    BY <1>3 DEF Receive, GateOf, Active, Finished, DecisionOf
  <2> QED
    BY <1>m, <2>1 DEF Abstract!GateNext, Abstract!Grant, Abstract!Moves
<1>4. CASE (Receive(p) /\ chan[p] # "sent_yes") \/ ChannelClosed(p) \/ CleanUp(p)
  <2>1. GateOf(p) = "asked" /\ GateOf(p)' = "refused" /\ DecisionOf(p) # "yes"
    BY <1>4 DEF Receive, ChannelClosed, CleanUp, GateOf, Active, Finished, DecisionOf, Linked, Sent
  <2> QED
    BY <1>m, <2>1 DEF Abstract!GateNext, Abstract!Refuse, Abstract!Moves
<1>5. CASE Abandon(p)
  <2>1. GateOf(p) = "asked" /\ GateOf(p)' = "left"
    BY <1>5 DEF Abandon, GateOf, Active, Finished
  <2> QED
    BY <1>m, <2>1 DEF Abstract!GateNext, Abstract!Leave, Abstract!Moves
<1>6. CASE Reexecute(p)
  <2>1. GateOf(p) = "granted" /\ GateOf(p)' = "done"
    BY <1>6 DEF Reexecute, GateOf, Active, Finished
  <2> QED
    BY <1>m, <2>1 DEF Abstract!GateNext, Abstract!Do, Abstract!Moves
<1> QED
  BY <1>1, <1>2, <1>3, <1>4, <1>5, <1>6 DEF Turn

\* A handler that delivers decides the gate of the proposal it holds, or nothing.
LEMMA DeliverRefines ==
  ASSUME IInv, TypeOK', NEW r \in Request, Deliver(r)
  PROVE  Abstract!GateNext \/ UNCHANGED Abstract!gateVars
<1> USE HttpApprovalAssumption, BodyFields DEF IInv, TypeOK
<1>0. held[r] \in Proposal
  BY DEF Deliver
<1>q. PICK p \in Proposal : p = held[r]
  BY <1>0
<1>p. held[r] = p /\ chan[p] = "open" /\ stage' = stage
  BY <1>q DEF Deliver, SenderHeldOnce
<1>1. CASE stage[p] = "waiting"
  <2>1. \A q \in Proposal : GateOf(q)' = GateOf(q)
    BY <1>p, GateFollows
  <2>2. \A q \in Proposal \ {p} : DecisionOf(q)' = DecisionOf(q)
    <3>1. \A q \in Proposal \ {p} : chan'[q] = chan[q]
      BY <1>p DEF Deliver
    <3> QED
      BY <3>1, GateFollows
  <2>3. GateOf(p) = "asked" /\ DecisionOf(p) = "none" /\ DecisionOf(p)' \in {"yes", "no"}
    <3>1. GateOf(p) = "asked" /\ DecisionOf(p) = "none"
      BY <1>1, <1>p DEF GateOf, Active, Finished, DecisionOf
    <3>2. chan'[p] \in {"sent_yes", "sent_no"}
      BY <1>1, <1>p DEF Deliver
    <3> QED
      BY <3>1, <3>2 DEF DecisionOf
  <2>4. [q \in Proposal |-> DecisionOf(q)]' = [[q \in Proposal |-> DecisionOf(q)] EXCEPT ![p] = DecisionOf(p)']
    BY <1>p, <2>2
  <2>5. [q \in Proposal |-> GateOf(q)]' = [q \in Proposal |-> GateOf(q)]
    BY <2>1
  <2>6. Abstract!Decide(p)
    BY <1>p, <2>3, <2>4, <2>5 DEF Abstract!Decide
  <2> QED
    BY <1>p, <2>6 DEF Abstract!GateNext
<1>2. CASE stage[p] # "waiting"
  <2>1. \A q \in Proposal : chan'[q] = chan[q] \/ (chan[q] \notin Sent /\ chan'[q] \notin Sent)
    BY <1>p, <1>2 DEF Deliver, Sent
  <2> QED
    BY <1>p, <2>1, GateStays
<1> QED
  BY <1>1, <1>2

\* The approval window implements the gate: with any number of sessions, overlapping turns and
\* concurrent requests, every behaviour of the window is one of HumanGate.
THEOREM Refinement == Safety => ImplementsGate
<1>1. Init => Abstract!GateInit
  <2> SUFFICES ASSUME Init PROVE Abstract!GateInit
    OBVIOUS
  <2>1. \A p \in Proposal : GateOf(p) = "idle" /\ DecisionOf(p) = "none"
    BY DEF Init, GateOf, DecisionOf, Active, Finished
  <2> QED
    BY <2>1 DEF Abstract!GateInit
<1>2. IInv /\ IInv' /\ [Next]_vars => [Abstract!GateNext]_(Abstract!gateVars)
  <2> SUFFICES ASSUME IInv, IInv', [Next]_vars
               PROVE  Abstract!GateNext \/ UNCHANGED Abstract!gateVars
    OBVIOUS
  <2>t. TypeOK /\ TypeOK'
    BY DEF IInv
  <2>1. ASSUME NEW p \in Proposal, Turn(p)
        PROVE  Abstract!GateNext \/ UNCHANGED Abstract!gateVars
    BY <2>1, <2>t, TurnRefines
  <2>2. ASSUME NEW r \in Request, Deliver(r)
        PROVE  Abstract!GateNext \/ UNCHANGED Abstract!gateVars
    BY <2>2, <2>t, DeliverRefines
  <2>3. ASSUME NEW r \in Request, (\E b \in Body : Take(r, b)) \/ PutBack(r) \/ HangUp(r)
        PROVE  UNCHANGED Abstract!gateVars
    <3>1. stage' = stage
      BY <2>3 DEF Take, PutBack, HangUp
    <3>2. \A q \in Proposal : chan'[q] = chan[q] \/ (chan[q] \notin Sent /\ chan'[q] \notin Sent)
      BY <2>3, HttpApprovalAssumption, BodyFields
         DEF IInv, TypeOK, SenderHeldOnce, Take, PutBack, HangUp, DropSender, Sent
    <3> QED
      BY <3>1, <3>2, <2>t, GateStays
  <2>4. CASE UNCHANGED vars
    BY <2>4, <2>t, GateStays DEF vars
  <2> QED
    BY <2>1, <2>2, <2>3, <2>4 DEF Next, Handler
<1> QED
  BY <1>1, <1>2, Inductive, PTL DEF Safety, ImplementsGate, Abstract!GateSpec
=============================================================================
