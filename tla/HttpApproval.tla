---------------------------- MODULE HttpApproval ----------------------------
(***************************************************************************)
(* The human approval window of the serve surface.  A candidate tool call  *)
(* pauses the turn that made it: HttpApproval::request_approval stores a   *)
(* oneshot sender in the pending map, keyed by SESSION, and waits for      *)
(* POST /agents/{t}/approve (approve_agent) or for its own timer.  The     *)
(* handler takes the entry out under one lock, may put it back under a     *)
(* second one, and answers the client after an await on the token check.   *)
(*                                                                         *)
(* Several turns of one session can wait at once: a WebSocket that drops   *)
(* during the window leaves its turn waiting, and the client reconnects    *)
(* and starts another.  Overlap = FALSE restricts a session to one.        *)
(***************************************************************************)
EXTENDS Naturals

CONSTANTS
  Session,     \* sessions of the serve process
  Proposal,    \* proposal ids (new_proposal_id); each is used for one call
  Request,     \* HTTP requests in flight against /approve
  SessionOf,   \* the session that raises each proposal
  Dangerous,   \* proposals the auto-decision guard table hits
  Overlap,     \* may two turns of one session wait at the same time
  NoProposal,  \* the absent entry
  NoBody       \* no request

\* The request body: the proposal whose card the client answers, whether the
\* body carries its proposal_id, the decision, and an auto decision_scope.
Body == [meant : Proposal, named : BOOLEAN, yes : BOOLEAN, auto : BOOLEAN]

ASSUME HttpApprovalAssumption ==
  /\ SessionOf \in [Proposal -> Session]
  /\ Dangerous \subseteq Proposal
  /\ Overlap \in BOOLEAN
  /\ NoProposal \notin Proposal
  /\ NoBody \notin Body

VARIABLES
  stage,    \* [Proposal -> Stage]: where request_approval of this proposal is
  chan,     \* [Proposal -> Channel]: its oneshot channel, seen from the sender
  pending,  \* [Session -> Proposal or NoProposal]: the shared pending map
  pc,       \* [Request -> Reply or "taken"]: the approve_agent handler
  held,     \* [Request -> Proposal]: the entry the handler took out of the map
  req,      \* [Request -> Body]: the body of the request being handled
  by        \* [Proposal -> Body]: the request whose decision was delivered

vars == <<stage, chan, pending, pc, held, req, by>>

Active   == {"announced", "waiting", "expired"}
Outcome  == {"approved", "rejected", "timeout", "channel_closed"}
Finished == {"executed", "failed"}
Stage    == {"unused", "abandoned"} \cup Active \cup Outcome \cup Finished
Channel  == {"none", "open", "sent_yes", "sent_no", "dropped"}
Reply    == {"none", "delivered", "mismatch", "guard_hit", "no_pending_item"}

TypeOK ==
  /\ stage \in [Proposal -> Stage]
  /\ chan \in [Proposal -> Channel]
  /\ pending \in [Session -> Proposal \cup {NoProposal}]
  /\ pc \in [Request -> Reply \cup {"taken"}]
  /\ held \in [Request -> Proposal \cup {NoProposal}]
  /\ req \in [Request -> Body \cup {NoBody}]
  /\ by \in [Proposal -> Body \cup {NoBody}]
  /\ \A r \in Request : pc[r] = "taken" => held[r] \in Proposal /\ req[r] \in Body

Init ==
  /\ stage = [p \in Proposal |-> "unused"]
  /\ chan = [p \in Proposal |-> "none"]
  /\ pending = [s \in Session |-> NoProposal]
  /\ pc = [r \in Request |-> "none"]
  /\ held = [r \in Request |-> NoProposal]
  /\ req = [r \in Request |-> NoBody]
  /\ by = [p \in Proposal |-> NoBody]

-----------------------------------------------------------------------------
(* The waiting turn: execute_tool_stage, resolve_approval, request_approval *)

\* Removing or replacing a map entry drops its sender, which closes the
\* channel of the proposal it belonged to.
DropSender(c, q) == IF q = NoProposal THEN c ELSE [c EXCEPT ![q] = "dropped"]

\* The turn yields the ApprovalRequired frame; nothing is registered yet.
Announce(p) ==
  /\ stage[p] = "unused"
  /\ \/ Overlap
     \/ \A q \in Proposal : SessionOf[q] = SessionOf[p] => stage[q] \notin Active
  /\ stage' = [stage EXCEPT ![p] = "announced"]
  /\ UNCHANGED <<chan, pending, pc, held, req, by>>

\* request_approval inserts the sender under the session's key, replacing
\* whatever entry the session had.
Register(p) ==
  /\ stage[p] = "announced"
  /\ stage' = [stage EXCEPT ![p] = "waiting"]
  /\ chan' = [DropSender(chan, pending[SessionOf[p]]) EXCEPT ![p] = "open"]
  /\ pending' = [pending EXCEPT ![SessionOf[p]] = p]
  /\ UNCHANGED <<pc, held, req, by>>

\* The decision arrives in the channel.
Receive(p) ==
  /\ stage[p] = "waiting"
  /\ \/ chan[p] = "sent_yes" /\ stage' = [stage EXCEPT ![p] = "approved"]
     \/ chan[p] = "sent_no" /\ stage' = [stage EXCEPT ![p] = "rejected"]
  /\ UNCHANGED <<chan, pending, pc, held, req, by>>

\* The sender was dropped without a decision: auto-reject.
ChannelClosed(p) ==
  /\ stage[p] = "waiting"
  /\ chan[p] = "dropped"
  /\ stage' = [stage EXCEPT ![p] = "channel_closed"]
  /\ UNCHANGED <<chan, pending, pc, held, req, by>>

\* The timer fires while the channel is still silent; the receiver is gone
\* from here on, the map entry is not.
Expire(p) ==
  /\ stage[p] = "waiting"
  /\ chan[p] = "open"
  /\ stage' = [stage EXCEPT ![p] = "expired"]
  /\ UNCHANGED <<chan, pending, pc, held, req, by>>

\* Mutant: the timeout arm waits until it finds its own entry in the map.
CleanUpWhenPresent(p) ==
  /\ stage[p] = "expired"
  /\ pending[SessionOf[p]] = p
  /\ stage' = [stage EXCEPT ![p] = "timeout"]
  /\ chan' = DropSender(chan, p)
  /\ pending' = [pending EXCEPT ![SessionOf[p]] = NoProposal]
  /\ UNCHANGED <<pc, held, req, by>>

\* The timeout arm locks the map and removes the SESSION's entry.
CleanUp(p) ==
  /\ stage[p] = "expired"
  /\ stage' = [stage EXCEPT ![p] = "timeout"]
  /\ chan' = DropSender(chan, pending[SessionOf[p]])
  /\ pending' = [pending EXCEPT ![SessionOf[p]] = NoProposal]
  /\ UNCHANGED <<pc, held, req, by>>

\* The stream is dropped while the turn waits (an SSE client went away): the
\* receiver goes with it, the map entry stays.
Abandon(p) ==
  /\ stage[p] \in {"announced", "waiting"}
  /\ stage' = [stage EXCEPT ![p] = "abandoned"]
  /\ UNCHANGED <<chan, pending, pc, held, req, by>>

\* resolve_approval runs the tool again with approved:true, once; a failure
\* is fed back as a tool result.
Reexecute(p) ==
  /\ stage[p] = "approved"
  /\ \E result \in Finished : stage' = [stage EXCEPT ![p] = result]
  /\ UNCHANGED <<chan, pending, pc, held, req, by>>

-----------------------------------------------------------------------------
(* The approve_agent handler *)

\* Mutant: the handler reads the entry and leaves it in the map.
TakeByGet(r, b) ==
  /\ pc[r] # "taken"
  /\ stage[b.meant] # "unused"
  /\ pending[SessionOf[b.meant]] # NoProposal
  /\ pc' = [pc EXCEPT ![r] = "taken"]
  /\ held' = [held EXCEPT ![r] = pending[SessionOf[b.meant]]]
  /\ req' = [req EXCEPT ![r] = b]
  /\ UNCHANGED <<stage, chan, pending, by>>

\* The client answers a card it has seen; the handler removes the entry of
\* the session, or replies 409 when there is none.
Take(r, b) ==
  /\ pc[r] # "taken"
  /\ stage[b.meant] # "unused"
  /\ LET s == SessionOf[b.meant] IN
       \/ /\ pending[s] = NoProposal
          /\ pc' = [pc EXCEPT ![r] = "no_pending_item"]
          /\ UNCHANGED <<pending, held, req>>
       \/ /\ pending[s] # NoProposal
          /\ pending' = [pending EXCEPT ![s] = NoProposal]
          /\ pc' = [pc EXCEPT ![r] = "taken"]
          /\ held' = [held EXCEPT ![r] = pending[s]]
          /\ req' = [req EXCEPT ![r] = b]
  /\ UNCHANGED <<stage, chan, by>>

\* The handler returns: its reply goes out, its locals are gone.
Return(r, reply) ==
  /\ pc' = [pc EXCEPT ![r] = reply]
  /\ held' = [held EXCEPT ![r] = NoProposal]
  /\ req' = [req EXCEPT ![r] = NoBody]

\* Mutant: the id is compared with the session's proposals, not with the entry.
MismatchBySession(r) == req[r].named /\ SessionOf[req[r].meant] # SessionOf[held[r]]

\* The proposal_id check, only made when the body carries one.
Mismatch(r) == req[r].named /\ req[r].meant # held[r]

\* Mutant: the guard looks at the card the client meant, not at the entry.
GuardHitOnMeant(r) == req[r].auto /\ req[r].yes /\ req[r].meant \in Dangerous

\* The guard on automatic approvals, after the id check.
GuardHit(r) == req[r].auto /\ req[r].yes /\ held[r] \in Dangerous

\* Refused: the entry goes back into the map under a second lock, replacing
\* whatever the session registered in between.
PutBack(r) ==
  /\ pc[r] = "taken"
  /\ Mismatch(r) \/ GuardHit(r)
  /\ LET s == SessionOf[req[r].meant] IN
       /\ chan' = DropSender(chan, pending[s])
       /\ pending' = [pending EXCEPT ![s] = held[r]]
  /\ Return(r, IF Mismatch(r) THEN "mismatch" ELSE "guard_hit")
  /\ UNCHANGED <<stage, by>>

\* Mutant: the decision also reaches a turn whose timer has fired.
DeliverLate(r) ==
  /\ pc[r] = "taken"
  /\ ~Mismatch(r)
  /\ ~GuardHit(r)
  /\ LET p == held[r] IN
       \/ /\ stage[p] \in {"waiting", "expired"}
          /\ chan' = [chan EXCEPT ![p] = IF req[r].yes THEN "sent_yes" ELSE "sent_no"]
          /\ by' = [by EXCEPT ![p] = req[r]]
       \/ /\ stage[p] \notin {"waiting", "expired"}
          /\ chan' = [chan EXCEPT ![p] = "dropped"]
          /\ UNCHANGED by
  /\ Return(r, "delivered")
  /\ UNCHANGED <<stage, pending>>

\* Accepted: after the token check the decision is sent.  When the receiver
\* is gone the send fails, and the reply is 200 all the same.
Deliver(r) ==
  /\ pc[r] = "taken"
  /\ ~Mismatch(r)
  /\ ~GuardHit(r)
  /\ LET p == held[r] IN
       \/ /\ stage[p] = "waiting"
          /\ chan' = [chan EXCEPT ![p] = IF req[r].yes THEN "sent_yes" ELSE "sent_no"]
          /\ by' = [by EXCEPT ![p] = req[r]]
       \/ /\ stage[p] # "waiting"
          /\ chan' = [chan EXCEPT ![p] = "dropped"]
          /\ UNCHANGED by
  /\ Return(r, "delivered")
  /\ UNCHANGED <<stage, pending>>

\* The client hangs up while the handler awaits the check of its approver
\* token: the handler future is dropped, and the sender with it.
HangUp(r) ==
  /\ pc[r] = "taken"
  /\ ~Mismatch(r)
  /\ ~GuardHit(r)
  /\ chan' = [chan EXCEPT ![held[r]] = "dropped"]
  /\ Return(r, "none")
  /\ UNCHANGED <<stage, pending, by>>

-----------------------------------------------------------------------------

Turn(p) == \/ Announce(p) \/ Register(p) \/ Receive(p) \/ ChannelClosed(p)
           \/ Expire(p) \/ CleanUp(p) \/ Abandon(p) \/ Reexecute(p)

Handler(r) == \/ \E b \in Body : Take(r, b)
              \/ PutBack(r) \/ Deliver(r) \/ HangUp(r)

Next == (\E p \in Proposal : Turn(p)) \/ (\E r \in Request : Handler(r))

\* Safety part of the specification, and the fairness of the runtime: a turn
\* that can move is polled, its timer fires, a handler that holds an entry is
\* polled.  Clients and dropped connections are not fair.
Safety == Init /\ [][Next]_vars

Spec ==
  /\ Safety
  /\ \A p \in Proposal :
       WF_vars(Register(p) \/ Receive(p) \/ ChannelClosed(p) \/ Expire(p)
               \/ CleanUp(p) \/ Reexecute(p))
  /\ \A r \in Request : WF_vars(PutBack(r) \/ Deliver(r))
-----------------------------------------------------------------------------
(* Properties *)

Sent == {"sent_yes", "sent_no"}
Closed == {"rejected", "timeout", "channel_closed", "abandoned"} \cup Finished

\* Every sender that can still decide a proposal is in exactly one place, the
\* map or one handler, under the session that raised it; and whatever is in
\* the map or in a handler can still decide.  (Take, PutBack, Register and
\* CleanUp move senders between the two under separate locks.)
SenderHeldOnce ==
  /\ \A s \in Session : pending[s] # NoProposal =>
       chan[pending[s]] = "open" /\ SessionOf[pending[s]] = s
  /\ \A r \in Request : pc[r] = "taken" =>
       /\ chan[held[r]] = "open"
       /\ SessionOf[held[r]] = SessionOf[req[r].meant]
       /\ pending[SessionOf[held[r]]] # held[r]
       /\ \A q \in Request : pc[q] = "taken" /\ held[q] = held[r] => q = r
  /\ \A p \in Proposal : chan[p] = "open" =>
       \/ pending[SessionOf[p]] = p
       \/ \E r \in Request : pc[r] = "taken" /\ held[r] = p

\* A request that carries a proposal_id decides that proposal and no other,
\* however late it arrives (the check of approve_agent).
NamedDecisionMatches ==
  \A p \in Proposal : by[p] # NoBody /\ by[p].named => by[p].meant = p

\* A tool runs again only on a delivered approval, and for a dangerous
\* proposal only on one a person clicked (the guard of approve_agent).
ExecutedOnlyIfApproved ==
  \A p \in Proposal : stage[p] \in {"approved"} \cup Finished =>
    /\ by[p] # NoBody
    /\ by[p].yes
    /\ p \in Dangerous => ~by[p].auto

\* A sender is in one place, the decision a proposal gets through it is its own, and what runs was
\* decided so: the three above.
DecidedRight == SenderHeldOnce /\ NamedDecisionMatches /\ ExecutedOnlyIfApproved

\* A decision, once sent, is the decision: no later request, timeout or
\* reconnected turn replaces it, and a turn that closed stays closed.
DecisionFinal ==
  [][\A p \in Proposal :
       /\ chan[p] \in Sent => chan'[p] = chan[p] /\ by'[p] = by[p]
       /\ stage[p] \in Closed => stage'[p] = stage[p]]_vars

\* Every window closes: an announced proposal is decided, times out, or its
\* turn goes away, and an approved one is executed.
WindowCloses ==
  \A p \in Proposal : stage[p] = "announced" ~> stage[p] \in Closed

-----------------------------------------------------------------------------
(* The window implements the gate the runner relies on *)

\* The state of the gate of a proposal.
GateOf(p) ==
  CASE stage[p] = "unused" -> "idle"
    [] stage[p] \in Active -> "asked"
    [] stage[p] = "approved" -> "granted"
    [] stage[p] \in {"rejected", "timeout", "channel_closed"} -> "refused"
    [] stage[p] = "abandoned" -> "left"
    [] stage[p] \in Finished -> "done"

\* The decision is what the channel of the proposal holds.
DecisionOf(p) == IF chan[p] = "sent_yes" THEN "yes" ELSE IF chan[p] = "sent_no" THEN "no" ELSE "none"

Abstract == INSTANCE HumanGate WITH
  gate <- [p \in Proposal |-> GateOf(p)],
  decision <- [p \in Proposal |-> DecisionOf(p)]

\* With its map keyed by session, two locks, timers, handlers that put back what they took, clients
\* that hang up and turns that overlap, the window still is a gate: one decision at most, only while
\* the turn waits for it, and a turn refuses only what nobody had approved.
ImplementsGate == Abstract!GateSpec

-----------------------------------------------------------------------------
(* What comments of the code say, and the code does not keep *)

\* approve_agent: "200 = the decision was delivered".
DeliveredIsReceived ==
  [][\A r \in Request :
       pc[r] = "taken" /\ pc'[r] = "delivered" => chan'[held[r]] \in Sent]_vars

\* approve_agent: "409 = the session has nothing waiting for approval".
NoPendingItemIsTrue ==
  [][\A r \in Request, b \in Body :
       Take(r, b) /\ pc'[r] = "no_pending_item" =>
         ~ \E p \in Proposal : SessionOf[p] = SessionOf[b.meant] /\ stage[p] = "waiting"]_vars

\* request_approval: the sender being dropped "should not happen".
SenderNeverDropped == \A p \in Proposal : stage[p] # "channel_closed"

\* PendingApproval: a late approval of an old proposal never hits a new one.
NoCrossTalk == \A p \in Proposal : by[p] # NoBody => by[p].meant = p
=============================================================================
