------------------------------ MODULE HumanGate ------------------------------
(***************************************************************************)
(* What the runner relies on when it asks a person (ApprovalCallback): a   *)
(* question is put once; at most one decision comes, while the question is *)
(* open; the tool goes on only after a yes; the question closes as refused *)
(* only if no yes had come, whoever closes it; and all of this is final.   *)
(* How the decision travels, which locks and timers there are, is left to  *)
(* the implementation.                                                     *)
(***************************************************************************)
CONSTANT Proposal

VARIABLES
  gate,      \* [Proposal -> Gate]
  decision   \* [Proposal -> "none", "yes" or "no"]: what was decided while the gate was open

gateVars == <<gate, decision>>

Gate == {"idle", "asked", "granted", "refused", "left", "done"}

GateInit ==
  /\ gate = [p \in Proposal |-> "idle"]
  /\ decision = [p \in Proposal |-> "none"]

Moves(p, from, to) == gate[p] = from /\ gate' = [gate EXCEPT ![p] = to] /\ UNCHANGED decision

\* request_approval is called.
Ask(p) == Moves(p, "idle", "asked")

\* A person decides.
Decide(p) ==
  /\ gate[p] = "asked" /\ decision[p] = "none"
  /\ \E d \in {"yes", "no"} : decision' = [decision EXCEPT ![p] = d]
  /\ UNCHANGED gate

\* request_approval returns approved.
Grant(p) == decision[p] = "yes" /\ Moves(p, "asked", "granted")

\* request_approval returns rejected: a no, a time-out, a decision that can no longer come.
Refuse(p) == decision[p] # "yes" /\ Moves(p, "asked", "refused")

\* The turn that asked goes away.
Leave(p) == Moves(p, "asked", "left")

\* The tool runs, once.
Do(p) == Moves(p, "granted", "done")

GateNext == \E p \in Proposal : Ask(p) \/ Decide(p) \/ Grant(p) \/ Refuse(p) \/ Leave(p) \/ Do(p)

GateSpec == GateInit /\ [][GateNext]_gateVars
=============================================================================
