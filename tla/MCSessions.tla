----------------------------- MODULE MCSessions -----------------------------
(* The sessions of the server, for TLC: the requests that stream, cancel,   *)
(* question and change one (HttpSession: two turns, one of them an SSE      *)
(* stream, and one request at a time to each endpoint), and the two ways in *)
(* which a session gets sub-sessions (Delegation, SessionChain).  They      *)
(* share no state: focus picks the one that moves, so that their state      *)
(* spaces add up.                                                           *)
EXTENDS HttpSession, Delegation, SessionChain

VARIABLE focus

mcVars == <<focus, vars, delegationVars, chainVars>>

MCCallOf == [c \in Call |-> IF c = "c3" THEN "spawned" ELSE "root"]

Serving    == focus = "http" /\ UNCHANGED <<focus, delegationVars, chainVars>>
Delegating == focus = "delegation" /\ UNCHANGED <<focus, vars, chainVars>>
Chaining   == focus = "chain" /\ UNCHANGED <<focus, vars, delegationVars>>

MCInit == focus \in {"http", "delegation", "chain"} /\ Init /\ DelegationInit /\ ChainInit
MCNext == (Serving /\ Next) \/ (Delegating /\ DelegationNext) \/ (Chaining /\ ChainNext)
MCSpec == /\ MCInit /\ [][MCNext]_mcVars
          /\ \A q \in Question : WF_mcVars(Serving /\ Waiter(q))
          /\ \A n \in Node : WF_mcVars(Delegating /\ NodeStep(n))

\* Everybody who waits goes on: a turn that asks its user, and a layer of sub-agents.
NobodyWaits == QuestionCloses /\ LayerReturns
=============================================================================
