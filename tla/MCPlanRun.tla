----------------------------- MODULE MCPlanRun -----------------------------
(* Plans for TLC: a chain of two delegated nodes; two nodes delegated       *)
(* together and a third after both; and a plan whose output is a compute    *)
(* node below a node with a condition.                                      *)
EXTENDS PlanRun, TLC

Nodes == {"a", "b", "c"}

Unconditional == [n \in Nodes |-> None]

Chain == [nodes |-> {"a", "b"}, deps |-> [n \in Nodes |-> IF n = "b" THEN {"a"} ELSE {}],
          when |-> Unconditional, compute |-> {}, atomic |-> {"a"}, out |-> "b"]

Fork == [nodes |-> Nodes, deps |-> [n \in Nodes |-> IF n = "c" THEN {"a", "b"} ELSE {}],
         when |-> Unconditional, compute |-> {}, atomic |-> {"a"}, out |-> "c"]

Branch == [nodes |-> Nodes,
           deps |-> [a |-> {}, b |-> {"a"}, c |-> {"a", "b"}],
           when |-> [Unconditional EXCEPT !["b"] = [node |-> "a", op |-> "Contains"]],
           compute |-> {"c"}, atomic |-> {}, out |-> "c"]

OnePlan == {Chain}
TwoPlans == {Fork, Branch}

\* Implementing needs the task before it done.
CAfterA == [n \in Nodes |-> IF n = "c" THEN {"a"} ELSE {}]
BAfterA == [n \in Nodes |-> IF n = "b" THEN {"a"} ELSE {}]
NoRules == [n \in Nodes |-> {}]
=============================================================================
