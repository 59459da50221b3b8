--------------------------- MODULE WorkflowGraph ---------------------------
(***************************************************************************)
(* The pure part of the workflow executor: how a workflow is validated,    *)
(* sorted into layers, and how one layer is divided into nodes to run and  *)
(* nodes to skip.                                                          *)
(*                                                                         *)
(* A workflow is a record of its nodes, depends_on, run_when, the inputs   *)
(* of its compute nodes, the nodes marked atomic and the output node.  A   *)
(* result is "yes" or "no", as far as conditions can tell, or "none".      *)
(***************************************************************************)
EXTENDS Naturals, FiniteSets

\* run_when: the observed node and the operator; None when it is not declared.
None == [node |-> "none", op |-> "always"]

\* Mutant: layers by one dependency, not by all of them.
ReadyAny(wf, processed) ==
  {n \in wf.nodes : wf.deps[n] = {} \/ wf.deps[n] \cap processed # {}}

\* The next layer of topological_sort: all dependencies processed.
Ready(wf, processed) == {n \in wf.nodes : wf.deps[n] \subseteq processed}

\* The nodes processed after k rounds.
Processed(wf) ==
  LET P[k \in 0 .. Cardinality(wf.nodes)] ==
        IF k = 0 THEN {} ELSE P[k - 1] \cup Ready(wf, P[k - 1])
  IN P

Layer(wf, k) == Processed(wf)[k] \ Processed(wf)[k - 1]

Depth(wf) == Cardinality({k \in 1 .. Cardinality(wf.nodes) : Layer(wf, k) # {}})

\* validate, the cycle check of topological_sort and check_run_when_layers: what
\* a workflow must be to be executed.  A condition observes a node of an earlier
\* layer, or the empty source, which is no node of the workflow.
Valid(wf) ==
  /\ IsFiniteSet(wf.nodes) /\ wf.out \in wf.nodes
  /\ \A n \in wf.nodes : wf.deps[n] \subseteq wf.nodes \ {n}
  /\ Processed(wf)[Cardinality(wf.nodes)] = wf.nodes
  /\ \A k \in 1 .. Cardinality(wf.nodes) : \A n \in Layer(wf, k) :
       wf.when[n] = None \/ wf.when[n].node \notin wf.nodes \ Processed(wf)[k - 1]

\* eval_condition: a node without a result counts as the empty string.
EvalCondition(cond, results) ==
  CASE cond.op = "Contains"    -> results[cond.node] = "yes"
    [] cond.op = "NotContains" -> results[cond.node] # "yes"

\* plan_layer: a node with a condition runs when it holds, even below a skipped
\* node; any other node is skipped with a skipped dependency.
Runs(wf, n, results, skipped) ==
  IF wf.when[n] # None THEN EvalCondition(wf.when[n], results)
                       ELSE wf.deps[n] \cap skipped = {}
=============================================================================
