------------------------------ MODULE PlanRun ------------------------------
(***************************************************************************)
(* One plan-execute run: the driver loop (run_plan_loop_with_resume) over  *)
(* the workflow executor (execute_with_resume), its run ledger, crashes    *)
(* and explicit resumes.                                                   *)
(*                                                                         *)
(* A plan version is executed layer by layer: nodes are skipped, computed  *)
(* or delegated; every completed node is checkpointed in the ledger before *)
(* it counts, then marked in the marks session of the engine, which the    *)
(* phase gate of later nodes looks at.  After each version the driver      *)
(* writes its own state to the ledger and decides: done, halt, or ask the  *)
(* planner for the next version.  A resume rebuilds the driver's state     *)
(* from the last plan checkpoint and the results from the node             *)
(* checkpoints of that plan.                                               *)
(*                                                                         *)
(* The ledger is a file and the marks session lives in the engine: both    *)
(* survive a crash, everything else does not.                              *)
(***************************************************************************)
EXTENDS WorkflowGraph, Sequences

CONSTANTS
  Node,        \* node ids
  Plans,       \* workflows the planner may come up with
  Large,       \* nodes whose result exceeds CHECKPOINT_INLINE_LIMIT
  Requires,    \* [Node -> SUBSET Node]: marks the phase rules ask for (external)
  MaxReplan,   \* limits.max_replan
  MaxRecuts,   \* limits.max_recuts
  Faults,      \* may calls to the engine, the planner and the ledger fail
  Overlap,     \* resume requests that may be on their way at the same time
  MaxCrashes,  \* bound: crashes of the process
  MaxResumes,  \* bound: resumes
  NoRun, NoGrain  \* no driver state, no checkpoint

ASSUME PlanRunAssumption ==
  /\ {MaxReplan, MaxRecuts, Overlap, MaxCrashes, MaxResumes} \subseteq Nat
  /\ Faults \in BOOLEAN
  /\ Large \subseteq Node
  /\ Requires \in [Node -> SUBSET Node]
  /\ \A p \in Plans :
       /\ Valid(p) /\ p.nodes \subseteq Node
       /\ p.when \in [Node -> {None} \cup [node : Node, op : {"Contains", "NotContains"}]]

VARIABLES
  pc,        \* where the driver is, "down" when none runs
  run,       \* the driver's state, what a plan checkpoint holds
  executed,  \* executed_nodes of the engine object
  fresh,     \* executed_node_ids not yet taken by the driver
  results, skipped,  \* of the version being executed
  at,        \* its current layer
  todo,      \* nodes of the layer not yet evaluated or let through the gate
  got,       \* delegated nodes whose outcome is not yet processed
  cur,       \* the checkpoint being written
  outcome,   \* what execute returned
  saved, grains, finished,  \* the ledger: last plan checkpoint, node checkpoints, final marks
  marks,     \* nodes marked done in the marks session
  loaded,    \* resumes that have read the ledger and not yet opened it
  tally      \* counts over the run that no component keeps

driver == <<run, executed, fresh, outcome>>
exec == <<results, skipped, at, todo, got, cur>>
ledger == <<saved, grains, finished>>
vars == <<pc, driver, exec, ledger, marks, loaded, tally>>

NoResults == [n \in Node |-> "none"]

\* A node checkpoint: the plan it belongs to (the hash of the workflow, whose
\* id holds the version), and whether its content is in the ledger yet.
Grain == [of : Nat \X Plans, node : Node, status : {"completed", "skipped"},
          value : {"yes", "no", "none"}, whole : BOOLEAN]

\* Budgets besides the nodes: the wall clock and the tokens.
Budget == {"wall", "tokens"}

\* PlanLoopCheckpointState
RunState == [version : Nat, replans : Nat, plan : Plans, nodes : Nat,
             spent : SUBSET Budget, registry : SUBSET Node, memory : SUBSET Node,
             recuts : [Node -> Nat]]

ASSUME NoRunAssumption == NoRun \notin RunState

Ok == [kind |-> "ok", node |-> "none"]

\* The types; and no node is both completed and skipped.
TypeOK ==
  /\ pc \in {"down", "layer", "gate", "collect", "blob", "mark", "return", "drain",
             "decide", "replan"}
  /\ run \in RunState \cup {NoRun} /\ saved \in RunState \cup {NoRun}
  /\ executed \in Nat
  /\ results \in [Node -> {"yes", "no", "none"}]
  /\ {fresh, skipped, todo, got, marks} \subseteq SUBSET Node
  /\ \A n \in skipped : results[n] = "none"
  /\ at \in Nat
  /\ cur \in Grain \cup {NoGrain}
  /\ outcome.kind \in {"ok", "granule", "interface", "enforce", "other"}
  /\ grains \subseteq Grain
  /\ finished \subseteq {"ok", "error"}
  /\ Len(loaded) <= Overlap

Init ==
  /\ pc = "down"
  /\ run = NoRun /\ executed = 0 /\ fresh = {} /\ outcome = Ok
  /\ results = NoResults /\ skipped = {} /\ at = 1 /\ todo = {} /\ got = {} /\ cur = NoGrain
  /\ saved = NoRun /\ grains = {} /\ finished = {}
  /\ marks = {}
  /\ loaded = << >>
  /\ tally = [done |-> 0, versions |-> 0, cuts |-> [n \in Node |-> 0], misfire |-> FALSE,
              crashes |-> 0, resumes |-> 0]

-----------------------------------------------------------------------------
(* Start and end *)

\* The first layer of a version, with the results a resume brings along.
Enter(seed) ==
  /\ pc' = "layer"
  /\ results' = seed.results
  /\ skipped' = seed.skipped
  /\ at' = 1
  /\ todo' = {} /\ got' = {} /\ cur' = NoGrain

Nothing == [results |-> NoResults, skipped |-> {}]

\* A fresh run: the planning probe has produced plan v1 (and counts as a node
\* of the engine object), the ledger is opened, write point A.
Start(p) ==
  /\ pc = "down" /\ saved = NoRun
  /\ run' = [version |-> 1, replans |-> 0, plan |-> p, nodes |-> 0, spent |-> {},
             registry |-> {}, memory |-> {}, recuts |-> [n \in Node |-> 0]]
  /\ saved' = run'
  /\ executed' = 1
  /\ Enter(Nothing)
  /\ tally' = [tally EXCEPT !.done = 1, !.versions = 1]
  /\ UNCHANGED <<fresh, outcome, grains, finished, marks, loaded>>

\* The driver's future is gone: nothing of it is left in memory.
Gone ==
  /\ pc' = "down"
  /\ run' = NoRun /\ executed' = 0 /\ fresh' = {} /\ outcome' = Ok
  /\ results' = NoResults /\ skipped' = {} /\ at' = 1 /\ todo' = {} /\ got' = {} /\ cur' = NoGrain

\* Every way out of the driver writes the final mark (PlanFinishGuard); the
\* write is best effort.
Finish(status) ==
  /\ Gone
  /\ \/ finished' = finished \cup {status}
     \/ Faults /\ UNCHANGED finished

\* The client of the run goes away: the future is dropped, and the guard with it.
Dropped ==
  /\ pc # "down"
  /\ Finish("error")
  /\ UNCHANGED <<saved, grains, marks, loaded, tally>>

\* The process dies.
Crash ==
  /\ pc # "down" \/ loaded # << >>
  /\ tally.crashes < MaxCrashes
  /\ Gone
  /\ loaded' = << >>
  /\ tally' = [tally EXCEPT !.crashes = @ + 1]
  /\ UNCHANGED <<ledger, marks>>

-----------------------------------------------------------------------------
(* Resume *)

Hash(r) == <<r.version, r.plan>>
Of(hash) == {g \in grains : g.of = hash}

\* replay_node_checkpoints refuses a checkpoint without its content, and a
\* ledger that holds node checkpoints of other plans only.
Replayable ==
  /\ \A g \in Of(Hash(saved)) : g.whole
  /\ Of(Hash(saved)) = {} => grains = {}

\* What it returns: the results and the skipped nodes of that plan.
Replay ==
  LET done == {g \in Of(Hash(saved)) : g.status = "completed"} IN
    [results |-> [n \in Node |->
       IF \E g \in done : g.node = n THEN (CHOOSE g \in done : g.node = n).value ELSE "none"],
     skipped |-> {g.node : g \in {h \in Of(Hash(saved)) : h.status = "skipped"}}]

\* Mutant: the replan counter starts again in the new process.
RestoredFresh == [saved EXCEPT !.replans = 0]

\* The driver state a resume starts from.
Restored == saved

\* build_plan_loop_resume and the session_resumed line, for which the ledger is
\* opened and closed again: not while a driver holds it.
Load ==
  /\ pc = "down" /\ saved # NoRun
  /\ Len(loaded) < Overlap
  /\ tally.resumes < MaxResumes
  /\ Replayable
  /\ loaded' = Append(loaded, [run |-> Restored, seed |-> Replay])
  /\ tally' = [tally EXCEPT !.resumes = @ + 1]
  /\ UNCHANGED <<pc, driver, exec, ledger, marks>>

\* The driver starts: it fails at once when the wall clock budget is spent or
\* another driver holds the ledger, before its guard has anything to write to.
Open ==
  /\ loaded # << >>
  /\ loaded' = Tail(loaded)
  /\ LET r == Head(loaded) IN
       \/ /\ "wall" \in r.run.spent \/ pc # "down"
          /\ UNCHANGED <<pc, driver, exec>>
       \/ /\ "wall" \notin r.run.spent /\ pc = "down"
          /\ run' = r.run
          /\ executed' = 0 /\ fresh' = {} /\ outcome' = Ok
          /\ Enter(r.seed)
  /\ UNCHANGED <<ledger, marks, tally>>

-----------------------------------------------------------------------------
(* execute_with_resume *)

plan == run.plan

\* execute returns.
Return(o) ==
  /\ pc' = "return"
  /\ outcome' = o
  /\ todo' = {} /\ got' = {} /\ cur' = NoGrain

Failure(kind, n) == [kind |-> kind, node |-> n]

\* Mutant: nodes restored from the ledger are run all the same.
ToRunAgain(layer) == layer

\* Restored nodes are not run again.
ToRun(layer) == {n \in layer : results[n] = "none"}

\* Mutant: nodes restored from the ledger count as skipped.
NewlySkippedRestored(layer, runs) == layer \ ToRun(runs)

NewlySkipped(layer, runs) == layer \ runs

\* Divide the next layer; the skips are checkpointed.
PlanLayer ==
  /\ pc = "layer" /\ at <= Depth(plan)
  /\ LET layer == Layer(plan, at)
         runs == {n \in layer : Runs(plan, n, results, skipped)} IN
       /\ grains' = grains \cup {[of |-> Hash(run), node |-> n, status |-> "skipped",
                                  value |-> "none", whole |-> TRUE] :
                                   n \in NewlySkipped(layer, runs) \ skipped}
       /\ skipped' = skipped \cup NewlySkipped(layer, runs)
       /\ todo' = ToRun(runs)
  /\ pc' = "gate"
  /\ UNCHANGED <<driver, results, at, got, cur, saved, finished, marks, loaded, tally>>

\* A line of the ledger cannot be written: the node is not done.
CheckpointFails ==
  /\ Faults
  /\ \/ pc = "gate" /\ todo \cap plan.compute # {}
     \/ pc = "collect" /\ got # {}
     \/ pc = "layer" /\ at <= Depth(plan)
        /\ \E n \in Layer(plan, at) : n \notin skipped /\ ~Runs(plan, n, results, skipped)
     \/ pc = "blob"
  /\ Return(Failure("other", "none"))
  /\ UNCHANGED <<run, executed, fresh, results, skipped, at, ledger, marks, loaded, tally>>

\* Mutant: a missing result is not an error.
OutputAnyway ==
  /\ pc = "layer" /\ at > Depth(plan)
  /\ Return(Ok)
  /\ UNCHANGED <<run, executed, fresh, results, skipped, at, ledger, marks, loaded, tally>>

\* After the last layer: the result of the output node, or an error.
Output ==
  /\ pc = "layer" /\ at > Depth(plan)
  /\ Return(IF results[plan.out] = "none" THEN Failure("other", "none") ELSE Ok)
  /\ UNCHANGED <<run, executed, fresh, results, skipped, at, ledger, marks, loaded, tally>>

Observed(n) == \E m \in plan.nodes : plan.when[m].node = n

\* The checkpoint line of a completed node; a large result follows in a line of
\* its own.
CheckpointNode(n) ==
  \E v \in IF Observed(n) THEN {"yes", "no"} ELSE {"yes"} :
    /\ cur' = [of |-> Hash(run), node |-> n, status |-> "completed", value |-> v,
               whole |-> n \notin Large]
    /\ grains' = grains \cup {cur'}
    /\ pc' = IF n \in Large THEN "blob" ELSE "mark"

\* A compute node is evaluated inline.
Compute(n) ==
  /\ pc = "gate" /\ n \in todo \cap plan.compute
  /\ \/ CheckpointNode(n) /\ todo' = todo \ {n} /\ UNCHANGED <<got, outcome>>
     \/ /\ \E kind \in {"granule", "interface"} : Return(Failure(kind, n))
        /\ UNCHANGED grains
  /\ UNCHANGED <<run, executed, fresh, results, skipped, at, saved, finished, marks, loaded, tally>>

\* The phase gate of a node to be delegated: the rules ask for the marks of
\* its prerequisites.
Gate(n) ==
  /\ pc = "gate" /\ todo \cap plan.compute = {} /\ n \in todo
  /\ \/ /\ Requires[n] \subseteq marks
        /\ todo' = todo \ {n} /\ got' = got \cup {n}
        /\ UNCHANGED <<pc, cur, outcome, tally>>
     \/ /\ ~(Requires[n] \subseteq marks)
        /\ Return(Failure("enforce", "none"))
        /\ tally' = [tally EXCEPT !.misfire =
             @ \/ \A m \in Requires[n] : m \in plan.nodes /\ results[m] # "none"]
     \/ Faults /\ Return(Failure("other", "none")) /\ UNCHANGED tally
  /\ UNCHANGED <<run, executed, fresh, results, skipped, at, ledger, marks, loaded>>

\* Mutant: a layer with nothing to delegate is planned again.
DelegateStays ==
  /\ pc = "gate" /\ todo = {}
  /\ \/ got # {} /\ pc' = "collect"
     \/ got = {} /\ pc' = "layer"
  /\ UNCHANGED <<driver, results, skipped, at, todo, got, cur, ledger, marks, loaded, tally>>

\* The layer's nodes are delegated together, or there are none.
Delegate ==
  /\ pc = "gate" /\ todo = {}
  /\ \/ got # {} /\ pc' = "collect" /\ UNCHANGED at
     \/ got = {} /\ pc' = "layer" /\ at' = at + 1
  /\ UNCHANGED <<driver, results, skipped, todo, got, cur, ledger, marks, loaded, tally>>

\* All outcomes of the layer are processed.
Collected ==
  /\ pc = "collect" /\ got = {}
  /\ pc' = "layer" /\ at' = at + 1
  /\ UNCHANGED <<driver, results, skipped, todo, got, cur, ledger, marks, loaded, tally>>

\* The next outcome: success, a failed node or judge, a broken contract, a veto
\* of the rules on the judge's signal.  A failure discards the outcomes left.
Collect(n) ==
  /\ pc = "collect" /\ n \in got
  /\ \/ CheckpointNode(n) /\ got' = got \ {n} /\ UNCHANGED <<todo, outcome>>
     \/ /\ \E kind \in {"granule", "interface", "enforce"} : Return(Failure(kind, n))
        /\ UNCHANGED grains
  /\ UNCHANGED <<run, executed, fresh, results, skipped, at, saved, finished, marks, loaded, tally>>

\* The line with the content of a large result.
Blob ==
  /\ pc = "blob"
  /\ grains' = (grains \ {cur}) \cup {[cur EXCEPT !.whole = TRUE]}
  /\ pc' = "mark"
  /\ UNCHANGED <<driver, results, skipped, at, todo, got, cur, saved, finished, marks, loaded,
                 tally>>

\* The result counts, and a delegated node is marked in the engine at once
\* (mark_node_done).
Mark ==
  /\ pc = "mark"
  /\ results' = [results EXCEPT ![cur.node] = cur.value]
  /\ executed' = executed + 1
  /\ fresh' = fresh \cup {cur.node}
  /\ tally' = [tally EXCEPT !.done = @ + 1]
  /\ \/ /\ cur.node \in plan.compute
        /\ pc' = "gate" /\ cur' = NoGrain
        /\ UNCHANGED <<marks, outcome, todo, got>>
     \/ /\ cur.node \notin plan.compute
        /\ marks' = marks \cup {cur.node}
        /\ pc' = "collect" /\ cur' = NoGrain
        /\ UNCHANGED <<outcome, todo, got>>
     \/ /\ Faults /\ cur.node \notin plan.compute
        /\ Return(Failure("other", "none"))
        /\ UNCHANGED marks
  /\ UNCHANGED <<run, skipped, at, ledger, loaded>>

-----------------------------------------------------------------------------
(* The driver after a version *)

\* The counters: what the engine object has executed, the clock and the tokens.
Account ==
  /\ pc = "return"
  /\ \E more \in SUBSET Budget :
       run' = [run EXCEPT !.nodes = @ + executed, !.spent = @ \cup more]
  /\ pc' = "drain"
  /\ UNCHANGED <<executed, fresh, outcome, exec, ledger, marks, loaded, tally>>

\* The executed nodes go into the registry and are signalled to the engine once
\* more; a signal that fails ends the run.
Drain(n) ==
  /\ pc = "drain" /\ n \in fresh
  /\ \/ /\ run' = [run EXCEPT !.registry = @ \cup {n}]
        /\ fresh' = fresh \ {n}
        /\ marks' = marks \cup {n}
        /\ UNCHANGED <<pc, executed, outcome, exec, finished>>
     \/ Faults /\ Finish("error") /\ UNCHANGED marks
  /\ UNCHANGED <<saved, grains, loaded, tally>>

\* Write point C.
WriteState ==
  /\ pc = "drain" /\ fresh = {}
  /\ \/ saved' = run /\ pc' = "decide" /\ UNCHANGED <<driver, exec, finished>>
     \/ Faults /\ Finish("error") /\ UNCHANGED saved
  /\ UNCHANGED <<grains, marks, loaded, tally>>

\* should_replan, step 1: the hard cap.
CapReached == run.replans >= MaxReplan

\* Step 3: the node budget, twice the nodes of the plan, or another one.
OverBudget == run.nodes >= 2 * Cardinality(plan.nodes) \/ run.spent # {}

\* Atomicity, once marked, stays with the node.
Atomic(n) == n \in plan.nodes /\ (n \in plan.atomic \/ n \in run.memory)

\* Mutant: the recut budget is not looked at.
GapNever == FALSE

\* route_for_failure_class: an atomic node that has used up its recuts.
Gap == /\ outcome.kind = "granule" /\ Atomic(outcome.node)
       /\ run.recuts[outcome.node] >= MaxRecuts

\* Split an atomic node: it is remembered, and the recut counted.
Recut ==
  IF outcome.kind = "granule" /\ Atomic(outcome.node)
    THEN [run EXCEPT !.memory = @ \cup {outcome.node}, !.recuts[outcome.node] = @ + 1]
    ELSE run

\* Veto of the rules, cap, failure routing, budget, in this order.
Decide ==
  /\ pc = "decide"
  /\ \/ /\ outcome.kind = "enforce" \/ (outcome # Ok /\ (CapReached \/ Gap))
        /\ Finish("error")
     \/ /\ outcome = Ok /\ (CapReached \/ ~OverBudget)
        /\ Finish("ok")
     \/ /\ outcome.kind # "enforce" /\ ~CapReached
        /\ outcome # Ok => ~Gap
        /\ outcome = Ok => OverBudget
        /\ run' = Recut
        /\ pc' = "replan"
        /\ UNCHANGED <<executed, fresh, outcome, exec, finished>>
  /\ UNCHANGED <<saved, grains, marks, loaded, tally>>

\* The planner gives the next version, write point B; or it fails, or its plan
\* is refused.
Replan ==
  /\ pc = "replan"
  /\ \/ \E p \in Plans :
          /\ run' = [run EXCEPT !.version = @ + 1, !.replans = @ + 1, !.plan = p]
          /\ saved' = run'
          /\ Enter(Nothing)
          /\ tally' = [tally EXCEPT !.versions = @ + 1,
               !.cuts = IF outcome # Ok /\ outcome.kind = "granule" /\ Atomic(outcome.node)
                          THEN [tally.cuts EXCEPT ![outcome.node] = @ + 1] ELSE tally.cuts]
          /\ outcome' = Ok
          /\ UNCHANGED <<executed, fresh, finished>>
     \/ Finish("error") /\ UNCHANGED <<saved, tally>>
  /\ UNCHANGED <<grains, marks, loaded>>

-----------------------------------------------------------------------------

Execute == \/ PlanLayer \/ CheckpointFails \/ Output \/ Delegate \/ Collected \/ Blob \/ Mark
           \/ \E n \in Node : Compute(n) \/ Gate(n) \/ Collect(n)

Drive == \/ Account \/ WriteState \/ Decide \/ Replan \/ \E n \in Node : Drain(n)

Next == \/ \E p \in Plans : Start(p)
        \/ Load \/ Open \/ Execute \/ Drive \/ Dropped \/ Crash

Safety == Init /\ [][Next]_vars

\* The executor polls the driver, and delegated agents end by their own limits.
\* Nobody has to start, resume or drop a run.
Spec == Safety /\ WF_vars(Execute \/ Drive) /\ WF_vars(Open)

-----------------------------------------------------------------------------
(* Properties *)

Completed(hash) == {g.node : g \in {h \in grains : h.of = hash /\ h.status = "completed"}}

\* A node whose completion is in the ledger is never executed again for the
\* same plan, over any crashes and resumes ("已完成粒零重执行").
ZeroReexecution ==
  pc \in {"gate", "collect"} => (todo \cup got) \cap Completed(Hash(run)) = {}

\* The ledger comes first: whatever the executor treats as a result is in the
\* ledger with its content, and nodes run only on results or skips of all their
\* dependencies.
LedgerFirst ==
  pc # "down" =>
    /\ \A n \in Node : results[n] # "none" =>
         \E g \in Of(Hash(run)) : g.node = n /\ g.value = results[n] /\ g.whole
    /\ \A n \in todo \cup got : \A m \in plan.deps[n] : results[m] # "none" \/ m \in skipped

\* Types, and nothing is a result that the ledger does not hold.
PlanInv == TypeOK /\ LedgerFirst

\* The budgets hold over all processes of the run: plan versions and recuts of
\* an atomic node are never more than the limits, however often it is resumed.
BudgetsHold ==
  /\ tally.versions <= MaxReplan + 1
  /\ \A n \in Node : tally.cuts[n] <= MaxRecuts

\* A run is marked as finished well only when the ledger holds the result of
\* the output node, for the plan of its last plan checkpoint.
OkHasOutput ==
  [][finished' = finished \cup {"ok"} /\ "ok" \notin finished
       => saved.plan.out \in Completed(Hash(saved))]_vars

\* Every driver ends.
DriverEnds == pc # "down" ~> pc = "down"

(* What comments of the code say, and the code does not keep *)

\* scan_resumable_runs: a plan checkpoint and no final mark.
Listed == saved # NoRun /\ finished = {}

\* A run that was interrupted and that the scan lists can be resumed.
ListedIsResumable == pc = "down" /\ Listed => Replayable

\* The phase gate stops a node only when a prerequisite is not done.
GateIsRight == ~tally.misfire

\* nodes_executed is the number of nodes completed.
CountersTrue == pc = "decide" => run.nodes = tally.done

\* The registry holds every node completed before this process too.
RegistryComplete ==
  pc = "decide" => \A g \in grains : g.status = "completed" => g.node \in run.registry
=============================================================================
