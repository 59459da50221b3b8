----------------------------- MODULE Delegation -----------------------------
(***************************************************************************)
(* Sub-agents (delegate.rs).  The delegate tool of a runner runs one       *)
(* sub-agent at a time and notes the child session in the spawn ledger;    *)
(* when the result of the call is written, the runner drains the ledger    *)
(* into its journal (flush_delegate_spawns).  The ledger and the token     *)
(* counter belong to the delegate context, which session_spawn hands on to *)
(* the runners of spawned sessions: all of them share both.                *)
(*                                                                         *)
(* A workflow layer delegates its nodes at once (delegate_parallel), each  *)
(* behind a permit of a shared semaphore.                                  *)
(***************************************************************************)
EXTENDS Naturals, Sequences, FiniteSets

CONSTANTS
  Runner,      \* runners that share one delegate context
  Call,        \* calls of the delegate tool; each is made once
  CallOf,      \* [Call -> Runner]
  Node,        \* nodes of a workflow layer
  Permits,     \* max_concurrent
  MaxTokens    \* bound: tokens all sub-agents spend

ASSUME DelegationAssumption ==
  /\ CallOf \in [Call -> Runner]
  /\ Permits \in Nat \ {0}
  /\ MaxTokens \in Nat

VARIABLES
  call,     \* [Call -> CallState]
  ledger,   \* sequence of the records not yet drained
  slot,     \* [Call -> Nat]: spawn_record_idx, 0 = none
  counter,  \* token_counter
  base,     \* [Call -> Nat]: tokens_start
  spent,    \* [Call -> Nat]: tokens this sub-agent spent
  filed,    \* [Runner -> set of records in its journal]
  crossed,  \* calls whose window overlapped that of another runner
  node,     \* [Node -> NodeState]
  permits   \* permits of the semaphore that are free

callVars == <<call, ledger, slot, counter, base, spent, filed, crossed>>
nodeVars == <<node, permits>>
delegationVars == <<callVars, nodeVars>>

CallState == {"unmade", "starting", "running", "returned", "written"}
NodeState == {"idle", "queued", "running", "ok", "failed"}
\* tokens = MaxTokens + 1 stands for tokens_used: None.
Unknown == MaxTokens + 1
Record == [call : Call, tokens : 0 .. Unknown]

DelegationTypeOK ==
  /\ call \in [Call -> CallState]
  /\ ledger \in Seq(Record)
  /\ slot \in [Call -> Nat]
  /\ counter \in 0 .. MaxTokens
  /\ base \in [Call -> 0 .. MaxTokens] /\ spent \in [Call -> 0 .. MaxTokens]
  /\ filed \in [Runner -> SUBSET Record]
  /\ crossed \subseteq Call
  /\ node \in [Node -> NodeState]
  /\ permits \in 0 .. Permits

DelegationInit ==
  /\ call = [c \in Call |-> "unmade"]
  /\ ledger = << >>
  /\ slot = [c \in Call |-> 0]
  /\ counter = 0
  /\ base = [c \in Call |-> 0]
  /\ spent = [c \in Call |-> 0]
  /\ filed = [r \in Runner |-> {}]
  /\ crossed = {}
  /\ node = [n \in Node |-> "idle"]
  /\ permits = Permits

-----------------------------------------------------------------------------
(* The delegate tool: serial within a runner, for it counts as Mutating *)

InWindow == {"starting", "running", "returned"}
Windows(s) == {c \in Call : s[c] \in InWindow}

\* delegate_inner before the stream: the definition may fail to load.
Delegate(c) ==
  /\ call[c] = "unmade"
  /\ \A d \in Call : CallOf[d] = CallOf[c] => call[d] \notin InWindow
  /\ \E ok \in BOOLEAN : call' = [call EXCEPT ![c] = IF ok THEN "starting" ELSE "returned"]
  /\ base' = [base EXCEPT ![c] = counter]
  /\ crossed' = IF Cardinality(Windows(call')) > 1 THEN crossed \cup Windows(call') ELSE crossed
  /\ UNCHANGED <<ledger, slot, counter, spent, filed, nodeVars>>

\* SessionCreated of the child: its record is pushed, its index kept.
Anchor(c) ==
  /\ call[c] = "starting"
  /\ call' = [call EXCEPT ![c] = "running"]
  /\ slot' = [slot EXCEPT ![c] = Len(ledger) + 1]
  /\ ledger' = Append(ledger, [call |-> c, tokens |-> Unknown])
  /\ UNCHANGED <<counter, base, spent, filed, crossed, nodeVars>>

\* An LLM call of the sub-agent adds to the shared counter.
Spend(c) ==
  /\ call[c] = "running"
  /\ counter < MaxTokens
  /\ counter' = counter + 1
  /\ spent' = [spent EXCEPT ![c] = @ + 1]
  /\ UNCHANGED <<call, ledger, slot, base, filed, crossed, nodeVars>>

\* Mutant: the window is closed from the whole counter.
CloseWindowWhole(c) ==
  /\ call[c] = "running"
  /\ call' = [call EXCEPT ![c] = "returned"]
  /\ ledger' = IF slot[c] \in DOMAIN ledger
                 THEN [ledger EXCEPT ![slot[c]].tokens = counter] ELSE ledger
  /\ UNCHANGED <<slot, counter, base, spent, filed, crossed, nodeVars>>

\* Done, a stream error or the end of the stream: the difference of the counter
\* goes into the record at the index that was kept, if the ledger is that long.
CloseWindow(c) ==
  /\ call[c] = "running"
  /\ call' = [call EXCEPT ![c] = "returned"]
  /\ ledger' = IF slot[c] \in DOMAIN ledger
                 THEN [ledger EXCEPT ![slot[c]].tokens = counter - base[c]] ELSE ledger
  /\ UNCHANGED <<slot, counter, base, spent, filed, crossed, nodeVars>>

Drained == {ledger[i] : i \in DOMAIN ledger}

\* Mutant: the ledger is copied and not emptied.
FlushCopies(c) ==
  /\ call[c] = "returned"
  /\ call' = [call EXCEPT ![c] = "written"]
  /\ filed' = [filed EXCEPT ![CallOf[c]] = @ \cup Drained]
  /\ UNCHANGED <<ledger, slot, counter, base, spent, crossed, nodeVars>>

\* The result is written: before it, the runner drains the whole ledger.
Flush(c) ==
  /\ call[c] = "returned"
  /\ call' = [call EXCEPT ![c] = "written"]
  /\ filed' = [filed EXCEPT ![CallOf[c]] = @ \cup Drained]
  /\ ledger' = << >>
  /\ UNCHANGED <<slot, counter, base, spent, crossed, nodeVars>>

-----------------------------------------------------------------------------
(* delegate_parallel *)

\* join_all starts every node of the layer.
StartLayer ==
  /\ node = [n \in Node |-> "idle"]
  /\ node' = [n \in Node |-> "queued"]
  /\ UNCHANGED <<callVars, permits>>

\* Mutant: a permit is taken and never given back.
AdmitLeaks(n) ==
  /\ node[n] = "queued"
  /\ permits > 0
  /\ node' = [node EXCEPT ![n] = "running"]
  /\ permits' = permits - 1
  /\ UNCHANGED callVars

\* A permit is acquired; it is dropped at the end of the block it was acquired
\* in, before the sub-agent starts.
Admit(n) ==
  /\ node[n] = "queued"
  /\ permits > 0
  /\ node' = [node EXCEPT ![n] = "running"]
  /\ UNCHANGED <<callVars, permits>>

\* Mutant: a permit is given back a second time.
NodeReturnsPermit(n) ==
  /\ node[n] = "running"
  /\ \E out \in {"ok", "failed"} : node' = [node EXCEPT ![n] = out]
  /\ permits' = permits + 1
  /\ UNCHANGED callVars

\* The sub-agent returns.
NodeReturns(n) ==
  /\ node[n] = "running"
  /\ \E out \in {"ok", "failed"} : node' = [node EXCEPT ![n] = out]
  /\ UNCHANGED <<callVars, permits>>

CallStep(c) == Delegate(c) \/ Anchor(c) \/ Spend(c) \/ CloseWindow(c) \/ Flush(c)
NodeStep(n) == Admit(n) \/ NodeReturns(n)

DelegationNext ==
  \/ \E c \in Call : CallStep(c)
  \/ StartLayer
  \/ \E n \in Node : NodeStep(n)

\* The executor polls every future of join_all; a sub-agent's turn ends.
DelegationFairness == \A n \in Node : WF_delegationVars(NodeStep(n))

DelegationSpec == DelegationInit /\ [][DelegationNext]_delegationVars /\ DelegationFairness

-----------------------------------------------------------------------------
(* Properties *)

\* The child session of a sub-agent is noted exactly once, in the ledger or in
\* one journal, however the runners that share the ledger drain it.
AnchoredOnce ==
  \A c \in Call : slot[c] > 0 =>
    Cardinality({i \in DOMAIN ledger : ledger[i].call = c})
    + Cardinality({r \in Runner : \E x \in filed[r] : x.call = c}) = 1

\* A sub-agent whose window overlapped no other has its own tokens in its own
\* record of its own parent's journal.
SerialWindowExact ==
  \A c \in Call \ crossed : call[c] = "written" /\ slot[c] > 0 =>
    [call |-> c, tokens |-> spent[c]] \in filed[CallOf[c]]

\* Types, and what the journals say about sub-agents: each once, with its own tokens.
DelegationInv == DelegationTypeOK /\ AnchoredOnce /\ SerialWindowExact

\* A layer that is started returns a result for every node.
LayerReturns == \A n \in Node : node[n] = "queued" ~> node[n] \in {"ok", "failed"}

(* What comments of the code say, and the code does not keep *)

\* with_max_concurrent_delegates: at most max_concurrent sub-agents at a time.
ConcurrencyHolds == Cardinality({n \in Node : node[n] = "running"}) <= Permits

\* SpawnRecord: the child session is noted in the journal of its parent.
AnchoredAtParent == \A r \in Runner : \A x \in filed[r] : CallOf[x.call] = r
=============================================================================
