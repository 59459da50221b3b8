---------------------------- MODULE SessionChain ----------------------------
(***************************************************************************)
(* session_spawn: a session forks a child that continues its work, the     *)
(* child runs by itself and may fork again.  Three guards: a cap on the    *)
(* depth, read hop by hop from the engine, a token budget shared by the    *)
(* chain, and a circuit breaker.  The first spawn of a session needs a     *)
(* human's approval.  Every guard is read before an await and the fork     *)
(* comes after it, while the other sessions of the chain run.              *)
(*                                                                         *)
(* Budget and breaker live in the process, for the request that started    *)
(* the chain: a session that a client continues starts a chain of its own. *)
(***************************************************************************)
EXTENDS Naturals, FiniteSets

CONSTANTS
  Sess,         \* session ids
  Root,         \* the session the chain starts from
  NoSess,       \* no parent
  MaxDepth,     \* MAX_CHAIN_DEPTH
  Budget,       \* budget_tokens
  RepeatHalt,   \* SPAWN_REPEAT_HALT
  WatchTurns,   \* CHAIN_WATCH_TURNS
  Chains,       \* bound: chains that are started, the first by the root
  TokenBound    \* bound: tokens the chain spends

ASSUME SessionChainAssumption ==
  /\ Root \in Sess /\ NoSess \notin Sess
  /\ {MaxDepth, Budget, RepeatHalt, WatchTurns, Chains} \subseteq Nat \ {0}
  /\ TokenBound \in Nat /\ Budget <= TokenBound

VARIABLES
  parent,   \* [Sess -> Sess or NoSess]: kept by the engine
  live,     \* sessions whose turn runs
  opened,   \* sessions that exist
  spawn,    \* [Sess -> SpawnState]: the session_spawn call of the session
  granted,  \* sessions whose runner has had a spawn approved by a human
  first_spawn_done, \* sessions that need no approval any more
  chain,    \* [Sess -> 1 .. Chains]: the chain its runner belongs to
  started,  \* chains that were started
  tokens,   \* [1 .. Chains -> Nat]: tokens_used
  halted,   \* chains that were stopped
  repeats,  \* count of SpawnRepeatGuard
  watched,  \* [Sess -> BOOLEAN]: the runner of this session carries a ChainWatch
  turns,    \* [Sess -> Nat]: turns that have ended
  errored,  \* [Sess -> Nat]: of these, the errors in a row at the start
  late      \* [Sess -> Nat]: forks of its runner over the budget

spawnVars == <<spawn, granted, first_spawn_done>>
turnVars == <<live, chain, started, watched, turns, errored>>
chainVars == <<parent, opened, spawnVars, turnVars, tokens, halted, repeats, late>>

SpawnState == {"none", "proposed", "approved", "walking", "sizing", "forking"}

ChainTypeOK ==
  /\ parent \in [Sess -> Sess \cup {NoSess}]
  /\ live \subseteq opened /\ opened \subseteq Sess
  /\ spawn \in [Sess -> SpawnState]
  /\ granted \subseteq opened /\ first_spawn_done \subseteq opened
  /\ chain \in [Sess -> 1 .. Chains] /\ started \in 1 .. Chains
  /\ tokens \in [1 .. Chains -> 0 .. TokenBound]
  /\ halted \subseteq 1 .. Chains
  /\ repeats \in 0 .. RepeatHalt
  /\ watched \in [Sess -> BOOLEAN]
  /\ turns \in [Sess -> 0 .. WatchTurns] /\ errored \in [Sess -> 0 .. WatchTurns]
  /\ late \in [Sess -> Nat]

ChainInit ==
  /\ parent = [s \in Sess |-> NoSess]
  /\ opened = {Root} /\ live = {Root}
  /\ spawn = [s \in Sess |-> "none"]
  /\ granted = {} /\ first_spawn_done = {}
  /\ chain = [s \in Sess |-> 1] /\ started = 1
  /\ tokens = [k \in 1 .. Chains |-> 0] /\ halted = {} /\ repeats = 0
  /\ watched = [s \in Sess |-> FALSE]
  /\ turns = [s \in Sess |-> 0] /\ errored = [s \in Sess |-> 0]
  /\ late = [s \in Sess |-> 0]

To(s, state) == spawn' = [spawn EXCEPT ![s] = state]

-----------------------------------------------------------------------------
(* session_spawn *)

\* evaluate_proposal: a proposal until a fork of this session has succeeded.
Propose(s) ==
  /\ s \in live /\ spawn[s] = "none"
  /\ To(s, IF s \in first_spawn_done THEN "approved" ELSE "proposed")
  /\ UNCHANGED <<parent, opened, turnVars, granted, first_spawn_done, tokens, halted,
                 repeats, late>>

\* Mutant: a proposal is made once, whatever the answer.
HumanDecidesOnce(s) ==
  /\ spawn[s] = "proposed"
  /\ \/ To(s, "approved") /\ granted' = granted \cup {s}
     \/ To(s, "none") /\ UNCHANGED granted
  /\ first_spawn_done' = first_spawn_done \cup {s}
  /\ UNCHANGED <<parent, opened, turnVars, tokens, halted, repeats, late>>

\* The approval window decides; a refused call may be made again.
HumanDecides(s) ==
  /\ spawn[s] = "proposed"
  /\ \/ To(s, "approved") /\ granted' = granted \cup {s}
     \/ To(s, "none") /\ UNCHANGED granted
  /\ UNCHANGED <<parent, opened, turnVars, first_spawn_done, tokens, halted, repeats, late>>

\* Guard 0: a halted chain refuses.
CheckHalted(s) ==
  /\ spawn[s] = "approved"
  /\ To(s, IF chain[s] \in halted THEN "none" ELSE "walking")
  /\ UNCHANGED <<parent, opened, turnVars, granted, first_spawn_done, tokens, halted,
                 repeats, late>>

\* chain_ancestor_hops, from parent to parent: the walk from s makes k hops.  It
\* stops at a session without a parent, and one hop past the cap.
Climbs(s, k) ==
  \E up \in [0 .. k -> Sess] : up[0] = s /\ \A i \in 1 .. k : up[i] = parent[up[i - 1]]

\* Mutant: the depth of the parent is compared, not that of the child.
CheckDepthOfParent(s) ==
  /\ spawn[s] = "walking"
  /\ To(s, IF Climbs(s, MaxDepth + 1) THEN "none" ELSE "sizing")
  /\ UNCHANGED <<parent, opened, turnVars, granted, first_spawn_done, tokens, halted,
                 repeats, late>>

\* Guard 1: the depth of the child, one more than the hops, is past the cap if
\* the walk made as many hops as the cap.  The engine may be unreachable.
CheckDepth(s) ==
  /\ spawn[s] = "walking"
  /\ \E reachable \in BOOLEAN :
       To(s, IF ~reachable \/ Climbs(s, MaxDepth) THEN "none" ELSE "sizing")
  /\ UNCHANGED <<parent, opened, turnVars, granted, first_spawn_done, tokens, halted,
                 repeats, late>>

\* Mutant: the budget is not looked at.
CheckBudgetNever(s) ==
  /\ spawn[s] = "sizing"
  /\ To(s, "forking")
  /\ UNCHANGED <<parent, opened, turnVars, granted, first_spawn_done, tokens, halted,
                 repeats, late>>

\* Guard 2: the budget.
CheckBudget(s) ==
  /\ spawn[s] = "sizing"
  /\ To(s, IF tokens[chain[s]] >= Budget THEN "none" ELSE "forking")
  /\ UNCHANGED <<parent, opened, turnVars, granted, first_spawn_done, tokens, halted,
                 repeats, late>>

\* Mutant: the child is started before it is opened.
ForkUnlisted(s) ==
  /\ spawn[s] = "forking"
  /\ \E c \in Sess \ opened : live' = live \cup {c} /\ parent' = [parent EXCEPT ![c] = s]
  /\ first_spawn_done' = first_spawn_done \cup {s}
  /\ To(s, "none")
  /\ UNCHANGED <<opened, granted, chain, started, watched, turns, errored, tokens, halted,
                 repeats, late>>

\* The fork: on success the child runs with a watch of its own.  Guard 3 looks
\* at the arguments and the result: the child id makes every digest a new one,
\* so the count starts again at 1.
Fork(s) ==
  /\ spawn[s] = "forking"
  /\ \E c \in Sess \ opened :
       /\ parent' = [parent EXCEPT ![c] = s]
       /\ opened' = opened \cup {c} /\ live' = live \cup {c}
       /\ watched' = [watched EXCEPT ![c] = TRUE]
       /\ chain' = [chain EXCEPT ![c] = chain[s]]
  /\ first_spawn_done' = first_spawn_done \cup {s}
  /\ repeats' = 1
  /\ halted' = IF repeats' >= RepeatHalt THEN halted \cup {chain[s]} ELSE halted
  /\ late' = [late EXCEPT ![s] = @ + IF tokens[chain[s]] >= Budget THEN 1 ELSE 0]
  /\ To(s, "none")
  /\ UNCHANGED <<granted, started, turns, errored, tokens>>

\* The engine refuses the fork: an error that guard 3 does not see.
ForkFails(s) ==
  /\ spawn[s] = "forking"
  /\ To(s, "none")
  /\ UNCHANGED <<parent, opened, turnVars, granted, first_spawn_done, tokens, halted,
                 repeats, late>>

-----------------------------------------------------------------------------
(* The sessions of the chain *)

SpendTokens(s) ==
  /\ s \in live /\ tokens[chain[s]] < TokenBound
  /\ tokens' = [tokens EXCEPT ![chain[s]] = @ + 1]
  /\ UNCHANGED <<parent, opened, spawnVars, turnVars, halted, repeats, late>>

\* TurnEndGuard::end: the watch moves into the guard of the first turn, sees
\* that turn and is gone with it.
TurnEnds(s) ==
  /\ s \in live /\ spawn[s] = "none" /\ turns[s] < WatchTurns
  /\ live' = live \ {s}
  /\ turns' = [turns EXCEPT ![s] = @ + 1]
  /\ \E error \in BOOLEAN :
       /\ errored' = IF error /\ errored[s] = turns[s]
                       THEN [errored EXCEPT ![s] = @ + 1] ELSE errored
       /\ halted' = IF watched[s] /\ error /\ WatchTurns = 1 THEN halted \cup {chain[s]} ELSE halted
  /\ watched' = [watched EXCEPT ![s] = FALSE]
  /\ UNCHANGED <<parent, opened, spawnVars, chain, started, tokens, repeats, late>>

\* A client continues the session with a new runner: a chain of its own, no
\* watch, and the approval of the first spawn is asked for again.
Continue(s) ==
  /\ s \in opened \ live /\ turns[s] < WatchTurns /\ started < Chains
  /\ live' = live \cup {s}
  /\ started' = started + 1
  /\ chain' = [chain EXCEPT ![s] = started + 1]
  /\ first_spawn_done' = first_spawn_done \ {s}
  /\ granted' = granted \ {s}
  /\ late' = [late EXCEPT ![s] = 0]
  /\ UNCHANGED <<parent, opened, spawn, watched, turns, errored, tokens, halted, repeats>>

SpawnStep(s) == \/ Propose(s) \/ HumanDecides(s) \/ CheckHalted(s) \/ CheckDepth(s)
                \/ CheckBudget(s) \/ Fork(s) \/ ForkFails(s)

ChainNext == \E s \in Sess : SpawnStep(s) \/ SpendTokens(s) \/ TurnEnds(s) \/ Continue(s)

ChainSpec == ChainInit /\ [][ChainNext]_chainVars

-----------------------------------------------------------------------------
(* Properties *)

\* No session of the chain is deeper than the cap, whichever sessions fork at
\* the same time.
DepthHolds == \A s \in opened : ~Climbs(s, MaxDepth + 1)

\* No session forks unless a human has approved a spawn of its present runner.
FirstSpawnApproved ==
  [][\A s \in Sess : s \in opened' \ opened => parent'[s] \in granted]_chainVars

\* The budget is read before the fork: each runner overruns it by one child at
\* the most.
OneLateFork == \A s \in Sess : late[s] <= 1

\* Types, and the caps of a chain, which are read before the await on the fork.
ChainInv == ChainTypeOK /\ DepthHolds /\ OneLateFork

(* What comments of the code say, and the code does not keep *)

\* ChainWatch: a spawned session whose first turns all fail halts the chain.
FailingSessionHalts == \A s \in Sess \ {Root} : errored[s] >= WatchTurns => halted # {}
=============================================================================
