--------------------------- MODULE PlanRunProofs ---------------------------
(***************************************************************************)
(* PlanRun for any set of plans that validation accepts, any rules on      *)
(* phases, any number of versions, recuts, crashes and resumes.            *)
(*                                                                         *)
(* The first invariant (LedgerIInv) holds however many resumes overlap: a  *)
(* result is in the ledger, a layer starts when the layers before it are   *)
(* decided, an end without error has the output.  The second (RunIInv)     *)
(* needs one resume at a time: the ledger holds one verdict on each node,  *)
(* the one its dependencies give, and the driver's memory agrees with it.  *)
(***************************************************************************)
EXTENDS PlanRun, FiniteSetTheorems, WellFoundedInduction, TLAPS

\* The smallest of some numbers.
LEMMA Least ==
  ASSUME NEW S \in SUBSET Nat, NEW x \in S
  PROVE  \E m \in S : \A y \in S : m <= y
<1>1. PICK m \in S : \A y \in S : ~ (<<y, m>> \in OpToRel(<, Nat))
  BY NatLessThanWellFounded, WFMin, Zenon
<1>2. \A y \in S : ~ (y < m)
  BY <1>1 DEF OpToRel
<1> QED
  BY <1>2

\* One round of the sort: the nodes processed so far and those that are ready.
Round(wf, f, k) == IF k = 0 THEN {} ELSE f[k - 1] \cup Ready(wf, f[k - 1])

LEMMA RoundsExist ==
  ASSUME NEW wf, NEW n \in Nat
  PROVE  \E f : f = [k \in 0 .. n |-> Round(wf, f, k)]
<1> DEFINE Bad == {j \in Nat : ~ \E f : f = [k \in 0 .. j |-> Round(wf, f, k)]}
<1> SUFFICES ASSUME n \in Bad PROVE FALSE
  OBVIOUS
<1>1. PICK m \in Bad : \A y \in Bad : m <= y
  BY Least
<1>2. CASE m = 0
  <2> DEFINE f == [k \in 0 .. 0 |-> {}]
  <2>1. f = [k \in 0 .. 0 |-> Round(wf, f, k)]
    BY DEF Round
  <2> QED
    BY <1>2, <2>1
<1>3. CASE m # 0
  <2>1. m - 1 \in Nat /\ m - 1 \notin Bad
    BY <1>1, <1>3
  <2>2. PICK f : f = [k \in 0 .. m - 1 |-> Round(wf, f, k)]
    BY <2>1
  <2> DEFINE g == [k \in 0 .. m |-> IF k = m THEN Round(wf, f, m) ELSE f[k]]
  <2>3. ASSUME NEW k \in 0 .. m PROVE g[k] = Round(wf, g, k)
    <3>1. k # 0 => g[k - 1] = f[k - 1]
      BY <1>3
    <3>2. CASE k = m
      BY <1>3, <3>1, <3>2 DEF Round
    <3>3. CASE k # m
      <4>1. f[k] = Round(wf, f, k)
        BY <2>2, <3>3, <2>1
      <4> QED
        BY <4>1, <3>1, <3>3 DEF Round
    <3> QED
      BY <3>2, <3>3
  <2> HIDE DEF Bad
  <2>4. g = [k \in 0 .. m |-> Round(wf, g, k)]
    BY <2>3
  <2> HIDE DEF g
  <2>5. m \notin Bad
    BY <2>4 DEF Bad
  <2> QED
    BY <2>5, <1>1
<1> QED
  BY <1>2, <1>3

\* The rounds of topological_sort.
LEMMA ProcessedRounds ==
  ASSUME NEW wf, IsFiniteSet(wf.nodes)
  PROVE  /\ Cardinality(wf.nodes) \in Nat
         /\ Processed(wf)[0] = {}
         /\ \A k \in 1 .. Cardinality(wf.nodes) :
              Processed(wf)[k] = Processed(wf)[k - 1] \cup Ready(wf, Processed(wf)[k - 1])
<1>1. Cardinality(wf.nodes) \in Nat
  BY FS_CardinalityType
<1> DEFINE N == Cardinality(wf.nodes)
           P == Processed(wf)
<1>2. P = CHOOSE f : f = [k \in 0 .. N |-> IF k = 0 THEN {} ELSE f[k - 1] \cup Ready(wf, f[k - 1])]
  BY DEF Processed
<1>3. \E f : f = [k \in 0 .. N |-> IF k = 0 THEN {} ELSE f[k - 1] \cup Ready(wf, f[k - 1])]
  <2>1. PICK f : f = [k \in 0 .. N |-> Round(wf, f, k)]
    BY <1>1, RoundsExist
  <2>2. f = [k \in 0 .. N |-> IF k = 0 THEN {} ELSE f[k - 1] \cup Ready(wf, f[k - 1])]
    BY <2>1 DEF Round
  <2> QED
    BY <2>2
<1>4. P = [k \in 0 .. N |-> IF k = 0 THEN {} ELSE P[k - 1] \cup Ready(wf, P[k - 1])]
  BY <1>2, <1>3
<1> HIDE DEF P
<1>5. P[0] = {}
  BY <1>1, <1>4
<1>6. ASSUME NEW k \in 1 .. N PROVE P[k] = P[k - 1] \cup Ready(wf, P[k - 1])
  <2>1. k \in 0 .. N /\ k # 0
    BY <1>1
  <2> QED
    BY <1>4, <2>1
<1> QED
  BY <1>1, <1>5, <1>6 DEF P

\* A node of a layer has all its dependencies in earlier ones.
LEMMA LayerNodes ==
  ASSUME NEW wf, IsFiniteSet(wf.nodes),
         NEW k \in 1 .. Cardinality(wf.nodes), NEW n \in Layer(wf, k)
  PROVE  n \in wf.nodes /\ wf.deps[n] \subseteq Processed(wf)[k - 1]
BY ProcessedRounds DEF Layer, Ready

\* What is processed belongs to a layer.
LEMMA InSomeLayer ==
  ASSUME NEW wf, IsFiniteSet(wf.nodes),
         NEW k \in 0 .. Cardinality(wf.nodes), NEW n \in Processed(wf)[k]
  PROVE  \E j \in 1 .. k : n \in Layer(wf, j)
<1> DEFINE S == {j \in 0 .. k : n \in Processed(wf)[j]}
<1>1. k \in Nat /\ k \in S /\ S \subseteq Nat
  BY ProcessedRounds
<1>2. PICK j \in S : \A y \in S : j <= y
  BY <1>1, Least
<1>3. j # 0
  BY ProcessedRounds
<1>4. j \in 1 .. k /\ j - 1 \in 0 .. k /\ j - 1 \notin S
  BY <1>1, <1>2, <1>3
<1>5. n \in Layer(wf, j)
  BY <1>4 DEF Layer
<1> QED
  BY <1>4, <1>5

\* There are at most as many layers as nodes.
LEMMA DepthIsBounded ==
  ASSUME NEW wf, IsFiniteSet(wf.nodes)
  PROVE  Depth(wf) \in Nat /\ Depth(wf) <= Cardinality(wf.nodes)
<1> DEFINE N == Cardinality(wf.nodes)
           K == {k \in 1 .. N : Layer(wf, k) # {}}
<1>1. N \in Nat
  BY FS_CardinalityType
<1>2. IsFiniteSet(1 .. N) /\ Cardinality(1 .. N) = N
  BY <1>1, FS_Interval
<1>3. K \subseteq 1 .. N
  OBVIOUS
<1>4. IsFiniteSet(K) /\ Cardinality(K) <= N /\ Cardinality(K) \in Nat
  <2> HIDE DEF K
  <2> QED
    BY <1>2, <1>3, FS_Subset, FS_CardinalityType
<1> QED
  BY <1>4 DEF Depth

-----------------------------------------------------------------------------
(* The invariants *)

Value == {"yes", "no", "none"}
Seed == [results : [Node -> Value], skipped : SUBSET Node]
Loaded == [run : RunState, seed : Seed]
Tally == [done : Nat, versions : Nat, cuts : [Node -> Nat], misfire : BOOLEAN,
          crashes : Nat, resumes : Nat]

\* A version is being executed; a checkpoint is being written; the version is over.
Executing == pc \in {"layer", "gate", "collect", "blob", "mark"}
Writing == pc \in {"blob", "mark"}
Over == pc \in {"return", "drain", "decide", "replan"}

\* The types.
Types ==
  /\ pc \in {"down", "layer", "gate", "collect", "blob", "mark", "return", "drain",
             "decide", "replan"}
  /\ run \in RunState \cup {NoRun} /\ saved \in RunState \cup {NoRun}
  /\ executed \in Nat
  /\ results \in [Node -> Value]
  /\ fresh \in SUBSET Node /\ skipped \in SUBSET Node /\ todo \in SUBSET Node
  /\ got \in SUBSET Node /\ marks \in SUBSET Node
  /\ at \in Nat
  /\ cur \in Grain \cup {NoGrain}
  /\ outcome \in [kind : {"ok", "granule", "interface", "enforce", "other"},
                  node : Node \cup {"none"}]
  /\ outcome.kind = "granule" => outcome.node \in Node
  /\ grains \in SUBSET Grain
  /\ finished \in SUBSET {"ok", "error"}
  /\ loaded \in Seq(Loaded) /\ Len(loaded) <= Overlap
  /\ tally \in Tally
  /\ pc # "down" => run \in RunState /\ saved \in RunState
  /\ pc = "down" => skipped = {}
  /\ loaded # << >> => saved \in RunState

\* A checkpoint of the value v with its content; it tells completion from skipping.
Holds(h, n, v) == \E g \in grains : g.of = h /\ g.node = n /\ g.value = v /\ g.whole

Shapes == \A g \in grains : g.status = "completed" <=> g.value # "none"

\* Results are in the ledger, those of a running version and those that a resume has read.
Backed ==
  /\ pc # "down" => \A n \in Node : results[n] # "none" => Holds(Hash(run), n, results[n])
  /\ \A i \in DOMAIN loaded : \A n \in Node :
       loaded[i].seed.results[n] # "none" =>
         Holds(Hash(loaded[i].run), n, loaded[i].seed.results[n])

\* The checkpoint being written.
Pending ==
  Writing =>
    /\ cur \in Grain /\ cur.of = Hash(run) /\ cur.status = "completed" /\ cur.value # "none"
    /\ cur.node \in Layer(plan, at)
    /\ cur.node \notin plan.compute => todo = {}
    /\ IF pc = "blob" THEN cur \in grains /\ ~cur.whole
                      ELSE Holds(cur.of, cur.node, cur.value)

Done(n) == results[n] # "none" \/ n \in skipped

\* Layer by layer: earlier layers are done, and of the present one each node is done, waits or
\* is the one being written.
Layered ==
  /\ Executing =>
       /\ at \in 1 .. Cardinality(plan.nodes) + 1
       /\ \A k \in 1 .. Cardinality(plan.nodes) : k < at => \A n \in Layer(plan, k) : Done(n)
       /\ pc # "layer" =>
            /\ at <= Cardinality(plan.nodes)
            /\ todo \cup got \subseteq Layer(plan, at)
            /\ got \cap plan.compute = {}
            /\ \A n \in Layer(plan, at) : Done(n) \/ n \in todo \cup got \/ (Writing /\ n = cur.node)
  /\ pc = "collect" => todo = {}
  /\ pc \in {"down", "layer"} \/ Over => todo = {} /\ got = {}

\* What the driver decides on.
Verdict ==
  /\ pc \in {"return", "drain", "decide"} /\ outcome.kind = "ok" => results[plan.out] # "none"
  /\ pc = "decide" => saved = run

LedgerIInv == Types /\ Shapes /\ Backed /\ Pending /\ Layered /\ Verdict

\* What the ledger knows of the plan of its last plan checkpoint.
Known(status, v) ==
  {n \in Node : \E g \in grains : g.of = Hash(saved) /\ g.node = n /\ g.status = status /\ g.value = v}
Yes == Known("completed", "yes")
No == Known("completed", "no")
Skip == Known("skipped", "none")

\* A node whose dependencies and observed node are known, and whether it runs.
Based(p, n, K) ==
  /\ n \in p.nodes /\ p.deps[n] \subseteq K
  /\ p.when[n] = None \/ p.when[n].node \notin p.nodes \/ p.when[n].node \in K
Chosen(p, n, Y, S) ==
  IF p.when[n] = None THEN p.deps[n] \cap S = {}
  ELSE IF p.when[n].op = "Contains" THEN p.when[n].node \in Y ELSE p.when[n].node \notin Y

\* The ledger holds one verdict on a node, and it is the one its dependencies give.
Consistent(p, Y, N, S) ==
  /\ Y \cap N = {} /\ Y \cap S = {} /\ N \cap S = {}
  /\ \A n \in Y \cup N \cup S : Based(p, n, Y \cup N \cup S) /\ (n \in S <=> ~Chosen(p, n, Y, S))

\* The ledger is at the version of its last plan checkpoint, and knows it consistently.
Current ==
  IF saved = NoRun THEN grains = {}
  ELSE /\ \A g \in grains : g.of[1] <= saved.version
       /\ Consistent(saved.plan, Yes, No, Skip)

\* One driver or one resume at a time, and it continues the last plan checkpoint.
Single ==
  /\ pc # "down" =>
       /\ loaded = << >>
       /\ run.version = saved.version /\ run.plan = saved.plan /\ run.replans = saved.replans
       /\ pc # "replan" => run.recuts = saved.recuts
  /\ loaded # << >> => Head(loaded) = [run |-> saved, seed |-> Replay]

\* The results of the running version are those of the ledger.
Mirrors ==
  /\ Executing =>
       /\ \A n \in Node : ~(Writing /\ n = cur.node) =>
            (results[n] = "yes" <=> n \in Yes) /\ (results[n] = "no" <=> n \in No)
       /\ skipped = Skip
       /\ Writing => cur.node \in Yes \cup No /\ results[cur.node] = "none"
       /\ todo \cap got = {}
       /\ \A n \in todo \cup got :
            /\ n \notin Yes \cup No \cup Skip
            /\ Based(plan, n, Yes \cup No \cup Skip) /\ Chosen(plan, n, Yes, Skip)
  /\ Over => (\A n \in Node : results[n] # "none" => n \in Yes \cup No) /\ skipped \subseteq Skip

\* The counters in the ledger are the counts over the run.
Counted ==
  IF saved = NoRun THEN tally.versions = 0 /\ tally.cuts = [n \in Node |-> 0]
  ELSE /\ tally.versions = saved.replans + 1 /\ saved.replans <= MaxReplan
       /\ tally.cuts = saved.recuts /\ \A n \in Node : saved.recuts[n] <= MaxRecuts
       /\ pc = "replan" =>
            /\ saved.replans < MaxReplan
            /\ run.recuts = IF outcome.kind = "granule" /\ Atomic(outcome.node)
                              THEN [saved.recuts EXCEPT ![outcome.node] = @ + 1] ELSE saved.recuts
            /\ \A n \in Node : run.recuts[n] <= MaxRecuts

RunIInv == LedgerIInv /\ Current /\ Single /\ Mirrors /\ Counted

-----------------------------------------------------------------------------
(* The types are kept *)

LEMMA Params ==
  /\ MaxReplan \in Nat /\ MaxRecuts \in Nat /\ Overlap \in Nat
  /\ MaxCrashes \in Nat /\ MaxResumes \in Nat
  /\ Large \subseteq Node
  /\ NoRun \notin RunState
BY PlanRunAssumption, NoRunAssumption

LEMMA PlanFacts ==
  ASSUME NEW p \in Plans
  PROVE  /\ IsFiniteSet(p.nodes) /\ Cardinality(p.nodes) \in Nat
         /\ p.nodes \subseteq Node /\ p.out \in Node
         /\ \A n \in p.nodes : p.deps[n] \subseteq p.nodes
         /\ p.when \in [Node -> {None} \cup [node : Node, op : {"Contains", "NotContains"}]]
         /\ \A k \in 1 .. Cardinality(p.nodes) : \A n \in Layer(p, k) :
              p.when[n] = None \/ p.when[n].node \notin p.nodes \ Processed(p)[k - 1]
BY PlanRunAssumption, FS_CardinalityType DEF Valid

\* The plan of a driver is one of the plans.
LEMMA DriverPlan ==
  ASSUME Types, pc # "down"
  PROVE  /\ run \in RunState /\ plan \in Plans /\ run.version \in Nat
         /\ Hash(run) \in Nat \X Plans
BY DEF Types, RunState, plan, Hash

LEMMA LayerInNode ==
  ASSUME NEW p \in Plans, NEW k \in 1 .. Cardinality(p.nodes)
  PROVE  Layer(p, k) \subseteq p.nodes /\ Layer(p, k) \subseteq Node
BY PlanFacts, LayerNodes

\* What a resume reads.
LEMMA ReplayReads ==
  ASSUME Types, saved \in RunState
  PROVE  /\ Replay \in Seed
         /\ \A n \in Node : Replay.results[n] # "none" =>
              \E g \in Of(Hash(saved)) :
                g.status = "completed" /\ g.node = n /\ g.value = Replay.results[n]
<1> DEFINE done == {g \in Of(Hash(saved)) : g.status = "completed"}
           r == [n \in Node |-> IF \E g \in done : g.node = n
                                  THEN (CHOOSE g \in done : g.node = n).value ELSE "none"]
           s == {g.node : g \in {h \in Of(Hash(saved)) : h.status = "skipped"}}
<1>1. Replay = [results |-> r, skipped |-> s]
  BY DEF Replay
<1>2. Of(Hash(saved)) \subseteq Grain
  BY DEF Types, Of
<1>3. ASSUME NEW n \in Node
      PROVE  /\ r[n] \in Value
             /\ r[n] # "none" => \E g \in done : g.node = n /\ g.value = r[n]
  <2>1. CASE \E g \in done : g.node = n
    <3> DEFINE c == CHOOSE g \in done : g.node = n
    <3>1. c \in done /\ c.node = n
      BY <2>1
    <3>2. r[n] = c.value
      BY <2>1
    <3>3. c \in Grain
      BY <3>1, <1>2
    <3> HIDE DEF r, c
    <3>4. c.value \in Value
      BY <3>3 DEF Grain, Value
    <3> QED
      BY <3>1, <3>2, <3>4
  <2>2. CASE ~ \E g \in done : g.node = n
    <3>1. r[n] = "none"
      BY <2>2
    <3> HIDE DEF r
    <3> QED
      BY <3>1 DEF Value
  <2> QED
    BY <2>1, <2>2
<1>4. s \in SUBSET Node
  BY <1>2 DEF Grain
<1>5. r \in [Node -> Value]
  BY <1>3
<1> HIDE DEF r, s, done
<1>6. Replay \in Seed
  BY <1>1, <1>4, <1>5 DEF Seed
<1>7. ASSUME NEW n \in Node, Replay.results[n] # "none"
      PROVE  \E g \in Of(Hash(saved)) :
               g.status = "completed" /\ g.node = n /\ g.value = Replay.results[n]
  BY <1>1, <1>3, <1>7 DEF done
<1> QED
  BY <1>6, <1>7

\* The checkpoint of a node.
LEMMA CheckpointGrain ==
  ASSUME Types, pc # "down", NEW n \in Node, CheckpointNode(n)
  PROVE  /\ cur' \in Grain /\ cur'.of = Hash(run) /\ cur'.node = n
         /\ cur'.status = "completed" /\ cur'.value \in {"yes", "no"}
         /\ cur'.whole <=> n \notin Large
         /\ grains' = grains \cup {cur'}
         /\ pc' = IF n \in Large THEN "blob" ELSE "mark"
<1>1. PICK v \in {"yes", "no"} :
        cur' = [of |-> Hash(run), node |-> n, status |-> "completed", value |-> v,
                whole |-> n \notin Large]
  BY DEF CheckpointNode
<1>2. cur' \in Grain
  <2>1. Hash(run) \in Nat \X Plans /\ (n \notin Large) \in BOOLEAN
    BY DriverPlan
  <2> QED
    BY <1>1, <2>1 DEF Grain
<1>3. grains' = grains \cup {cur'} /\ pc' = IF n \in Large THEN "blob" ELSE "mark"
  BY DEF CheckpointNode
<1> QED
  BY <1>1, <1>2, <1>3

\* The checkpoints of the nodes that a layer skips.
LEMMA SkipGrains ==
  ASSUME Types, Layered, PlanLayer
  PROVE  \E D \in SUBSET Layer(plan, at) :
           /\ at \in 1 .. Cardinality(plan.nodes)
           /\ D = {n \in Layer(plan, at) : ~Runs(plan, n, results, skipped)}
           /\ skipped' = skipped \cup D
           /\ grains' = grains \cup {[of |-> Hash(run), node |-> n, status |-> "skipped",
                                     value |-> "none", whole |-> TRUE] : n \in D \ skipped}
           /\ todo' = {n \in Layer(plan, at) \ D : results[n] = "none"}
<1> DEFINE L == Layer(plan, at)
           runs == {n \in L : Runs(plan, n, results, skipped)}
           D == {n \in L : ~Runs(plan, n, results, skipped)}
<1>1. pc = "layer" /\ at <= Depth(plan)
  BY DEF PlanLayer
<1>2. at \in 1 .. Cardinality(plan.nodes)
  <2>1. plan \in Plans
    BY <1>1, DriverPlan
  <2>2. at \in 1 .. Cardinality(plan.nodes) + 1
    BY <1>1 DEF Layered, Executing
  <2> QED
    BY <1>1, <2>1, <2>2, PlanFacts, DepthIsBounded
<1>3. L \ runs = D /\ runs = L \ D
  OBVIOUS
<1>4. /\ skipped' = skipped \cup (L \ runs)
      /\ grains' = grains \cup {[of |-> Hash(run), node |-> n, status |-> "skipped",
                                value |-> "none", whole |-> TRUE] : n \in (L \ runs) \ skipped}
      /\ todo' = {n \in runs : results[n] = "none"}
  BY DEF PlanLayer, NewlySkipped, ToRun
<1> QED
  BY <1>2, <1>3, <1>4

LEMMA RunUpdates ==
  ASSUME NEW r \in RunState
  PROVE  /\ \A k \in Nat : \A b \in SUBSET Budget :
              [r EXCEPT !.nodes = @ + k, !.spent = @ \cup b] \in RunState
         /\ \A n \in Node : [r EXCEPT !.registry = @ \cup {n}] \in RunState
         /\ \A n \in Node : [r EXCEPT !.memory = @ \cup {n}, !.recuts[n] = @ + 1] \in RunState
         /\ \A p \in Plans : [r EXCEPT !.version = @ + 1, !.replans = @ + 1, !.plan = p] \in RunState
<1>1. /\ r.version \in Nat /\ r.replans \in Nat /\ r.nodes \in Nat /\ r.plan \in Plans
      /\ r.spent \in SUBSET Budget /\ r.registry \in SUBSET Node /\ r.memory \in SUBSET Node
      /\ r.recuts \in [Node -> Nat]
  BY DEF RunState
<1>2. ASSUME NEW k \in Nat, NEW b \in SUBSET Budget
      PROVE  [r EXCEPT !.nodes = @ + k, !.spent = @ \cup b] \in RunState
  <2>1. r.nodes + k \in Nat /\ r.spent \cup b \in SUBSET Budget
    BY <1>1
  <2> QED
    BY <2>1 DEF RunState
<1>3. ASSUME NEW n \in Node PROVE [r EXCEPT !.registry = @ \cup {n}] \in RunState
  <2>1. r.registry \cup {n} \in SUBSET Node
    BY <1>1
  <2> QED
    BY <2>1 DEF RunState
<1>4. ASSUME NEW n \in Node
      PROVE  [r EXCEPT !.memory = @ \cup {n}, !.recuts[n] = @ + 1] \in RunState
  <2>1. r.memory \cup {n} \in SUBSET Node /\ [r.recuts EXCEPT ![n] = @ + 1] \in [Node -> Nat]
    BY <1>1
  <2> QED
    BY <2>1 DEF RunState
<1>5. ASSUME NEW p \in Plans
      PROVE  [r EXCEPT !.version = @ + 1, !.replans = @ + 1, !.plan = p] \in RunState
  <2>1. r.version + 1 \in Nat /\ r.replans + 1 \in Nat
    BY <1>1
  <2> QED
    BY <2>1 DEF RunState
<1> QED
  BY <1>2, <1>3, <1>4, <1>5

LEMMA RecutType ==
  ASSUME Types, pc # "down"
  PROVE  Recut \in RunState
<1>1. run \in RunState
  BY DEF Types
<1>2. CASE outcome.kind = "granule" /\ Atomic(outcome.node)
  <2>1. outcome.node \in Node
    BY <1>2 DEF Types
  <2>2. Recut = [run EXCEPT !.memory = @ \cup {outcome.node}, !.recuts[outcome.node] = @ + 1]
    BY <1>2 DEF Recut
  <2> QED
    BY <1>1, <2>1, <2>2, RunUpdates
<1>3. CASE ~(outcome.kind = "granule" /\ Atomic(outcome.node))
  BY <1>1, <1>3 DEF Recut
<1> QED
  BY <1>2, <1>3

LEMMA TallyUpdates ==
  ASSUME NEW t \in Tally
  PROVE  /\ [t EXCEPT !.done = 1, !.versions = 1] \in Tally
         /\ [t EXCEPT !.crashes = @ + 1] \in Tally
         /\ [t EXCEPT !.resumes = @ + 1] \in Tally
         /\ [t EXCEPT !.done = @ + 1] \in Tally
         /\ \A b \in BOOLEAN : [t EXCEPT !.misfire = b] \in Tally
         /\ \A c \in [Node -> Nat] : [t EXCEPT !.versions = @ + 1, !.cuts = c] \in Tally
<1>1. /\ t.done \in Nat /\ t.versions \in Nat /\ t.cuts \in [Node -> Nat] /\ t.misfire \in BOOLEAN
      /\ t.crashes \in Nat /\ t.resumes \in Nat
  BY DEF Tally
<1>2. t.crashes + 1 \in Nat /\ t.resumes + 1 \in Nat /\ t.done + 1 \in Nat /\ t.versions + 1 \in Nat
  BY <1>1
<1> QED
  BY <1>2 DEF Tally

\* The executor's part of the types; what an end of the driver leaves.
LEMMA GoneTypes ==
  ASSUME Types, Gone
  PROVE  /\ run' = NoRun /\ executed' \in Nat /\ fresh' \in SUBSET Node
         /\ results' \in [Node -> Value] /\ skipped' = {} /\ todo' = {} /\ got' = {}
         /\ at' \in Nat /\ cur' \in Grain \cup {NoGrain} /\ pc' = "down"
         /\ outcome' = Ok
BY DEF Gone, NoResults, Value

LEMMA OkOutcome ==
  /\ Ok \in [kind : {"ok", "granule", "interface", "enforce", "other"}, node : Node \cup {"none"}]
  /\ Ok.kind = "ok"
BY DEF Ok

LEMMA FailureOutcome ==
  ASSUME NEW k \in {"granule", "interface", "enforce", "other"}, NEW n \in Node \cup {"none"}
  PROVE  /\ Failure(k, n) \in
              [kind : {"ok", "granule", "interface", "enforce", "other"}, node : Node \cup {"none"}]
         /\ Failure(k, n).kind = k /\ Failure(k, n).node = n
BY DEF Failure

LEMMA TypesStart ==
  ASSUME Types, NEW p \in Plans, Start(p)
  PROVE  Types'
<1>1. run' \in RunState
  <2>1. [n \in Node |-> 0] \in [Node -> Nat]
    OBVIOUS
  <2> QED
    BY <2>1 DEF Start, RunState, Budget
<1>2. results' \in [Node -> Value]
  BY DEF Start, Enter, Nothing, NoResults, Value
<1>3. tally' \in Tally
  BY TallyUpdates DEF Start, Types
<1> QED
  BY <1>1, <1>2, <1>3 DEF Types, Start, Enter, Nothing

LEMMA TypesLoad ==
  ASSUME Types, Load
  PROVE  Types'
<1>1. saved \in RunState
  BY DEF Types, Load
<1>2. [run |-> Restored, seed |-> Replay] \in Loaded
  BY <1>1, ReplayReads DEF Restored, Loaded
<1>3. tally' \in Tally
  BY TallyUpdates DEF Load, Types
<1>4. loaded' \in Seq(Loaded) /\ Len(loaded') <= Overlap
  BY <1>2, Params DEF Load, Types
<1> QED
  BY <1>1, <1>3, <1>4 DEF Types, Load, driver, exec, ledger

LEMMA TypesOpen ==
  ASSUME Types, Open
  PROVE  Types'
<1>1. /\ loaded # << >> /\ saved \in RunState /\ loaded' = Tail(loaded)
      /\ UNCHANGED <<saved, grains, finished, marks, tally>>
  BY DEF Types, Open, ledger
<1>2. loaded \in Seq(Loaded) /\ Len(loaded) <= Overlap
  BY DEF Types
<1>3. loaded' \in Seq(Loaded) /\ Len(loaded') <= Overlap
  BY <1>1, <1>2, Params
<1>4. Head(loaded) \in Loaded
  BY <1>1, <1>2
<1>5. CASE UNCHANGED <<pc, driver, exec>>
  BY <1>1, <1>3, <1>5 DEF Types, driver, exec
<1>6. CASE /\ run' = Head(loaded).run /\ executed' = 0 /\ fresh' = {} /\ outcome' = Ok
           /\ Enter(Head(loaded).seed)
  <2>1. Head(loaded).run \in RunState /\ Head(loaded).seed \in Seed
    BY <1>4 DEF Loaded
  <2>2. Head(loaded).seed.results \in [Node -> Value] /\ Head(loaded).seed.skipped \in SUBSET Node
    BY <2>1 DEF Seed
  <2> QED
    BY <1>1, <1>3, <1>6, <2>1, <2>2, OkOutcome DEF Types, Enter
<1> QED
  BY <1>5, <1>6 DEF Open

LEMMA TypesExecute ==
  ASSUME Types, Pending, Layered, Execute
  PROVE  Types'
<1>1. CASE PlanLayer
  <2>1. pc = "layer" /\ pc' = "gate" /\ plan \in Plans /\ Hash(run) \in Nat \X Plans
    BY <1>1, DriverPlan DEF PlanLayer
  <2>2. PICK D \in SUBSET Layer(plan, at) :
          /\ at \in 1 .. Cardinality(plan.nodes)
          /\ skipped' = skipped \cup D
          /\ grains' = grains \cup {[of |-> Hash(run), node |-> n, status |-> "skipped",
                                    value |-> "none", whole |-> TRUE] : n \in D \ skipped}
          /\ todo' = {n \in Layer(plan, at) \ D : results[n] = "none"}
    BY <1>1, SkipGrains
  <2>3. Layer(plan, at) \subseteq Node
    BY <2>1, <2>2, LayerInNode
  <2>4. \A n \in Node : [of |-> Hash(run), node |-> n, status |-> "skipped",
                         value |-> "none", whole |-> TRUE] \in Grain
    BY <2>1 DEF Grain
  <2>5. grains' \in SUBSET Grain
    BY <2>2, <2>3, <2>4 DEF Types
  <2>6. skipped' \in SUBSET Node /\ todo' \in SUBSET Node
    BY <2>2, <2>3 DEF Types
  <2> QED
    BY <1>1, <2>1, <2>5, <2>6 DEF Types, PlanLayer, driver
<1>2. CASE CheckpointFails
  BY <1>2, FailureOutcome DEF Types, CheckpointFails, Return, ledger
<1>3. CASE Output
  BY <1>3, FailureOutcome, OkOutcome DEF Types, Output, Return, ledger
<1>4. CASE Delegate
  BY <1>4 DEF Types, Delegate, driver, ledger
<1>5. CASE Collected
  BY <1>5 DEF Types, Collected, driver, ledger
<1>6. CASE Blob
  <2>1. cur \in Grain
    BY <1>6 DEF Blob, Pending, Writing
  <2>2. [cur EXCEPT !.whole = TRUE] \in Grain
    BY <2>1 DEF Grain
  <2>3. grains' \in SUBSET Grain
    BY <1>6, <2>2 DEF Blob, Types
  <2> QED
    BY <1>6, <2>3 DEF Types, Blob, driver
<1>7. CASE Mark
  <2>1. cur \in Grain
    BY <1>7 DEF Mark, Pending, Writing
  <2>2. cur.node \in Node /\ cur.value \in Value
    BY <2>1 DEF Grain, Value
  <2>3. results' \in [Node -> Value] /\ executed' \in Nat /\ fresh' \in SUBSET Node
    BY <1>7, <2>2 DEF Mark, Types
  <2>4. marks' \in SUBSET Node
    BY <1>7, <2>2 DEF Mark, Types
  <2>5. tally' \in Tally
    BY <1>7, TallyUpdates DEF Mark, Types
  <2>6. /\ pc' \in {"gate", "collect", "return"} /\ pc # "down"
        /\ cur' = NoGrain /\ todo' \in SUBSET Node /\ got' \in SUBSET Node
        /\ outcome' = outcome \/ outcome' = Failure("other", "none")
    BY <1>7 DEF Mark, Return, Types
  <2>7. /\ outcome' \in [kind : {"ok", "granule", "interface", "enforce", "other"},
                         node : Node \cup {"none"}]
        /\ outcome'.kind = "granule" => outcome'.node \in Node
    BY <2>6, FailureOutcome DEF Types
  <2>8. UNCHANGED <<run, skipped, at, saved, grains, finished, loaded>>
    BY <1>7 DEF Mark, ledger
  <2> HIDE DEF Mark
  <2> QED
    BY <2>3, <2>4, <2>5, <2>6, <2>7, <2>8 DEF Types
<1>8. ASSUME NEW n \in Node, Compute(n) \/ Collect(n) PROVE Types'
  <2>1. pc \in {"gate", "collect"} /\ pc # "down"
    BY <1>8 DEF Compute, Collect
  <2>2. UNCHANGED <<run, executed, fresh, results, skipped, at, saved, finished, marks, loaded, tally>>
    BY <1>8 DEF Compute, Collect
  <2>3. CASE CheckpointNode(n) /\ outcome' = outcome /\ todo' \subseteq todo /\ got' \subseteq got
    <3>1. cur' \in Grain /\ grains' = grains \cup {cur'} /\ pc' \in {"blob", "mark"}
      BY <2>1, <2>3, CheckpointGrain
    <3> QED
      BY <2>1, <2>2, <2>3, <3>1 DEF Types
  <2>4. CASE \E kind \in {"granule", "interface", "enforce"} : Return(Failure(kind, n)) /\ UNCHANGED grains
    <3>1. PICK kind \in {"granule", "interface", "enforce"} : Return(Failure(kind, n)) /\ UNCHANGED grains
      BY <2>4
    <3> QED
      BY <2>1, <2>2, <3>1, FailureOutcome DEF Types, Return
  <2> QED
    BY <1>8, <2>3, <2>4 DEF Compute, Collect
<1>9. ASSUME NEW n \in Node, Gate(n) PROVE Types'
  <2>1. /\ pc = "gate"
        /\ UNCHANGED <<run, executed, fresh, results, skipped, at, saved, grains, finished, marks, loaded>>
    BY <1>9 DEF Gate, ledger
  <2>2. CASE /\ todo' = todo \ {n} /\ got' = got \cup {n}
             /\ UNCHANGED <<pc, cur, outcome, tally>>
    BY <2>1, <2>2 DEF Types
  <2>3. CASE \/ Return(Failure("enforce", "none"))
             \/ Return(Failure("other", "none"))
    <3> DEFINE b == tally.misfire \/ \A m \in Requires[n] : m \in plan.nodes /\ results[m] # "none"
    <3>1. tally' \in {tally, [tally EXCEPT !.misfire = b]}
      BY <1>9 DEF Gate
    <3>2. b \in BOOLEAN /\ tally \in Tally
      BY DEF Types, Tally
    <3> HIDE DEF b
    <3>3. tally' \in Tally
      BY <3>1, <3>2, TallyUpdates
    <3>4. /\ outcome' \in {Failure("enforce", "none"), Failure("other", "none")}
          /\ pc' = "return" /\ todo' = {} /\ got' = {} /\ cur' = NoGrain
      BY <2>3 DEF Return
    <3>5. /\ outcome' \in [kind : {"ok", "granule", "interface", "enforce", "other"},
                           node : Node \cup {"none"}]
          /\ outcome'.kind # "granule"
      BY <3>4, FailureOutcome
    <3> QED
      BY <2>1, <3>3, <3>4, <3>5 DEF Types
  <2> QED
    BY <1>9, <2>2, <2>3 DEF Gate
<1> QED
  BY <1>1, <1>2, <1>3, <1>4, <1>5, <1>6, <1>7, <1>8, <1>9 DEF Execute

\* An end of the driver, whoever brings it about.
LEMMA TypesGone ==
  ASSUME Types, Gone, saved' = saved, grains' = grains, loaded' \in {loaded, << >>},
         finished' \in SUBSET {"ok", "error"}, marks' \in SUBSET Node, tally' \in Tally
  PROVE  Types'
<1>1. loaded' \in Seq(Loaded) /\ Len(loaded') <= Overlap /\ (loaded' # << >> => saved \in RunState)
  <2>1. CASE loaded' = loaded
    BY <2>1 DEF Types
  <2>2. CASE loaded' = << >>
    BY <2>2, Params
  <2> QED
    BY <2>1, <2>2
<1> QED
  BY <1>1, GoneTypes, OkOutcome DEF Types

LEMMA TypesDrive ==
  ASSUME Types, Drive
  PROVE  Types'
<1>1. CASE Account
  <2>1. /\ pc = "return" /\ pc' = "drain" /\ run \in RunState
        /\ UNCHANGED <<executed, fresh, outcome, exec, ledger, marks, loaded, tally>>
    BY <1>1 DEF Account, Types
  <2>2. run' \in RunState
    <3>1. PICK more \in SUBSET Budget :
            run' = [run EXCEPT !.nodes = @ + executed, !.spent = @ \cup more]
      BY <1>1 DEF Account
    <3>2. executed \in Nat
      BY DEF Types
    <3> QED
      BY <2>1, <3>1, <3>2, RunUpdates
  <2> QED
    BY <2>1, <2>2 DEF Types, exec, ledger
<1>2. CASE WriteState
  <2>1. CASE /\ saved' = run /\ pc' = "decide" /\ UNCHANGED <<driver, exec, finished>>
             /\ UNCHANGED <<grains, marks, loaded, tally>>
    <3>1. run \in RunState
      BY <1>2 DEF WriteState, Types
    <3> QED
      BY <2>1, <3>1 DEF Types, driver, exec
  <2>2. CASE Finish("error") /\ UNCHANGED <<saved, grains, marks, loaded, tally>>
    BY <2>2, TypesGone DEF Finish, Types
  <2> QED
    BY <1>2, <2>1, <2>2 DEF WriteState
<1>3. CASE Decide
  <2>1. CASE (Finish("error") \/ Finish("ok")) /\ UNCHANGED <<saved, grains, marks, loaded, tally>>
    BY <2>1, TypesGone DEF Finish, Types
  <2>2. CASE /\ run' = Recut /\ pc' = "replan" /\ pc = "decide"
             /\ UNCHANGED <<executed, fresh, outcome, exec, finished>>
             /\ UNCHANGED <<saved, grains, marks, loaded, tally>>
    <3>1. run' \in RunState
      BY <2>2, RecutType
    <3> QED
      BY <2>2, <3>1 DEF Types, exec
  <2> QED
    BY <1>3, <2>1, <2>2 DEF Decide
<1>4. CASE Replan
  <2>1. CASE Finish("error") /\ UNCHANGED <<saved, tally, grains, marks, loaded>>
    BY <2>1, TypesGone DEF Finish, Types
  <2>2. ASSUME NEW p \in Plans,
               /\ run' = [run EXCEPT !.version = @ + 1, !.replans = @ + 1, !.plan = p]
               /\ saved' = run'
               /\ Enter(Nothing)
               /\ tally' = [tally EXCEPT !.versions = @ + 1,
                    !.cuts = IF outcome # Ok /\ outcome.kind = "granule" /\ Atomic(outcome.node)
                               THEN [tally.cuts EXCEPT ![outcome.node] = @ + 1] ELSE tally.cuts]
               /\ outcome' = Ok
               /\ UNCHANGED <<executed, fresh, finished>>,
               UNCHANGED <<grains, marks, loaded>>
        PROVE  Types'
    <3>1. run' \in RunState
      BY <1>4, <2>2, RunUpdates DEF Replan, Types
    <3>2. results' \in [Node -> Value] /\ skipped' \in SUBSET Node
      BY <2>2 DEF Enter, Nothing, NoResults, Value
    <3> DEFINE c == IF outcome # Ok /\ outcome.kind = "granule" /\ Atomic(outcome.node)
                      THEN [tally.cuts EXCEPT ![outcome.node] = @ + 1] ELSE tally.cuts
    <3>3. tally \in Tally /\ tally.cuts \in [Node -> Nat]
      BY DEF Types, Tally
    <3>4. c \in [Node -> Nat]
      BY <3>3 DEF Types
    <3>5. tally' = [tally EXCEPT !.versions = @ + 1, !.cuts = c]
      BY <2>2
    <3>6. tally' \in Tally
      <4> HIDE DEF c
      <4> QED
        BY <3>3, <3>4, <3>5, TallyUpdates
    <3> QED
      BY <2>2, <3>1, <3>2, <3>6, OkOutcome DEF Types, Enter
  <2> QED
    BY <1>4, <2>1, <2>2 DEF Replan
<1>5. ASSUME NEW n \in Node, Drain(n) PROVE Types'
  <2>1. CASE Finish("error") /\ UNCHANGED <<marks, saved, grains, loaded, tally>>
    BY <2>1, TypesGone DEF Finish, Types
  <2>2. CASE /\ run' = [run EXCEPT !.registry = @ \cup {n}]
             /\ fresh' = fresh \ {n}
             /\ marks' = marks \cup {n}
             /\ UNCHANGED <<pc, executed, outcome, exec, finished>>
             /\ UNCHANGED <<saved, grains, loaded, tally>>
    <3>1. pc = "drain" /\ run \in RunState
      BY <1>5 DEF Drain, Types
    <3>2. run' \in RunState
      BY <2>2, <3>1, RunUpdates
    <3> QED
      BY <2>2, <3>1, <3>2 DEF Types, exec
  <2> QED
    BY <1>5, <2>1, <2>2 DEF Drain
<1> QED
  BY <1>1, <1>2, <1>3, <1>4, <1>5 DEF Drive

LEMMA TypesStep ==
  ASSUME Types, Pending, Layered, [Next]_vars
  PROVE  Types'
<1>1. CASE Dropped
  BY <1>1, TypesGone DEF Dropped, Finish, Types
<1>2. CASE Crash
  <2>1. tally' \in Tally
    BY <1>2, TallyUpdates DEF Crash, Types
  <2> QED
    BY <1>2, <2>1, TypesGone DEF Crash, ledger, Types
<1>3. CASE UNCHANGED vars
  BY <1>3 DEF vars, driver, exec, ledger, Types
<1> QED
  BY <1>1, <1>2, <1>3, TypesStart, TypesLoad, TypesOpen, TypesExecute, TypesDrive DEF Next

-----------------------------------------------------------------------------
(* Nothing counts before it is in the ledger *)

\* A resume that starts the driver; the next version of the plan.
Opens ==
  /\ loaded # << >> /\ loaded' = Tail(loaded) /\ pc = "down"
  /\ run' = Head(loaded).run /\ outcome' = Ok
  /\ Enter(Head(loaded).seed)
  /\ UNCHANGED <<ledger, marks, tally>>
Replans(p) ==
  /\ pc = "replan"
  /\ run' = [run EXCEPT !.version = @ + 1, !.replans = @ + 1, !.plan = p]
  /\ saved' = run'
  /\ Enter(Nothing)
  /\ tally' = [tally EXCEPT !.versions = @ + 1,
       !.cuts = IF outcome # Ok /\ outcome.kind = "granule" /\ Atomic(outcome.node)
                  THEN [tally.cuts EXCEPT ![outcome.node] = @ + 1] ELSE tally.cuts]
  /\ outcome' = Ok
  /\ UNCHANGED <<grains, finished, marks, loaded>>

\* The version goes on: same plan, same results.
Continues ==
  /\ pc # "down" /\ results' = results
  /\ run'.version = run.version /\ run'.plan = run.plan /\ run'.replans = run.replans

\* What a step does to the run and to the resumes under way.
LEMMA Steps ==
  ASSUME Types, [Next]_vars
  PROVE  /\ \/ pc' = "down" \/ Opens \/ Mark \/ Continues
            \/ \E p \in Plans : Start(p) \/ Replans(p)
         /\ loaded' = loaded \/ Load \/ (loaded' = Tail(loaded) /\ loaded # << >>) \/ loaded' = << >>
<1>1. pc # "down" => run \in RunState
  BY DEF Types
<1>2. ASSUME NEW p \in Plans, Start(p) PROVE loaded' = loaded
  BY <1>2 DEF Start
<1>3. CASE Load
  BY <1>3 DEF Load, Continues, driver, exec
<1>4. CASE Open
  BY <1>4 DEF Open, Opens, Continues, driver, exec
<1>5. CASE Execute
  <2>1. CASE Mark
    BY <2>1 DEF Mark
  <2>2. CASE ~Mark
    BY <1>5, <2>2 DEF Execute, PlanLayer, CheckpointFails, Output, Delegate, Collected, Blob,
      Compute, Gate, Collect, Continues, driver, ledger
  <2> QED
    BY <2>1, <2>2
<1>6. CASE Account
  BY <1>1, <1>6 DEF Account, Continues, exec, RunState
<1>7. CASE WriteState
  BY <1>7 DEF WriteState, Continues, driver, exec, Finish, Gone
<1>8. CASE Decide
  <2>1. run' = Recut => run'.version = run.version /\ run'.plan = run.plan /\ run'.replans = run.replans
    <3>1. CASE outcome.kind = "granule" /\ Atomic(outcome.node)
      <4>1. pc # "down"
        BY <1>8 DEF Decide
      <4> QED
        BY <1>1, <3>1, <4>1 DEF Recut, RunState
    <3>2. CASE ~(outcome.kind = "granule" /\ Atomic(outcome.node))
      BY <3>2 DEF Recut
    <3> QED
      BY <3>1, <3>2
  <2> QED
    BY <1>8, <2>1 DEF Decide, Continues, exec, Finish, Gone
<1>9. CASE Replan
  <2>1. loaded' = loaded
    BY <1>9 DEF Replan
  <2>2. pc' = "down" \/ \E p \in Plans : Replans(p)
    BY <1>9 DEF Replan, Replans, Finish, Gone
  <2> QED
    BY <2>1, <2>2
<1>10. ASSUME NEW n \in Node, Drain(n)
       PROVE  loaded' = loaded /\ (pc' = "down" \/ Continues)
  BY <1>1, <1>10 DEF Drain, Continues, exec, Finish, Gone, RunState
<1>11. CASE Dropped
  BY <1>11 DEF Dropped, Finish, Gone
<1>12. CASE Crash
  BY <1>12 DEF Crash, Gone
<1>13. CASE UNCHANGED vars
  BY <1>13 DEF vars, driver, exec, Continues
<1> QED
  BY <1>2, <1>3, <1>4, <1>5, <1>6, <1>7, <1>8, <1>9, <1>10, <1>11, <1>12, <1>13 DEF Next, Drive

\* Checkpoints with their content stay; what a checkpoint says about a node stays.
LEMMA GrainsStep ==
  ASSUME Types, Shapes, Pending, Layered, [Next]_vars
  PROVE  /\ Shapes'
         /\ \A g \in grains : g.whole => g \in grains'
<1>1. CASE grains' = grains
  BY <1>1 DEF Shapes
<1>2. CASE PlanLayer
  <2>1. PICK D \in SUBSET Layer(plan, at) :
          grains' = grains \cup {[of |-> Hash(run), node |-> n, status |-> "skipped",
                                  value |-> "none", whole |-> TRUE] : n \in D \ skipped}
    BY <1>2, SkipGrains
  <2> QED
    BY <2>1 DEF Shapes
<1>3. ASSUME NEW n \in Node, pc # "down", CheckpointNode(n)
      PROVE  Shapes' /\ \A g \in grains : g.whole => g \in grains'
  BY <1>3, CheckpointGrain DEF Shapes
<1>4. CASE Blob
  <2> DEFINE c == [cur EXCEPT !.whole = TRUE]
  <2>1. cur \in Grain /\ cur \in grains /\ ~cur.whole
    BY <1>4 DEF Blob, Pending, Writing
  <2>2. c.status = cur.status /\ c.value = cur.value
    BY <2>1 DEF Grain
  <2>3. grains' = (grains \ {cur}) \cup {c}
    BY <1>4 DEF Blob
  <2> HIDE DEF c
  <2> QED
    BY <2>1, <2>2, <2>3 DEF Shapes
<1>5. \/ grains' = grains \/ PlanLayer \/ Blob
      \/ \E n \in Node : pc # "down" /\ CheckpointNode(n)
  <2>1. CASE Execute
    BY <2>1 DEF Execute, CheckpointFails, Output, Delegate, Collected, Mark, Compute, Gate, Collect,
      ledger
  <2>2. CASE Drive
    BY <2>2 DEF Drive, Account, WriteState, Decide, Replan, Drain, ledger
  <2> QED
    BY <2>1, <2>2 DEF Next, Start, Load, Open, Dropped, Crash, vars, ledger
<1> QED
  BY <1>1, <1>2, <1>3, <1>4, <1>5

\* So does what they hold.
LEMMA HoldsOn ==
  ASSUME Types, Shapes, Pending, Layered, [Next]_vars, NEW h, NEW n, NEW v, Holds(h, n, v)
  PROVE  \E g \in grains' : g.of = h /\ g.node = n /\ g.value = v /\ g.whole
<1>1. \A g \in grains : g.whole => g \in grains'
  BY GrainsStep
<1> QED
  BY <1>1 DEF Holds

LEMMA BackedStep ==
  ASSUME Types, Shapes, Backed, Pending, Layered, [Next]_vars
  PROVE  Backed'
<1>1. ASSUME pc' # "down", NEW n \in Node, results'[n] # "none"
      PROVE  \E g \in grains' : g.of = Hash(run') /\ g.node = n /\ g.value = results'[n] /\ g.whole
  <2>1. CASE Continues
    <3>1. Holds(Hash(run), n, results[n])
      BY <1>1, <2>1 DEF Continues, Backed
    <3>2. Hash(run') = Hash(run) /\ results'[n] = results[n]
      BY <2>1 DEF Continues, Hash
    <3> QED
      BY <3>1, <3>2, HoldsOn
  <2>2. CASE Opens
    <3>1. loaded \in Seq(Loaded) /\ loaded # << >>
      BY <2>2 DEF Opens, Types
    <3>2. 1 \in DOMAIN loaded /\ Head(loaded) = loaded[1]
      BY <3>1
    <3>3. results' = loaded[1].seed.results /\ run' = loaded[1].run
      BY <2>2, <3>2 DEF Opens, Enter
    <3>4. Holds(Hash(loaded[1].run), n, loaded[1].seed.results[n])
      BY <1>1, <3>2, <3>3 DEF Backed
    <3> QED
      BY <3>3, <3>4, HoldsOn
  <2>3. CASE Mark
    <3>1. /\ pc = "mark" /\ results' = [results EXCEPT ![cur.node] = cur.value] /\ run' = run
      BY <2>3 DEF Mark
    <3>2. /\ cur.of = Hash(run) /\ Holds(cur.of, cur.node, cur.value)
      BY <3>1 DEF Pending, Writing
    <3>3. results \in [Node -> Value]
      BY DEF Types
    <3>4. CASE n = cur.node
      <4>1. results'[n] = cur.value
        BY <3>1, <3>3, <3>4
      <4> QED
        BY <3>1, <3>2, <3>4, <4>1, HoldsOn
    <3>5. CASE n # cur.node
      <4>1. results'[n] = results[n]
        BY <3>1, <3>3, <3>5
      <4>2. Holds(Hash(run), n, results[n])
        BY <1>1, <3>1, <4>1 DEF Backed
      <4> QED
        BY <3>1, <4>1, <4>2, HoldsOn
    <3> QED
      BY <3>4, <3>5
  <2>4. CASE \E p \in Plans : Start(p) \/ Replans(p)
    <3>1. results' = NoResults
      BY <2>4 DEF Start, Replans, Enter, Nothing
    <3> QED
      BY <1>1, <3>1 DEF NoResults
  <2> QED
    BY <1>1, <2>1, <2>2, <2>3, <2>4, Steps
<1>2. ASSUME NEW i \in DOMAIN loaded', NEW n \in Node, loaded'[i].seed.results[n] # "none"
      PROVE  \E g \in grains' : /\ g.of = Hash(loaded'[i].run) /\ g.node = n
                                /\ g.value = loaded'[i].seed.results[n] /\ g.whole
  <2>1. loaded \in Seq(Loaded)
    BY DEF Types
  <2>2. ASSUME NEW j \in DOMAIN loaded, loaded'[i] = loaded[j]
        PROVE  \E g \in grains' : /\ g.of = Hash(loaded'[i].run) /\ g.node = n
                                  /\ g.value = loaded'[i].seed.results[n] /\ g.whole
    <3>1. Holds(Hash(loaded[j].run), n, loaded[j].seed.results[n])
      BY <1>2, <2>2 DEF Backed
    <3> QED
      BY <2>2, <3>1, HoldsOn
  <2>3. CASE loaded' = loaded
    BY <2>2, <2>3
  <2>4. CASE loaded' = << >>
    BY <2>4
  <2>5. CASE loaded' = Tail(loaded) /\ loaded # << >>
    <3>1. i + 1 \in DOMAIN loaded /\ loaded'[i] = loaded[i + 1]
      BY <2>1, <2>5
    <3> QED
      BY <2>2, <3>1
  <2>6. CASE Load
    <3> DEFINE r == [run |-> Restored, seed |-> Replay]
    <3>1. loaded' = Append(loaded, r) /\ saved \in RunState /\ Replayable
      BY <2>6 DEF Load, Types
    <3>2. (i \in DOMAIN loaded /\ loaded'[i] = loaded[i]) \/ loaded'[i] = r
      <4> HIDE DEF r
      <4> QED
        BY <2>1, <3>1
    <3>3. CASE loaded'[i] = r
      <4>1. loaded'[i].run = saved /\ loaded'[i].seed = Replay
        BY <3>3 DEF Restored
      <4>2. PICK g \in Of(Hash(saved)) : g.node = n /\ g.value = Replay.results[n]
        BY <1>2, <3>1, <4>1, ReplayReads
      <4>3. g \in grains /\ g.of = Hash(saved) /\ g.whole
        BY <3>1 DEF Replayable, Of
      <4>4. Holds(Hash(saved), n, Replay.results[n])
        BY <4>2, <4>3 DEF Holds
      <4> QED
        BY <4>1, <4>4, HoldsOn
    <3> QED
      BY <2>2, <3>2, <3>3
  <2> QED
    BY <2>3, <2>4, <2>5, <2>6, Steps
<1> QED
  BY <1>1, <1>2 DEF Backed, Holds

LEMMA PendingStep ==
  ASSUME Types, Shapes, Pending, Layered, [Next]_vars
  PROVE  Pending'
<1> SUFFICES ASSUME pc' \in {"blob", "mark"} PROVE Pending'
  BY DEF Pending, Writing
<1>1. CASE Blob
  <2> DEFINE c == [cur EXCEPT !.whole = TRUE]
  <2>1. /\ pc = "blob" /\ pc' = "mark" /\ cur' = cur /\ run' = run /\ todo' = todo /\ at' = at
        /\ grains' = (grains \ {cur}) \cup {c}
    BY <1>1 DEF Blob, driver
  <2>2. /\ cur \in Grain /\ cur.of = Hash(run) /\ cur.status = "completed" /\ cur.value # "none"
        /\ cur.node \in Layer(plan, at) /\ (cur.node \notin plan.compute => todo = {})
    BY <2>1 DEF Pending, Writing
  <2>3. c \in grains' /\ c.of = cur.of /\ c.node = cur.node /\ c.value = cur.value /\ c.whole
    BY <2>1, <2>2 DEF Grain
  <2> HIDE DEF c
  <2>4. \E g \in grains' : g.of = cur.of /\ g.node = cur.node /\ g.value = cur.value /\ g.whole
    BY <2>3
  <2> QED
    BY <2>1, <2>2, <2>4 DEF Pending, Holds, Hash, plan
<1>2. ASSUME NEW n \in Node, Compute(n) \/ Collect(n) PROVE Pending'
  <2>1. pc # "down" /\ run' = run /\ at' = at /\ CheckpointNode(n)
    BY <1>2 DEF Compute, Collect, Return
  <2>2. n \in Layer(plan, at) /\ (n \notin plan.compute => todo' = {})
    BY <1>2 DEF Compute, Collect, Return, Layered, Executing
  <2>3. /\ cur' \in Grain /\ cur'.of = Hash(run) /\ cur'.node = n
        /\ cur'.status = "completed" /\ cur'.value \in {"yes", "no"}
        /\ cur'.whole <=> n \notin Large
        /\ grains' = grains \cup {cur'}
        /\ pc' = IF n \in Large THEN "blob" ELSE "mark"
    BY <2>1, CheckpointGrain
  <2>4. pc' = "blob" => cur' \in grains' /\ ~cur'.whole
    BY <2>3
  <2>5. pc' = "mark" => \E g \in grains' :
          g.of = cur'.of /\ g.node = cur'.node /\ g.value = cur'.value /\ g.whole
    BY <2>3
  <2>6. Hash(run') = Hash(run) /\ plan' = plan
    BY <2>1 DEF Hash, plan
  <2> QED
    BY <2>1, <2>2, <2>3, <2>4, <2>5, <2>6 DEF Pending, Holds
<1>3. CASE UNCHANGED <<pc, run, cur, grains, todo, at>>
  BY <1>3 DEF Pending, Writing, Holds, Hash, plan
<1>4. \/ Blob \/ (\E n \in Node : Compute(n) \/ Collect(n))
      \/ UNCHANGED <<pc, run, cur, grains, todo, at>>
  <2>1. CASE Execute
    BY <2>1 DEF Execute, PlanLayer, CheckpointFails, Output, Delegate, Collected, Mark, Gate, Return
  <2>2. CASE Drive
    BY <2>2 DEF Drive, Account, WriteState, Decide, Replan, Drain, Finish, Gone, Enter
  <2> QED
    BY <2>1, <2>2 DEF Next, Start, Load, Open, Dropped, Crash, Finish, Gone, Enter, vars, driver,
      exec, ledger
<1> QED
  BY <1>1, <1>2, <1>3, <1>4

\* A version that begins.
LEMMA EnterLayered ==
  ASSUME Types', pc' # "down", NEW seed, Enter(seed)
  PROVE  Layered'
<1>1. pc' = "layer" /\ at' = 1 /\ todo' = {} /\ got' = {}
  BY DEF Enter
<1>2. plan' \in Plans
  BY DEF Types, RunState, plan
<1>3. Cardinality(plan'.nodes) \in Nat
  BY <1>2, PlanFacts
<1> HIDE DEF Enter
<1> QED
  BY <1>1, <1>3 DEF Layered, Executing, Over

LEMMA LayeredExecute ==
  ASSUME Types, Pending, Layered, Execute
  PROVE  Layered'
<1>1. pc # "down" /\ plan \in Plans /\ Executing
  <2>1. Executing
    BY DEF Execute, PlanLayer, CheckpointFails, Output, Delegate, Collected, Blob, Mark, Compute,
      Gate, Collect, Executing
  <2> QED
    BY <2>1, DriverPlan DEF Executing
<1>2. plan' = plan /\ run' = run
  BY DEF Execute, PlanLayer, CheckpointFails, Output, Delegate, Collected, Blob, Mark, Compute,
    Gate, Collect, driver, plan
<1> DEFINE N == Cardinality(plan.nodes)
<1>3. N \in Nat
  BY <1>1, PlanFacts
<1>4. /\ at \in 1 .. N + 1
      /\ \A k \in 1 .. N : k < at => \A n \in Layer(plan, k) : Done(n)
      /\ pc # "layer" =>
           /\ at <= N
           /\ todo \cup got \subseteq Layer(plan, at)
           /\ got \cap plan.compute = {}
           /\ \A n \in Layer(plan, at) : Done(n) \/ n \in todo \cup got \/ (Writing /\ n = cur.node)
  BY <1>1 DEF Layered
<1>5. pc = "layer" => todo = {} /\ got = {}
  BY DEF Layered
<1>6. pc = "collect" => todo = {}
  BY DEF Layered
<1>7. CASE pc' = "return"
  <2>1. todo' = {} /\ got' = {}
    BY <1>1, <1>7 DEF Execute, PlanLayer, CheckpointFails, Output, Delegate, Collected, Blob, Mark,
      Compute, Gate, Collect, Return, CheckpointNode, Executing
  <2> QED
    BY <1>7, <2>1 DEF Layered, Executing, Over
<1>8. CASE PlanLayer
  <2>1. PICK D \in SUBSET Layer(plan, at) :
          /\ at \in 1 .. N
          /\ skipped' = skipped \cup D
          /\ todo' = {n \in Layer(plan, at) \ D : results[n] = "none"}
    BY <1>8, SkipGrains
  <2>2. pc = "layer" /\ pc' = "gate" /\ UNCHANGED <<at, got, results>>
    BY <1>8 DEF PlanLayer
  <2>3. \A k \in 1 .. N : k < at => \A n \in Layer(plan, k) : Done(n)'
    BY <1>4, <2>1, <2>2 DEF Done
  <2>4. \A n \in Layer(plan, at) : Done(n)' \/ n \in todo'
    BY <2>1, <2>2 DEF Done
  <2>5. got' = {} /\ todo' \subseteq Layer(plan, at) /\ at <= N
    BY <1>5, <2>1, <2>2
  <2> HIDE DEF PlanLayer, Execute
  <2> QED
    BY <1>2, <1>4, <2>2, <2>3, <2>4, <2>5 DEF Layered, Executing, Over
<1>9. CASE (Delegate \/ Collected) /\ got = {}
  <2>1. /\ todo = {} /\ got = {} /\ pc \in {"gate", "collect"}
        /\ pc' = "layer" /\ at' = at + 1 /\ UNCHANGED <<results, skipped, todo, got>>
    BY <1>6, <1>9 DEF Delegate, Collected
  <2>2. at \in 1 .. N /\ \A n \in Layer(plan, at) : Done(n)
    BY <1>3, <1>4, <2>1 DEF Writing
  <2>3. at' \in 1 .. N + 1
    BY <1>3, <2>1, <2>2
  <2>4. ASSUME NEW k \in 1 .. N, k < at' PROVE \A n \in Layer(plan, k) : Done(n)'
    <3>1. k < at \/ k = at
      BY <1>3, <2>1, <2>2, <2>4
    <3> QED
      BY <1>4, <2>1, <2>2, <3>1 DEF Done
  <2> HIDE DEF Delegate, Collected, Execute
  <2> QED
    BY <1>2, <2>1, <2>3, <2>4 DEF Layered, Executing, Over
<1>10. CASE Delegate /\ got # {}
  <2>1. /\ todo = {} /\ pc = "gate" /\ pc' = "collect"
        /\ UNCHANGED <<results, skipped, todo, got, at, cur>>
    BY <1>10 DEF Delegate
  <2> HIDE DEF Delegate, Execute
  <2> QED
    BY <1>2, <1>4, <2>1 DEF Layered, Executing, Over, Done, Writing
<1>11. CASE Blob
  <2>1. /\ pc = "blob" /\ pc' = "mark" /\ UNCHANGED <<results, skipped, todo, got, at, cur>>
    BY <1>11 DEF Blob
  <2> HIDE DEF Blob, Execute
  <2> QED
    BY <1>2, <1>4, <2>1 DEF Layered, Executing, Over, Done, Writing
<1>12. CASE Mark /\ pc' # "return"
  <2>1. /\ pc = "mark" /\ pc' \in {"gate", "collect"}
        /\ results' = [results EXCEPT ![cur.node] = cur.value]
        /\ pc' = "collect" => cur.node \notin plan.compute
        /\ UNCHANGED <<skipped, todo, got, at>>
    BY <1>12 DEF Mark, Return
  <2>2. /\ cur \in Grain /\ cur.value # "none" /\ (cur.node \notin plan.compute => todo = {})
    BY <2>1 DEF Pending, Writing
  <2>3. cur.node \in Node /\ results \in [Node -> Value]
    BY <2>2 DEF Grain, Types
  <2>4. /\ results'[cur.node] # "none"
        /\ \A n \in Node : results[n] # "none" => results'[n] # "none"
    BY <2>1, <2>2, <2>3
  <2>5. \A k \in 1 .. N : Layer(plan, k) \subseteq Node
    BY <1>1, LayerInNode
  <2>6. \A k \in 1 .. N : k < at => \A n \in Layer(plan, k) : Done(n)'
    BY <1>4, <2>1, <2>4, <2>5 DEF Done
  <2>7. at \in 1 .. N
    BY <1>3, <1>4, <2>1
  <2>8. \A n \in Layer(plan, at) : Done(n)' \/ n \in todo \cup got
    BY <1>4, <2>1, <2>4, <2>5, <2>7 DEF Done
  <2> HIDE DEF Mark, Execute
  <2> QED
    BY <1>2, <1>4, <2>1, <2>2, <2>6, <2>7, <2>8 DEF Layered, Executing, Over
<1>13. ASSUME NEW n \in Node, Gate(n), pc' # "return" PROVE Layered'
  <2>1. /\ pc = "gate" /\ pc' = "gate" /\ todo \cap plan.compute = {} /\ n \in todo
        /\ todo' = todo \ {n} /\ got' = got \cup {n} /\ UNCHANGED <<results, skipped, at, cur>>
    BY <1>13 DEF Gate, Return
  <2>2. n \notin plan.compute
    BY <2>1
  <2>3. todo' \cup got' = todo \cup got
    BY <2>1
  <2> HIDE DEF Gate, Execute
  <2> QED
    BY <1>2, <1>4, <2>1, <2>2, <2>3 DEF Layered, Executing, Over, Done, Writing
<1>14. ASSUME NEW n \in Node, Compute(n) \/ Collect(n), pc' # "return" PROVE Layered'
  <2>1. /\ pc \in {"gate", "collect"} /\ CheckpointNode(n) /\ n \in todo \cup got
        /\ todo' \subseteq todo /\ got' \subseteq got
        /\ todo \cup got \subseteq todo' \cup got' \cup {n}
        /\ UNCHANGED <<results, skipped, at>>
    BY <1>14 DEF Compute, Collect, Return
  <2>2. cur'.node = n /\ pc' \in {"blob", "mark"}
    BY <1>1, <2>1, CheckpointGrain
  <2>3. \A m \in Layer(plan, at) : Done(m)' \/ m \in todo' \cup got' \/ m = cur'.node
    BY <1>4, <2>1, <2>2 DEF Done, Writing
  <2>4. \A k \in 1 .. N : k < at => \A m \in Layer(plan, k) : Done(m)'
    BY <1>4, <2>1 DEF Done
  <2>5. at \in 1 .. N + 1 /\ at <= N /\ got' \cap plan.compute = {} /\ todo' \cup got' \subseteq Layer(plan, at)
    BY <1>4, <2>1
  <2> HIDE DEF Compute, Collect, Execute
  <2> QED
    BY <1>2, <2>1, <2>2, <2>3, <2>4, <2>5 DEF Layered, Executing, Over, Writing
<1>15. CheckpointFails \/ Output => pc' = "return"
  BY DEF CheckpointFails, Output, Return
<1>16. Collected => got = {}
  BY DEF Collected
<1> QED
  BY <1>7, <1>8, <1>9, <1>10, <1>11, <1>12, <1>13, <1>14, <1>15, <1>16 DEF Execute

LEMMA LayeredStep ==
  ASSUME Types, Pending, Layered, [Next]_vars
  PROVE  Layered'
<1>1. Types'
  BY TypesStep
<1>2. CASE pc' = "down"
  <2>1. (pc = "down" /\ UNCHANGED <<todo, got>>) \/ (todo' = {} /\ got' = {})
    <3>1. CASE Execute
      BY <1>2, <3>1 DEF Execute, PlanLayer, CheckpointFails, Output, Delegate, Collected, Blob, Mark,
        Compute, Gate, Collect, Return, CheckpointNode
    <3>2. CASE Drive
      BY <1>2, <3>2 DEF Drive, Account, WriteState, Decide, Replan, Drain, Finish, Gone, Enter
    <3> QED
      BY <1>2, <3>1, <3>2 DEF Next, Start, Load, Open, Dropped, Crash, Finish, Gone, Enter, vars, exec
  <2> QED
    BY <1>2, <2>1 DEF Layered, Executing, Over
<1>3. ASSUME NEW p \in Plans, Start(p) PROVE Layered'
  BY <1>1, <1>3, EnterLayered DEF Start, Enter
<1>4. CASE UNCHANGED <<pc, run, exec>> \/ (UNCHANGED <<exec, run>> /\ Over /\ Over')
  BY <1>4 DEF exec, Layered, Executing, Over, Done, Writing, plan
<1>5. CASE Open /\ pc' # "down"
  <2>1. CASE UNCHANGED <<pc, driver, exec>>
    BY <1>4, <2>1 DEF driver
  <2>2. CASE Enter(Head(loaded).seed)
    BY <1>1, <1>5, <2>2, EnterLayered
  <2> QED
    BY <1>5, <2>1, <2>2 DEF Open
<1>6. CASE Drive /\ pc' # "down"
  <2>1. CASE Replan
    <3>1. PICK p \in Plans : Replans(p)
      BY <1>6, <2>1 DEF Replan, Replans, Finish, Gone
    <3> QED
      BY <1>1, <1>6, <3>1, EnterLayered DEF Replans
  <2>2. CASE ~Replan
    <3>1. Over /\ Over' /\ exec' = exec
      BY <1>6, <2>2 DEF Drive, Account, WriteState, Decide, Drain, Finish, Gone, Over
    <3> QED
      BY <3>1 DEF exec, Layered, Over, Executing
  <2> QED
    BY <2>1, <2>2
<1>7. CASE (Load \/ Crash \/ Dropped \/ UNCHANGED vars) /\ pc' # "down"
  BY <1>4, <1>7 DEF Load, Crash, Dropped, Finish, Gone, vars, driver
<1> QED
  BY <1>2, <1>3, <1>5, <1>6, <1>7, LayeredExecute DEF Next

LEMMA VerdictStep ==
  ASSUME Types, Verdict, [Next]_vars
  PROVE  Verdict'
<1>1. CASE Execute
  <2>1. pc' # "decide"
    BY <1>1 DEF Execute, PlanLayer, CheckpointFails, Output, Delegate, Collected, Blob, Mark,
      Compute, Gate, Collect, Return, CheckpointNode
  <2>2. ASSUME pc' = "return", outcome'.kind = "ok" PROVE results'[plan'.out] # "none"
    <3>1. Output
      <4>1. \A k \in {"granule", "interface", "enforce", "other"} : \A n \in Node \cup {"none"} :
              Failure(k, n).kind # "ok"
        BY FailureOutcome
      <4> QED
        BY <1>1, <2>2, <4>1 DEF Execute, PlanLayer, CheckpointFails, Delegate, Collected, Blob, Mark,
          Compute, Gate, Collect, Return, CheckpointNode
    <3>2. results' = results /\ plan' = plan
      BY <3>1 DEF Output, plan
    <3>3. results[plan.out] # "none"
      <4>1. Failure("other", "none").kind # "ok"
        BY FailureOutcome
      <4> QED
        BY <2>2, <3>1, <4>1 DEF Output, Return
    <3> QED
      BY <3>2, <3>3
  <2>3. pc' # "drain"
    BY <1>1 DEF Execute, PlanLayer, CheckpointFails, Output, Delegate, Collected, Blob, Mark,
      Compute, Gate, Collect, Return, CheckpointNode
  <2> QED
    BY <2>1, <2>2, <2>3 DEF Verdict
<1>2. CASE Drive /\ pc' \in {"drain", "decide"}
  <2>1. /\ pc \in {"return", "drain"} /\ UNCHANGED <<results, outcome>>
        /\ pc' = "decide" => saved' = run /\ run' = run
    BY <1>2 DEF Drive, Account, WriteState, Decide, Replan, Drain, Finish, Gone, Enter, exec, driver
  <2>2. Continues
    <3>1. run \in RunState
      BY <2>1 DEF Types
    <3> QED
      BY <1>2, <2>1, <3>1 DEF Drive, Account, WriteState, Decide, Replan, Drain, Finish, Gone, Enter,
        exec, driver, Continues, RunState
  <2> QED
    BY <1>2, <2>1, <2>2 DEF Verdict, Continues, plan
<1>3. CASE ~(Drive /\ pc' \in {"drain", "decide"}) /\ ~Execute
  <2>1. \/ pc' \notin {"return", "drain", "decide"}
        \/ UNCHANGED <<pc, outcome, results, run, saved>>
    <3>1. CASE Drive
      BY <1>3, <3>1 DEF Drive, Account, WriteState, Decide, Replan, Drain, Finish, Gone, Enter
    <3> QED
      BY <1>3, <3>1 DEF Next, Start, Load, Open, Dropped, Crash, Finish, Gone, Enter, vars, driver,
        exec, ledger
  <2> QED
    BY <2>1 DEF Verdict, plan
<1> QED
  BY <1>1, <1>2, <1>3

\* However many resumes overlap, what the driver holds in memory is backed by the ledger and its
\* layers are taken in order: plan loop, executor, checkpoints, crashes and resumes.
THEOREM LedgerIInvHolds == Safety => []LedgerIInv
<1>1. Init => LedgerIInv
  <2> SUFFICES ASSUME Init PROVE LedgerIInv
    OBVIOUS
  <2>1. Types
    <3>1. << >> \in Seq(Loaded) /\ Len(<< >>) <= Overlap
      BY Params
    <3>2. [n \in Node |-> 0] \in [Node -> Nat]
      OBVIOUS
    <3>3. tally \in Tally
      BY <3>2 DEF Init, Tally
    <3>4. results \in [Node -> Value]
      BY DEF Init, NoResults, Value
    <3> QED
      BY <3>1, <3>3, <3>4, OkOutcome DEF Init, Types
  <2> QED
    BY <2>1 DEF Init, LedgerIInv, Shapes, Backed, Pending, Layered, Verdict, Executing, Writing, Over
<1>2. LedgerIInv /\ [Next]_vars => LedgerIInv'
  BY TypesStep, GrainsStep, BackedStep, PendingStep, LayeredStep, VerdictStep DEF LedgerIInv
<1> QED
  BY <1>1, <1>2, PTL DEF Safety

\* A node of the present layer finds its dependencies and its observed node done.
LEMMA LayerIsReady ==
  ASSUME LedgerIInv, Executing, at <= Cardinality(plan.nodes), NEW n \in Layer(plan, at)
  PROVE  /\ n \in plan.nodes
         /\ \A m \in plan.deps[n] : Done(m)
         /\ plan.when[n] = None \/ plan.when[n].node \notin plan.nodes \/ Done(plan.when[n].node)
<1> DEFINE N == Cardinality(plan.nodes)
<1>1. plan \in Plans /\ N \in Nat /\ IsFiniteSet(plan.nodes)
  BY DriverPlan, PlanFacts DEF LedgerIInv, Executing
<1>2. at \in 1 .. N /\ at - 1 \in 0 .. N
  BY <1>1 DEF LedgerIInv, Layered
<1>3. n \in plan.nodes /\ plan.deps[n] \subseteq Processed(plan)[at - 1]
  BY <1>1, <1>2, LayerNodes
<1>4. ASSUME NEW m \in Processed(plan)[at - 1] PROVE Done(m)
  <2>1. PICK j \in 1 .. at - 1 : m \in Layer(plan, j)
    BY <1>1, <1>2, InSomeLayer
  <2>2. j \in 1 .. N /\ j < at
    BY <1>1, <1>2
  <2> QED
    BY <2>1, <2>2 DEF LedgerIInv, Layered
<1>5. plan.when[n] = None \/ plan.when[n].node \notin plan.nodes \ Processed(plan)[at - 1]
  BY <1>1, <1>2, PlanFacts
<1> QED
  BY <1>3, <1>4, <1>5

LEMMA LedgerComesFirst ==
  ASSUME LedgerIInv
  PROVE  LedgerFirst
<1> SUFFICES ASSUME pc # "down" PROVE LedgerFirst
  BY DEF LedgerFirst
<1>1. ASSUME NEW n \in Node, results[n] # "none"
      PROVE  \E g \in Of(Hash(run)) : g.node = n /\ g.value = results[n] /\ g.whole
  BY <1>1 DEF LedgerIInv, Backed, Holds, Of
<1>2. ASSUME NEW n \in todo \cup got, NEW m \in plan.deps[n]
      PROVE  results[m] # "none" \/ m \in skipped
  <2>1. Executing /\ pc # "layer"
    BY DEF LedgerIInv, Types, Layered, Over, Executing
  <2>2. at <= Cardinality(plan.nodes) /\ n \in Layer(plan, at)
    BY <2>1 DEF LedgerIInv, Layered
  <2> QED
    BY <2>1, <2>2, LayerIsReady DEF Done
<1> QED
  BY <1>1, <1>2 DEF LedgerFirst

\* The ledger comes first, however many resumes overlap: whatever counts as a result is in the
\* ledger with its content, and nodes run only on results or skips of all their dependencies
\* (checkpoint_node before the results map, topological_sort).
THEOREM ResultsAreInLedger == Safety => []LedgerFirst
BY LedgerIInvHolds, LedgerComesFirst, PTL

\* A run is marked as finished well only when the ledger holds the result of its output node
\* (PlanFinishGuard after execute_with_resume returned Ok).
THEOREM GoodEndsHaveOutput == Safety => OkHasOutput
<1>1. ASSUME LedgerIInv, [Next]_vars, finished' = finished \cup {"ok"}, "ok" \notin finished
      PROVE  saved.plan.out \in Completed(Hash(saved))
  <2>1. finished' # finished /\ finished' # finished \cup {"error"}
    BY <1>1
  <2>2. ~Execute
    BY <2>1 DEF Execute, PlanLayer, CheckpointFails, Output, Delegate, Collected, Blob, Mark,
      Compute, Gate, Collect, ledger
  <2>3. Decide
    BY <1>1, <2>1, <2>2 DEF Next, Start, Load, Open, Drive, Account, WriteState, Replan, Drain,
      Dropped, Crash, Finish, vars, ledger
  <2>4. pc = "decide" /\ outcome = Ok
    BY <2>1, <2>3 DEF Decide, Finish
  <2>5. results[plan.out] # "none" /\ saved = run
    BY <1>1, <2>4, OkOutcome DEF LedgerIInv, Verdict
  <2>6. plan.out \in Node
    BY <1>1, <2>4, DriverPlan, PlanFacts DEF LedgerIInv
  <2>7. PICK g \in grains : g.of = Hash(run) /\ g.node = plan.out /\ g.value = results[plan.out]
    BY <1>1, <2>4, <2>5, <2>6 DEF LedgerIInv, Backed, Holds
  <2>8. g.status = "completed"
    BY <1>1, <2>5, <2>7 DEF LedgerIInv, Shapes
  <2> QED
    BY <2>5, <2>7, <2>8 DEF Completed, plan
<1>2. LedgerIInv /\ [Next]_vars =>
        [finished' = finished \cup {"ok"} /\ "ok" \notin finished
           => saved.plan.out \in Completed(Hash(saved))]_vars
  BY <1>1
<1> QED
  BY <1>2, LedgerIInvHolds, PTL DEF Safety, OkHasOutput

-----------------------------------------------------------------------------
(* One resume at a time *)

\* What is known of a plan grows; what was decided on it stays decided.
LEMMA Learn ==
  ASSUME NEW p \in Plans,
         NEW Y, NEW N, NEW S, NEW Y1, NEW N1, NEW S1,
         Consistent(p, Y, N, S), Y \subseteq Y1, N \subseteq N1, S \subseteq S1,
         Y1 \cap N1 = {}, Y1 \cap S1 = {}, N1 \cap S1 = {},
         \A n \in (Y1 \cup N1 \cup S1) \ (Y \cup N \cup S) :
           Based(p, n, Y \cup N \cup S) /\ (n \in S1 <=> ~Chosen(p, n, Y, S))
  PROVE  /\ \A n : Based(p, n, Y \cup N \cup S) =>
              Based(p, n, Y1 \cup N1 \cup S1) /\ (Chosen(p, n, Y1, S1) <=> Chosen(p, n, Y, S))
         /\ Consistent(p, Y1, N1, S1)
<1> DEFINE K == Y \cup N \cup S
           K1 == Y1 \cup N1 \cup S1
<1>1. K \subseteq K1 /\ (\A n \in K : n \in Y1 <=> n \in Y) /\ (\A n \in K : n \in S1 <=> n \in S)
  OBVIOUS
<1>2. \A n \in K : Based(p, n, K) /\ (n \in S <=> ~Chosen(p, n, Y, S))
  BY DEF Consistent
<1>3. K1 \subseteq p.nodes
  BY <1>2 DEF Based
<1>4. \A n \in K1 \ K : Based(p, n, K) /\ (n \in S1 <=> ~Chosen(p, n, Y, S))
  OBVIOUS
<1>5. Y \subseteq K1 /\ Y1 \subseteq K1
  OBVIOUS
<1>6. ASSUME NEW n, Based(p, n, K)
      PROVE  Based(p, n, K1) /\ (Chosen(p, n, Y1, S1) <=> Chosen(p, n, Y, S))
  <2> HIDE DEF K, K1
  <2>1. Based(p, n, K1)
    BY <1>1, <1>6 DEF Based
  <2>2. p.deps[n] \cap S1 = {} <=> p.deps[n] \cap S = {}
    <3>1. p.deps[n] \subseteq K /\ S \subseteq S1
      BY <1>6 DEF Based
    <3> QED
      BY <1>1, <3>1
  <2>3. p.when[n] # None => (p.when[n].node \in Y1 <=> p.when[n].node \in Y)
    BY <1>1, <1>3, <1>5, <1>6 DEF Based
  <2> QED
    BY <2>1, <2>2, <2>3 DEF Chosen
<1>7. ASSUME NEW n \in K1
      PROVE  Based(p, n, K1) /\ (n \in S1 <=> ~Chosen(p, n, Y1, S1))
  <2> HIDE DEF K, K1
  <2>1. Based(p, n, K) /\ (n \in S1 <=> ~Chosen(p, n, Y, S))
    BY <1>1, <1>2, <1>4
  <2> QED
    BY <1>6, <2>1
<1> QED
  BY <1>6, <1>7 DEF Consistent

\* plan_layer decides by what the ledger knows.
LEMMA RunsIsChosen ==
  ASSUME NEW p \in Plans, NEW n \in Node, NEW r \in [Node -> Value], NEW Y, NEW S,
         \A m \in Node : r[m] = "yes" <=> m \in Y
  PROVE  Runs(p, n, r, S) <=> Chosen(p, n, Y, S)
<1>1. p.when[n] \in {None} \cup [node : Node, op : {"Contains", "NotContains"}]
  BY PlanFacts
<1>2. CASE p.when[n] = None
  BY <1>2 DEF Runs, Chosen
<1>3. CASE p.when[n] # None
  <2>1. p.when[n].node \in Node /\ p.when[n].op \in {"Contains", "NotContains"}
    BY <1>1, <1>3
  <2> QED
    BY <1>3, <2>1 DEF Runs, Chosen, EvalCondition
<1> QED
  BY <1>2, <1>3

LEMMA KnownNodes ==
  /\ Yes \subseteq Node /\ No \subseteq Node /\ Skip \subseteq Node
BY DEF Yes, No, Skip, Known

\* Every checkpoint of the plan is known.
LEMMA KnownAll ==
  ASSUME Types, Shapes, NEW g \in grains, g.of = Hash(saved)
  PROVE  /\ g.node \in Yes \cup No \cup Skip
         /\ g.status = "completed" => g.node \in Known("completed", g.value)
         /\ g.status = "completed" => g.node \in Yes \cup No
         /\ g.status = "skipped" => g.node \in Skip
<1>1. g \in Grain /\ (g.status = "completed" <=> g.value # "none")
  BY DEF Types, Shapes
<1>2. g.node \in Node /\ g.status \in {"completed", "skipped"} /\ g.value \in {"yes", "no", "none"}
  BY <1>1 DEF Grain
<1> QED
  BY <1>1, <1>2 DEF Yes, No, Skip, Known

LEMMA KnownSame ==
  ASSUME grains' = grains, Hash(saved') = Hash(saved)
  PROVE  Yes' = Yes /\ No' = No /\ Skip' = Skip
BY DEF Yes, No, Skip, Known

LEMMA KnownBlob ==
  ASSUME Types, Pending, Blob
  PROVE  Yes' = Yes /\ No' = No /\ Skip' = Skip
<1> DEFINE c == [cur EXCEPT !.whole = TRUE]
<1>1. cur \in Grain /\ cur \in grains /\ grains' = (grains \ {cur}) \cup {c} /\ saved' = saved
  BY DEF Blob, Pending, Writing
<1>2. c.of = cur.of /\ c.node = cur.node /\ c.status = cur.status /\ c.value = cur.value
  BY <1>1 DEF Grain
<1> HIDE DEF c
<1>3. ASSUME NEW st, NEW v PROVE Known(st, v)' = Known(st, v)
  BY <1>1, <1>2 DEF Known, Hash
<1> QED
  BY <1>3 DEF Yes, No, Skip

LEMMA KnownWrite ==
  ASSUME NEW c \in Grain, c.of = Hash(saved), c.status = "completed", c.value \in {"yes", "no"},
         grains' = grains \cup {c}, saved' = saved
  PROVE  /\ Yes' = IF c.value = "yes" THEN Yes \cup {c.node} ELSE Yes
         /\ No' = IF c.value = "no" THEN No \cup {c.node} ELSE No
         /\ Skip' = Skip
<1>1. c.node \in Node
  BY DEF Grain
<1> QED
  BY <1>1 DEF Yes, No, Skip, Known, Hash

LEMMA KnownSkip ==
  ASSUME NEW D \in SUBSET Node, saved' = saved,
         grains' = grains \cup {[of |-> Hash(saved), node |-> n, status |-> "skipped",
                                 value |-> "none", whole |-> TRUE] : n \in D}
  PROVE  Yes' = Yes /\ No' = No /\ Skip' = Skip \cup D
<1> DEFINE c(n) == [of |-> Hash(saved), node |-> n, status |-> "skipped", value |-> "none", whole |-> TRUE]
<1>1. \A n : c(n).of = Hash(saved) /\ c(n).node = n /\ c(n).status = "skipped" /\ c(n).value = "none"
  OBVIOUS
<1>2. grains' = grains \cup {c(n) : n \in D}
  OBVIOUS
<1> HIDE DEF c
<1>3. ASSUME NEW v PROVE Known("completed", v)' = Known("completed", v)
  BY <1>1, <1>2 DEF Known, Hash
<1>4. Known("skipped", "none")' = Known("skipped", "none") \cup D
  <2>1. Hash(saved') = Hash(saved)
    BY DEF Hash
  <2>2. ASSUME NEW n \in D
        PROVE  \E g \in grains' : g.of = Hash(saved') /\ g.node = n /\ g.status = "skipped" /\ g.value = "none"
    <3>1. c(n) \in grains'
      BY <1>2
    <3> QED
      BY <1>1, <2>1, <3>1
  <2>3. \A g \in grains' : g \in grains \/ g.node \in D
    BY <1>1, <1>2
  <2> QED
    BY <1>2, <2>1, <2>2, <2>3 DEF Known
<1> QED
  BY <1>3, <1>4 DEF Yes, No, Skip

LEMMA KnownNothing ==
  ASSUME \A g \in grains' : g.of # Hash(saved')
  PROVE  Yes' = {} /\ No' = {} /\ Skip' = {}
BY DEF Yes, No, Skip, Known

LEMMA NothingIsConsistent ==
  ASSUME NEW p
  PROVE  Consistent(p, {}, {}, {})
BY DEF Consistent

\* What a resume reads is what the ledger knows.
LEMMA ReplayIsKnown ==
  ASSUME Types, Shapes, Current, saved \in RunState
  PROVE  /\ \A n \in Node : Replay.results[n] = "yes" <=> n \in Yes
         /\ \A n \in Node : Replay.results[n] = "no" <=> n \in No
         /\ Replay.skipped = Skip
<1>1. Yes \cap No = {}
  BY Params DEF Current, Consistent
<1>2. Replay.skipped = {g.node : g \in {h \in Of(Hash(saved)) : h.status = "skipped"}}
  BY DEF Replay
<1>3. Replay.skipped \subseteq Skip
  <2>1. ASSUME NEW g \in Of(Hash(saved)), g.status = "skipped" PROVE g.node \in Skip
    BY <2>1, KnownAll DEF Of
  <2> QED
    BY <1>2, <2>1
<1>4. Skip \subseteq Replay.skipped
  BY <1>2 DEF Skip, Known, Of
<1>5. ASSUME NEW n \in Node
      PROVE  /\ Replay.results[n] = "yes" <=> n \in Yes
             /\ Replay.results[n] = "no" <=> n \in No
  <2>1. Replay.results[n] \in {"yes", "no", "none"}
    BY ReplayReads DEF Seed, Value
  <2>2. Replay.results[n] # "none" => n \in Known("completed", Replay.results[n])
    <3>1. ASSUME Replay.results[n] # "none" PROVE n \in Known("completed", Replay.results[n])
      <4>1. PICK g \in Of(Hash(saved)) : g.status = "completed" /\ g.node = n /\ g.value = Replay.results[n]
        BY <3>1, ReplayReads
      <4> QED
        BY <4>1 DEF Known, Of
    <3> QED
      BY <3>1
  <2>3. n \in Yes \cup No => Replay.results[n] # "none"
    <3>1. ASSUME n \in Yes \cup No PROVE Replay.results[n] # "none"
      <4> DEFINE done == {g \in Of(Hash(saved)) : g.status = "completed"}
      <4>1. \E g \in done : g.node = n
        BY <3>1 DEF Yes, No, Known, Of
      <4>2. PICK g \in done : g = CHOOSE h \in done : h.node = n
        BY <4>1
      <4>3. Replay.results[n] = g.value
        BY <4>1, <4>2 DEF Replay
      <4>4. g \in grains /\ g.status = "completed"
        BY <4>2 DEF Of
      <4> QED
        BY <4>3, <4>4 DEF Shapes
    <3> QED
      BY <3>1
  <2> QED
    BY <1>1, <2>1, <2>2, <2>3 DEF Yes, No
<1> QED
  BY <1>3, <1>4, <1>5

\* The counters of a driver and of the last plan checkpoint go together.
LEMMA SingleStep ==
  ASSUME Overlap <= 1, Types, Single, [Next]_vars
  PROVE  Single'
<1>1. loaded \in Seq(Loaded) /\ Len(loaded) \in Nat /\ Len(loaded) <= 1
  BY Params DEF Types
<1>2. loaded # << >> => pc = "down" /\ saved # NoRun
  BY Params DEF Single, Types
<1>3. ASSUME NEW p \in Plans, Start(p) PROVE Single'
  BY <1>2, <1>3 DEF Start, Single, Enter
<1>4. CASE Load
  <2> DEFINE r == [run |-> Restored, seed |-> Replay]
  <2>1. pc' = "down" /\ loaded' = Append(loaded, r) /\ Len(loaded) < 1 /\ UNCHANGED <<saved, grains>>
    BY <1>1, <1>4, Params DEF Load, ledger
  <2>2. Head(loaded') = r
    <3> HIDE DEF r
    <3> QED
      BY <1>1, <2>1
  <2>3. r = [run |-> saved, seed |-> Replay]
    BY DEF Restored
  <2>4. Replay' = Replay
    BY <2>1 DEF Replay, Of, Hash
  <2> HIDE DEF r
  <2> QED
    BY <2>1, <2>2, <2>3, <2>4 DEF Single
<1>5. CASE Open
  <2>1. loaded' = << >> /\ pc = "down" /\ saved' = saved
    BY <1>1, <1>2, <1>5 DEF Open, ledger
  <2>2. CASE pc' = "down"
    BY <2>1, <2>2 DEF Single
  <2>3. CASE pc' # "down"
    <3>1. run' = Head(loaded).run /\ loaded # << >> /\ pc' = "layer"
      BY <1>5, <2>1, <2>3 DEF Open, Enter
    <3>2. run' = saved
      BY <3>1 DEF Single
    <3> QED
      BY <2>1, <3>1, <3>2 DEF Single
  <2> QED
    BY <2>2, <2>3
<1>6. CASE Crash
  BY <1>6 DEF Crash, Gone, Single
<1>7. CASE pc # "down" /\ ~Crash
  <2>1. loaded = << >> /\ loaded' = << >> /\ run \in RunState /\ saved \in RunState
    <3>1. loaded = << >>
      BY <1>2, <1>7
    <3>2. ~Load /\ ~Open
      BY <1>7, <3>1 DEF Load, Open
    <3>3. loaded' = loaded
      <4>1. CASE Execute
        BY <4>1 DEF Execute, PlanLayer, CheckpointFails, Output, Delegate, Collected, Blob, Mark,
          Compute, Gate, Collect
      <4>2. CASE Drive
        BY <4>2 DEF Drive, Account, WriteState, Decide, Replan, Drain
      <4> QED
        BY <1>7, <3>2, <4>1, <4>2 DEF Next, Start, Dropped, vars
    <3> QED
      BY <1>7, <3>1, <3>3 DEF Types
  <2>2. CASE pc' = "down"
    BY <2>1, <2>2 DEF Single
  <2>3. CASE pc' # "down"
    <3>1. \/ UNCHANGED <<run, saved>> /\ pc # "replan" /\ pc' # "replan"
          \/ UNCHANGED <<run, saved, pc>>
          \/ saved' = run'
          \/ pc' = "replan" /\ saved' = saved /\ run' = Recut
          \/ /\ UNCHANGED saved /\ pc # "replan" /\ pc' # "replan"
             /\ Account \/ \E n \in Node : Drain(n)
      <4>1. CASE Execute
        BY <2>3, <4>1 DEF Execute, PlanLayer, CheckpointFails, Output, Delegate, Collected, Blob, Mark,
          Compute, Gate, Collect, CheckpointNode, Return, driver, ledger
      <4>2. CASE Drive
        BY <2>3, <4>2 DEF Drive, Account, WriteState, Decide, Replan, Drain, Finish, Gone, driver, ledger
      <4> QED
        BY <1>7, <2>1, <2>3, <4>1, <4>2 DEF Next, Start, Load, Open, Dropped, Finish, Gone, vars,
          driver, ledger
    <3>2. CASE UNCHANGED <<run, saved>> /\ pc # "replan" /\ pc' # "replan"
      BY <1>7, <2>1, <3>2 DEF Single
    <3>3. CASE UNCHANGED <<run, saved, pc>>
      BY <1>7, <2>1, <3>3 DEF Single
    <3>4. CASE saved' = run'
      BY <2>1, <3>4 DEF Single
    <3>5. CASE pc' = "replan" /\ saved' = saved /\ run' = Recut
      <4>1. Recut.version = run.version /\ Recut.plan = run.plan /\ Recut.replans = run.replans
        BY <2>1 DEF Recut, RunState
      <4> QED
        BY <1>7, <2>1, <3>5, <4>1 DEF Single
    <3>6. CASE /\ UNCHANGED saved /\ pc # "replan" /\ pc' # "replan"
               /\ Account \/ \E n \in Node : Drain(n)
      <4>1. /\ run'.version = run.version /\ run'.plan = run.plan /\ run'.replans = run.replans
            /\ run'.recuts = run.recuts
        BY <2>1, <2>3, <3>6 DEF Account, Drain, RunState, Finish, Gone
      <4> QED
        BY <1>7, <2>1, <3>6, <4>1 DEF Single
    <3> QED
      BY <3>1, <3>2, <3>3, <3>4, <3>5, <3>6
  <2> QED
    BY <2>2, <2>3
<1>8. CASE pc = "down" /\ Dropped
  BY <1>8 DEF Dropped
<1>9. CASE UNCHANGED vars
  BY <1>9 DEF vars, driver, exec, ledger, Single, Replay, Of, Hash
<1>10. pc = "down" => ~Execute /\ ~Drive
  BY DEF Execute, Drive, PlanLayer, CheckpointFails, Output, Delegate, Collected, Blob, Mark, Compute,
    Gate, Collect, Account, WriteState, Decide, Replan, Drain
<1> QED
  BY <1>3, <1>4, <1>5, <1>6, <1>7, <1>8, <1>9, <1>10 DEF Next

LEMMA SameHash ==
  ASSUME Types, Single, pc # "down"
  PROVE  /\ Hash(run) = Hash(saved) /\ plan = saved.plan /\ saved \in RunState /\ run \in RunState
         /\ saved # NoRun /\ plan \in Plans
BY Params, DriverPlan DEF Types, Single, Hash, plan

\* The counters are kept.
LEMMA CountedStep ==
  ASSUME Overlap <= 1, Types, Single, Counted, [Next]_vars
  PROVE  Counted'
<1>1. saved \in RunState \cup {NoRun} /\ NoRun \notin RunState /\ (pc # "down" => saved # NoRun)
  BY Params DEF Types
<1>2. ASSUME NEW p \in Plans, Start(p) PROVE Counted'
  <2>1. saved = NoRun /\ pc' = "layer" /\ tally.cuts = [n \in Node |-> 0] /\ tally \in Tally
    BY <1>2 DEF Start, Enter, Counted, Types
  <2>2. /\ saved' \in RunState /\ saved'.replans = 0 /\ saved'.recuts = [n \in Node |-> 0]
    <3>1. Types'
      BY <1>2, TypesStart
    <3> QED
      BY <1>2, <2>1, <3>1 DEF Start, Types
  <2>3. tally'.versions = 1 /\ tally'.cuts = tally.cuts
    BY <1>2, <2>1 DEF Start, Tally
  <2> HIDE DEF Start
  <2> QED
    BY <1>1, <2>1, <2>2, <2>3, Params DEF Counted
<1>3. CASE /\ UNCHANGED <<saved>> /\ tally'.versions = tally.versions /\ tally'.cuts = tally.cuts
           /\ pc' # "replan" \/ UNCHANGED <<pc, run, outcome>>
  BY <1>1, <1>3 DEF Counted, Atomic, plan
<1>4. CASE WriteState /\ pc' = "decide"
  <2>1. saved' = run /\ UNCHANGED tally /\ pc = "drain"
    BY <1>4 DEF WriteState, Finish, Gone
  <2>2. /\ run.replans = saved.replans /\ run.recuts = saved.recuts /\ run \in RunState
        /\ saved # NoRun
    BY <2>1, SameHash DEF Single
  <2> QED
    BY <1>1, <1>4, <2>1, <2>2 DEF Counted
<1>5. CASE Decide /\ pc' = "replan"
  <2>1. /\ ~CapReached /\ (outcome # Ok => ~Gap) /\ run' = Recut /\ pc = "decide"
        /\ UNCHANGED <<saved, tally, outcome>>
    BY <1>5 DEF Decide, Finish, Gone
  <2>2. /\ run.replans = saved.replans /\ run.recuts = saved.recuts /\ run.plan = saved.plan
        /\ saved # NoRun /\ run \in RunState /\ saved \in RunState
    BY <2>1, SameHash DEF Single
  <2>3. saved.replans < MaxReplan
    BY <2>1, <2>2, Params DEF CapReached, RunState
  <2>4. CASE outcome.kind = "granule" /\ Atomic(outcome.node)
    <3>1. outcome.node \in Node /\ outcome # Ok
      BY <2>4, OkOutcome DEF Types
    <3>2. ~(saved.recuts[outcome.node] >= MaxRecuts) /\ saved.recuts \in [Node -> Nat]
      BY <2>1, <2>2, <2>4, <3>1 DEF Gap, RunState
    <3>3. /\ run' = [run EXCEPT !.memory = @ \cup {outcome.node}, !.recuts[outcome.node] = @ + 1]
          /\ run'.plan = run.plan /\ run'.memory = run.memory \cup {outcome.node}
          /\ run'.recuts = [run.recuts EXCEPT ![outcome.node] = @ + 1]
      BY <2>1, <2>2, <2>4 DEF Recut, RunState
    <3>4. Atomic(outcome.node)'
      BY <2>1, <2>4, <3>3 DEF Atomic, plan
    <3>5. \A n \in Node : run'.recuts[n] <= MaxRecuts
      <4> SUFFICES ASSUME NEW n \in Node PROVE run'.recuts[n] <= MaxRecuts
        OBVIOUS
      <4>1. saved.recuts[n] <= MaxRecuts /\ saved.recuts[n] \in Nat
        BY <2>2, <3>2 DEF Counted
      <4> QED
        BY <2>2, <3>1, <3>2, <3>3, <4>1, Params
    <3>6. outcome'.kind = "granule" /\ outcome'.node = outcome.node
      BY <2>1, <2>4
    <3>7. /\ tally'.versions = saved.replans + 1 /\ saved.replans <= MaxReplan
          /\ tally'.cuts = saved.recuts /\ \A n \in Node : saved.recuts[n] <= MaxRecuts
      BY <2>1, <2>2 DEF Counted
    <3> QED
      BY <2>1, <2>2, <2>3, <3>3, <3>4, <3>5, <3>6, <3>7 DEF Counted
  <2>5. CASE ~(outcome.kind = "granule" /\ Atomic(outcome.node))
    <3>1. run' = run
      BY <2>1, <2>5 DEF Recut
    <3> QED
      BY <2>1, <2>2, <2>3, <2>5, <3>1 DEF Counted, Atomic, plan
  <2> QED
    BY <2>4, <2>5
<1>6. ASSUME NEW p \in Plans, Replans(p) PROVE Counted'
  <2>1. /\ pc = "replan" /\ pc' = "layer" /\ saved' = run' /\ run.replans = saved.replans
        /\ run \in RunState /\ saved # NoRun /\ tally \in Tally
    BY <1>6, SameHash DEF Replans, Enter, Single, Types
  <2>2. /\ saved'.replans = run.replans + 1 /\ saved'.recuts = run.recuts /\ saved' \in RunState
    <3>1. saved' = [run EXCEPT !.version = @ + 1, !.replans = @ + 1, !.plan = p]
      BY <1>6 DEF Replans
    <3>2. saved' \in RunState
      BY <2>1, <3>1, RunUpdates
    <3> QED
      BY <2>1, <3>1, <3>2 DEF RunState
  <2>3. /\ tally.versions = saved.replans + 1 /\ tally.cuts = saved.recuts
        /\ saved.replans < MaxReplan
        /\ run.recuts = IF outcome.kind = "granule" /\ Atomic(outcome.node)
                          THEN [saved.recuts EXCEPT ![outcome.node] = @ + 1] ELSE saved.recuts
        /\ \A n \in Node : run.recuts[n] <= MaxRecuts
    BY <2>1 DEF Counted
  <2>4. outcome.kind = "granule" => outcome # Ok
    BY OkOutcome
  <2>5. /\ tally'.versions = tally.versions + 1
        /\ tally'.cuts = IF outcome # Ok /\ outcome.kind = "granule" /\ Atomic(outcome.node)
                           THEN [tally.cuts EXCEPT ![outcome.node] = @ + 1] ELSE tally.cuts
    BY <1>6, <2>1 DEF Replans, Tally
  <2>6. tally'.cuts = run.recuts
    BY <2>3, <2>4, <2>5
  <2>7. tally'.versions = saved'.replans + 1 /\ saved'.replans <= MaxReplan
    BY <2>1, <2>2, <2>3, <2>5, Params DEF RunState
  <2> QED
    BY <1>1, <2>1, <2>2, <2>3, <2>6, <2>7 DEF Counted
<1>7. \/ /\ UNCHANGED saved /\ tally'.versions = tally.versions /\ tally'.cuts = tally.cuts
         /\ pc' # "replan" \/ UNCHANGED <<pc, run, outcome>>
      \/ (WriteState /\ pc' = "decide") \/ (Decide /\ pc' = "replan")
      \/ \E p \in Plans : Start(p) \/ Replans(p)
  <2>1. tally \in Tally
    BY DEF Types
  <2>2. CASE Execute
    <3>1. UNCHANGED saved /\ pc' # "replan"
      BY <2>2 DEF Execute, PlanLayer, CheckpointFails, Output, Delegate, Collected, Blob, Mark,
        Compute, Gate, Collect, CheckpointNode, Return, ledger
    <3>2. tally'.versions = tally.versions /\ tally'.cuts = tally.cuts
      BY <2>1, <2>2 DEF Execute, PlanLayer, CheckpointFails, Output, Delegate, Collected, Blob, Mark,
        Compute, Gate, Collect, Tally
    <3> QED
      BY <3>1, <3>2
  <2>3. CASE Drive
    <3>1. CASE Replan
      BY <3>1 DEF Replan, Replans, Finish, Gone
    <3>2. CASE ~Replan
      BY <2>3, <3>2 DEF Drive, Account, WriteState, Decide, Drain, Finish, Gone, ledger
    <3> QED
      BY <3>1, <3>2
  <2>4. CASE Load \/ Open \/ Crash
    <3>1. tally'.versions = tally.versions /\ tally'.cuts = tally.cuts
      BY <2>1, <2>4 DEF Load, Open, Crash, Tally
    <3>2. UNCHANGED saved /\ (pc' # "replan" \/ UNCHANGED <<pc, run, outcome>>)
      BY <2>4 DEF Load, Open, Crash, Gone, Enter, driver, ledger
    <3> QED
      BY <3>1, <3>2
  <2> QED
    BY <2>2, <2>3, <2>4 DEF Next, Dropped, Finish, Gone, vars, driver, ledger
<1> QED
  BY <1>2, <1>3, <1>4, <1>5, <1>6, <1>7

\* A step that leaves the checkpoints of the nodes alone, and the hash of the plan.
LEMMA SameLedger ==
  ASSUME Types, Single, Current, grains' = grains,
         saved' = saved \/ (pc # "down" /\ saved' = run)
  PROVE  Yes' = Yes /\ No' = No /\ Skip' = Skip /\ Current'
<1>1. CASE saved' = saved
  <2>1. Yes' = Yes /\ No' = No /\ Skip' = Skip
    BY <1>1, KnownSame
  <2> QED
    BY <1>1, <2>1 DEF Current
<1>2. CASE pc # "down" /\ saved' = run
  <2>1. /\ Hash(saved') = Hash(saved) /\ saved'.version = saved.version /\ saved'.plan = saved.plan
        /\ saved # NoRun /\ saved' # NoRun
    BY <1>2, SameHash, Params DEF Single
  <2>2. Yes' = Yes /\ No' = No /\ Skip' = Skip
    BY <2>1, KnownSame
  <2> QED
    BY <2>1, <2>2 DEF Current
<1> QED
  BY <1>1, <1>2

\* A version whose plan the ledger knows nothing of.
LEMMA NewVersion ==
  ASSUME Types', Single', pc' # "down", Enter(Nothing), grains' = grains,
         \A g \in grains : g.of # Hash(saved') /\ g.of[1] <= saved'.version
  PROVE  Current' /\ Mirrors'
<1>1. Yes' = {} /\ No' = {} /\ Skip' = {}
  BY KnownNothing
<1>2. pc' = "layer" /\ results' = NoResults /\ skipped' = {} /\ todo' = {} /\ got' = {}
  BY DEF Enter, Nothing
<1>3. Current'
  <2>1. saved' # NoRun
    BY Params DEF Types
  <2>2. Consistent(saved'.plan, Yes', No', Skip')
    BY <1>1, NothingIsConsistent
  <2> QED
    BY <2>1, <2>2 DEF Current
<1>4. Mirrors'
  BY <1>1, <1>2 DEF Mirrors, Executing, Writing, Over, NoResults
<1> QED
  BY <1>3, <1>4

LEMMA ResultsAreKnown ==
  ASSUME Types, Mirrors, pc # "down", NEW n \in Node
  PROVE  /\ results[n] # "none" => n \in Yes \cup No
         /\ n \in skipped => n \in Skip
         /\ Executing /\ n \in Yes \cup No /\ ~(Writing /\ n = cur.node) => results[n] # "none"
<1>1. results[n] \in {"yes", "no", "none"} /\ (Executing \/ Over)
  BY DEF Types, Value, Executing, Over
<1> QED
  BY <1>1 DEF Mirrors

LEMMA MirrorsOver ==
  ASSUME Types, Mirrors, pc # "down", Over', UNCHANGED <<results, skipped>>,
         Yes' = Yes, No' = No, Skip' = Skip
  PROVE  Mirrors'
<1>1. \A n \in Node : results[n] # "none" => n \in Yes \cup No
  BY ResultsAreKnown
<1>2. skipped \subseteq Skip
  BY DEF Mirrors, Types, Executing, Over
<1> QED
  BY <1>1, <1>2 DEF Mirrors, Executing, Over

LEMMA KnowLayer ==
  ASSUME LedgerIInv, Single, Current, Mirrors, PlanLayer
  PROVE  Current' /\ Mirrors'
<1> DEFINE L == Layer(plan, at)
           K == Yes \cup No \cup Skip
<1>1. pc = "layer" /\ pc' = "gate" /\ UNCHANGED <<run, saved, results, at, got, cur>>
  BY DEF PlanLayer, driver
<1>2. /\ Hash(run) = Hash(saved) /\ plan = saved.plan /\ saved \in RunState /\ saved # NoRun
      /\ plan \in Plans
  BY <1>1, SameHash DEF LedgerIInv
<1>3. PICK D \in SUBSET L :
        /\ at \in 1 .. Cardinality(plan.nodes)
        /\ D = {n \in L : ~Runs(plan, n, results, skipped)}
        /\ skipped' = skipped \cup D
        /\ grains' = grains \cup {[of |-> Hash(run), node |-> n, status |-> "skipped",
                                  value |-> "none", whole |-> TRUE] : n \in D \ skipped}
        /\ todo' = {n \in L \ D : results[n] = "none"}
  BY SkipGrains DEF LedgerIInv
<1>4. L \subseteq Node /\ got = {} /\ Executing /\ ~Writing
  BY <1>1, <1>2, <1>3, LayerInNode DEF LedgerIInv, Layered, Executing, Writing
<1>5. /\ \A n \in Node : results[n] = "yes" <=> n \in Yes
      /\ \A n \in Node : results[n] = "no" <=> n \in No
      /\ skipped = Skip
  BY <1>4 DEF Mirrors
<1>6. Consistent(plan, Yes, No, Skip)
  BY <1>2 DEF Current
<1>7. ASSUME NEW n \in L
      PROVE  Based(plan, n, K) /\ (Runs(plan, n, results, skipped) <=> Chosen(plan, n, Yes, Skip))
  <2>1. /\ n \in plan.nodes /\ \A m \in plan.deps[n] : Done(m)
        /\ plan.when[n] = None \/ plan.when[n].node \notin plan.nodes \/ Done(plan.when[n].node)
    BY <1>3, <1>4, LayerIsReady
  <2>2. plan.nodes \subseteq Node /\ plan.deps[n] \subseteq Node
    BY <1>2, <2>1, PlanFacts
  <2>3. \A m \in Node : Done(m) => m \in K
    BY <1>1, ResultsAreKnown DEF Done, LedgerIInv
  <2>4. Based(plan, n, K)
    BY <2>1, <2>2, <2>3 DEF Based
  <2>5. results \in [Node -> Value] /\ n \in Node
    BY <1>4 DEF LedgerIInv, Types
  <2>6. Runs(plan, n, results, skipped) <=> Chosen(plan, n, Yes, skipped)
    BY <1>2, <1>5, <2>5, RunsIsChosen
  <2> QED
    BY <1>5, <2>4, <2>6
<1>8. Yes' = Yes /\ No' = No /\ Skip' = Skip \cup D
  <2>1. D \ skipped \in SUBSET Node /\ saved' = saved
    BY <1>1, <1>4
  <2>2. grains' = grains \cup {[of |-> Hash(saved), node |-> n, status |-> "skipped",
                                value |-> "none", whole |-> TRUE] : n \in D \ skipped}
    BY <1>2, <1>3
  <2>3. Yes' = Yes /\ No' = No /\ Skip' = Skip \cup (D \ skipped)
    BY <2>1, <2>2, KnownSkip
  <2> QED
    BY <1>5, <2>3
<1>9. ASSUME NEW n \in K PROVE Based(plan, n, K) /\ (n \in Skip <=> ~Chosen(plan, n, Yes, Skip))
  BY <1>6 DEF Consistent
<1>10. Yes \cap No = {} /\ Yes \cap Skip = {} /\ No \cap Skip = {}
  BY <1>6 DEF Consistent
<1>11. \A n \in D : ~Chosen(plan, n, Yes, Skip) /\ Based(plan, n, K)
  BY <1>3, <1>7
<1>12. Yes \cap (Skip \cup D) = {} /\ No \cap (Skip \cup D) = {}
  BY <1>9, <1>10, <1>11
<1>13. /\ \A n : Based(plan, n, K) =>
             /\ Based(plan, n, Yes \cup No \cup (Skip \cup D))
             /\ Chosen(plan, n, Yes, Skip \cup D) <=> Chosen(plan, n, Yes, Skip)
       /\ Consistent(plan, Yes, No, Skip \cup D)
  <2>1. \A n \in (Yes \cup No \cup (Skip \cup D)) \ (Yes \cup No \cup Skip) :
          Based(plan, n, Yes \cup No \cup Skip) /\ (n \in Skip \cup D <=> ~Chosen(plan, n, Yes, Skip))
    BY <1>11
  <2> QED
    BY <1>2, <1>6, <1>10, <1>12, <2>1, Learn
<1>14. Current'
  <2>1. \A g \in grains' : g.of[1] <= saved.version
    <3>1. Hash(run)[1] = saved.version /\ saved.version \in Nat
      BY <1>2 DEF Hash, RunState
    <3>2. \A g \in grains : g.of[1] <= saved.version
      BY <1>2 DEF Current
    <3> QED
      BY <1>3, <3>1, <3>2
  <2> QED
    BY <1>1, <1>2, <1>8, <1>13, <2>1 DEF Current
<1>15. ASSUME NEW n \in todo'
       PROVE  /\ n \notin Yes \cup No \cup (Skip \cup D)
              /\ Based(plan, n, Yes \cup No \cup (Skip \cup D)) /\ Chosen(plan, n, Yes, Skip \cup D)
  <2>1. n \in L /\ n \notin D /\ results[n] = "none" /\ n \in Node
    BY <1>3, <1>4
  <2>2. Based(plan, n, K) /\ Chosen(plan, n, Yes, Skip)
    BY <1>3, <1>7, <2>1
  <2>3. n \notin Yes /\ n \notin No
    BY <1>5, <2>1
  <2>4. n \notin Skip
    BY <1>9, <2>2
  <2> QED
    BY <1>13, <2>1, <2>2, <2>3, <2>4
<1>16. Mirrors'
  <2>1. plan' = plan /\ got' = {} /\ skipped' = Skip \cup D
    BY <1>1, <1>3, <1>4, <1>5 DEF plan
  <2> HIDE DEF L, K
  <2> QED
    BY <1>1, <1>5, <1>8, <1>15, <2>1 DEF Mirrors, Executing, Writing, Over
<1> QED
  BY <1>14, <1>16

LEMMA KnowCheckpoint ==
  ASSUME LedgerIInv, Single, Current, Mirrors, NEW n \in Node, CheckpointNode(n),
         pc \in {"gate", "collect"}, n \in todo \cup got,
         todo' \subseteq todo /\ got' \subseteq got /\ n \notin todo' \cup got',
         UNCHANGED <<run, saved, results, skipped, at>>
  PROVE  Current' /\ Mirrors'
<1> DEFINE K == Yes \cup No \cup Skip
           Y1 == IF cur'.value = "yes" THEN Yes \cup {n} ELSE Yes
           N1 == IF cur'.value = "no" THEN No \cup {n} ELSE No
<1>1. /\ Hash(run) = Hash(saved) /\ plan = saved.plan /\ saved \in RunState /\ saved # NoRun
      /\ plan \in Plans
  BY SameHash DEF LedgerIInv
<1>2. /\ cur' \in Grain /\ cur'.of = Hash(saved) /\ cur'.node = n
      /\ cur'.status = "completed" /\ cur'.value \in {"yes", "no"}
      /\ grains' = grains \cup {cur'}
      /\ pc' \in {"blob", "mark"}
  BY <1>1, CheckpointGrain DEF LedgerIInv
<1>3. Yes' = Y1 /\ No' = N1 /\ Skip' = Skip
  BY <1>2, KnownWrite
<1>4. Executing /\ ~Writing
  BY DEF Executing, Writing
<1>5. /\ \A m \in Node : results[m] = "yes" <=> m \in Yes
      /\ \A m \in Node : results[m] = "no" <=> m \in No
      /\ skipped = Skip /\ todo \cap got = {}
      /\ \A m \in todo \cup got : m \notin K /\ Based(plan, m, K) /\ Chosen(plan, m, Yes, Skip)
  BY <1>4 DEF Mirrors
<1>6. n \notin K /\ Based(plan, n, K) /\ Chosen(plan, n, Yes, Skip)
  BY <1>5
<1>7. Consistent(plan, Yes, No, Skip)
  BY <1>1 DEF Current
<1>8. Yes \cap No = {} /\ Yes \cap Skip = {} /\ No \cap Skip = {}
  BY <1>7 DEF Consistent
<1>9. /\ Yes \subseteq Y1 /\ No \subseteq N1 /\ Y1 \cap N1 = {} /\ Y1 \cap Skip = {} /\ N1 \cap Skip = {}
      /\ Y1 \cup N1 \cup Skip = K \cup {n}
  BY <1>2, <1>6, <1>8
<1> HIDE DEF Y1, N1
<1>10. /\ \A m : Based(plan, m, K) =>
             /\ Based(plan, m, Y1 \cup N1 \cup Skip)
             /\ Chosen(plan, m, Y1, Skip) <=> Chosen(plan, m, Yes, Skip)
       /\ Consistent(plan, Y1, N1, Skip)
  <2>1. \A m \in (Y1 \cup N1 \cup Skip) \ (Yes \cup No \cup Skip) :
          Based(plan, m, Yes \cup No \cup Skip) /\ (m \in Skip <=> ~Chosen(plan, m, Yes, Skip))
    BY <1>6, <1>9
  <2>2. /\ plan \in Plans /\ Consistent(plan, Yes, No, Skip) /\ Skip \subseteq Skip
        /\ Yes \subseteq Y1 /\ No \subseteq N1 /\ Y1 \cap N1 = {} /\ Y1 \cap Skip = {} /\ N1 \cap Skip = {}
    BY <1>1, <1>7, <1>9
  <2> QED
    BY <2>1, <2>2, Learn
<1>11. Current'
  <2>1. \A g \in grains' : g.of[1] <= saved.version
    <3>1. Hash(saved)[1] = saved.version /\ saved.version \in Nat
      BY <1>1 DEF Hash, RunState
    <3>2. \A g \in grains : g.of[1] <= saved.version
      BY <1>1 DEF Current
    <3> QED
      BY <1>2, <3>1, <3>2
  <2> QED
    BY <1>1, <1>3, <1>10, <2>1 DEF Current
<1>12. \A m \in todo' \cup got' :
         /\ m \notin Y1 \cup N1 \cup Skip
         /\ Based(plan, m, Y1 \cup N1 \cup Skip) /\ Chosen(plan, m, Y1, Skip)
  <2> SUFFICES ASSUME NEW m \in todo' \cup got'
               PROVE  /\ m \notin Y1 \cup N1 \cup Skip
                      /\ Based(plan, m, Y1 \cup N1 \cup Skip) /\ Chosen(plan, m, Y1, Skip)
    OBVIOUS
  <2>1. m \in todo \cup got /\ m # n
    OBVIOUS
  <2>2. m \notin K /\ Based(plan, m, K) /\ Chosen(plan, m, Yes, Skip)
    BY <1>5, <2>1
  <2> QED
    BY <1>9, <1>10, <2>1, <2>2
<1>13. \A m \in Node : m # n => (m \in Y1 <=> m \in Yes) /\ (m \in N1 <=> m \in No)
  BY DEF Y1, N1
<1>14. n \in Y1 \cup N1
  BY <1>2 DEF Y1, N1
<1>15. results[n] = "none"
  <2>1. results[n] \in {"yes", "no", "none"}
    BY DEF LedgerIInv, Types, Value
  <2> QED
    BY <1>5, <1>6, <2>1
<1>16. Mirrors'
  <2>1. plan' = plan
    BY DEF plan
  <2> HIDE DEF K
  <2> QED
    BY <1>2, <1>3, <1>5, <1>12, <1>13, <1>14, <1>15, <2>1 DEF Mirrors, Executing, Writing, Over
<1> QED
  BY <1>11, <1>16

LEMMA KnowExecute ==
  ASSUME LedgerIInv, Single, Current, Mirrors, Execute
  PROVE  Current' /\ Mirrors'
<1>1. /\ pc # "down" /\ Executing /\ run' = run /\ saved' = saved /\ plan' = plan
      /\ \/ pc' \in {"return", "layer", "gate", "collect", "blob", "mark"}
  BY DEF Execute, PlanLayer, CheckpointFails, Output, Delegate, Collected, Blob, Mark, Compute,
    Gate, Collect, Return, CheckpointNode, driver, ledger, plan, Executing
<1>2. Types /\ Pending /\ Shapes
  BY DEF LedgerIInv
<1>3. ASSUME grains' = grains
      PROVE  Yes' = Yes /\ No' = No /\ Skip' = Skip /\ Current'
  BY <1>1, <1>2, <1>3, SameLedger
<1>4. CASE grains' = grains /\ pc' = "return" /\ UNCHANGED <<results, skipped>>
  <2>1. Over'
    BY <1>4 DEF Over
  <2> QED
    BY <1>1, <1>2, <1>3, <1>4, <2>1, MirrorsOver
<1>5. CASE PlanLayer
  BY <1>5, KnowLayer
<1>6. CASE Delegate \/ Collected
  <2>1. /\ pc \in {"gate", "collect"} /\ pc' \in {"layer", "collect"}
        /\ UNCHANGED <<grains, results, skipped, todo, got>>
    BY <1>6 DEF Delegate, Collected, ledger
  <2> QED
    BY <1>1, <1>3, <2>1 DEF Mirrors, Executing, Writing, Over
<1>7. CASE Blob
  <2>1. pc = "blob" /\ pc' = "mark" /\ UNCHANGED <<results, skipped, todo, got, cur>>
    BY <1>7 DEF Blob
  <2>2. Yes' = Yes /\ No' = No /\ Skip' = Skip
    BY <1>2, <1>7, KnownBlob
  <2>3. Mirrors'
    BY <1>1, <2>1, <2>2 DEF Mirrors, Executing, Writing, Over
  <2>4. \A g \in grains' : g.of[1] <= saved.version
    <3> DEFINE c == [cur EXCEPT !.whole = TRUE]
    <3>1. cur \in Grain /\ cur \in grains /\ grains' = (grains \ {cur}) \cup {c}
      BY <1>2, <1>7 DEF Blob, Pending, Writing
    <3>2. c.of = cur.of
      BY <3>1 DEF Grain
    <3>3. \A g \in grains : g.of[1] <= saved.version
      BY <1>1, <1>2, SameHash DEF Current
    <3> HIDE DEF c
    <3> QED
      BY <3>1, <3>2, <3>3
  <2>5. Current'
    BY <1>1, <1>2, <2>2, <2>4, SameHash DEF Current
  <2> QED
    BY <2>3, <2>5
<1>8. CASE Mark
  <2>1. /\ pc = "mark" /\ pc' \in {"gate", "collect", "return"} /\ grains' = grains
        /\ results' = [results EXCEPT ![cur.node] = cur.value] /\ skipped' = skipped
        /\ pc' # "return" => UNCHANGED <<todo, got>>
    BY <1>8 DEF Mark, Return, ledger
  <2>2. cur \in Grain /\ cur.of = Hash(saved) /\ cur.value # "none" /\ Holds(cur.of, cur.node, cur.value)
    BY <1>1, <1>2, <2>1, SameHash DEF Pending, Writing
  <2>3. cur.node \in Known("completed", cur.value) /\ cur.value \in {"yes", "no"} /\ cur.node \in Node
    <3>1. PICK g \in grains : g.of = Hash(saved) /\ g.node = cur.node /\ g.value = cur.value
      BY <2>2 DEF Holds
    <3>2. g.status = "completed" /\ cur.node \in Node /\ cur.value \in {"yes", "no"}
      BY <1>2, <2>2, <3>1 DEF Shapes, Grain
    <3> QED
      BY <3>1, <3>2 DEF Known
  <2>4. Yes \cap No = {}
    BY <1>1, <1>2, SameHash DEF Current, Consistent
  <2>5. (cur.node \in Yes <=> cur.value = "yes") /\ (cur.node \in No <=> cur.value = "no")
    BY <2>3, <2>4 DEF Yes, No
  <2>6. Yes' = Yes /\ No' = No /\ Skip' = Skip /\ Current'
    BY <1>3, <2>1
  <2>7. /\ \A n \in Node : n # cur.node => (results[n] = "yes" <=> n \in Yes) /\ (results[n] = "no" <=> n \in No)
        /\ skipped = Skip /\ todo \cap got = {}
        /\ \A n \in todo \cup got :
             /\ n \notin Yes \cup No \cup Skip
             /\ Based(plan, n, Yes \cup No \cup Skip) /\ Chosen(plan, n, Yes, Skip)
    BY <1>1, <2>1 DEF Mirrors
  <2>8. \A n \in Node : results'[n] = IF n = cur.node THEN cur.value ELSE results[n]
    BY <1>2, <2>1 DEF Types
  <2>9. \A n \in Node : (results'[n] = "yes" <=> n \in Yes) /\ (results'[n] = "no" <=> n \in No)
    BY <2>5, <2>7, <2>8
  <2>10. CASE pc' = "return"
    <3>1. \A n \in Node : results'[n] # "none" => n \in Yes \cup No
      <4>1. results' \in [Node -> Value]
        BY <1>2, <2>1, <2>3 DEF Types, Value
      <4> QED
        BY <2>9, <4>1 DEF Value
    <3> QED
      BY <2>1, <2>6, <2>7, <2>10, <3>1 DEF Mirrors, Executing, Over
  <2>11. CASE pc' \in {"gate", "collect"}
    BY <1>1, <2>1, <2>6, <2>7, <2>9, <2>11 DEF Mirrors, Executing, Writing, Over
  <2> QED
    BY <2>1, <2>6, <2>10, <2>11
<1>9. ASSUME NEW n \in Node, Gate(n), pc' # "return" PROVE Current' /\ Mirrors'
  <2>1. /\ pc = "gate" /\ pc' = "gate" /\ n \in todo
        /\ todo' = todo \ {n} /\ got' = got \cup {n} /\ UNCHANGED <<grains, results, skipped>>
    BY <1>9 DEF Gate, Return, ledger
  <2>2. todo' \cup got' = todo \cup got /\ (todo \cap got = {} => todo' \cap got' = {})
    BY <2>1
  <2> QED
    BY <1>1, <1>3, <2>1, <2>2 DEF Mirrors, Executing, Writing, Over
<1>10. ASSUME NEW n \in Node, Compute(n) \/ Collect(n), pc' # "return" PROVE Current' /\ Mirrors'
  <2>1. /\ pc \in {"gate", "collect"} /\ CheckpointNode(n) /\ n \in todo \cup got
        /\ todo' \subseteq todo /\ got' \subseteq got
        /\ UNCHANGED <<results, skipped, at>>
    BY <1>10 DEF Compute, Collect, Return
  <2>2. todo \cap got = {}
    BY <1>1 DEF Mirrors
  <2>3. n \notin todo' \cup got'
    BY <1>10, <2>2 DEF Compute, Collect, Return
  <2> QED
    BY <1>1, <2>1, <2>3, KnowCheckpoint
<1>11. ASSUME NEW n \in Node, Compute(n) \/ Collect(n) \/ Gate(n), pc' = "return"
       PROVE  grains' = grains /\ UNCHANGED <<results, skipped>>
  BY <1>11 DEF Compute, Collect, Gate, CheckpointNode, ledger
<1>12. ASSUME CheckpointFails \/ Output
       PROVE  grains' = grains /\ pc' = "return" /\ UNCHANGED <<results, skipped>>
  BY <1>12 DEF CheckpointFails, Output, Return, ledger
<1> QED
  BY <1>4, <1>5, <1>6, <1>7, <1>8, <1>9, <1>10, <1>11, <1>12 DEF Execute

LEMMA KnowStep ==
  ASSUME Overlap <= 1, LedgerIInv, Single, Current, Mirrors, [Next]_vars
  PROVE  Current' /\ Mirrors'
<1>1. Types /\ Shapes /\ Types' /\ Single'
  BY TypesStep, SingleStep DEF LedgerIInv
<1>2. CASE Execute
  BY <1>2, KnowExecute
<1>3. ASSUME NEW p \in Plans, Start(p) PROVE Current' /\ Mirrors'
  <2>1. grains' = {} /\ grains = {} /\ Enter(Nothing) /\ pc' = "layer"
    BY <1>3 DEF Start, Enter, Current
  <2> QED
    BY <1>1, <2>1, NewVersion
<1>4. ASSUME NEW p \in Plans, Replans(p) PROVE Current' /\ Mirrors'
  <2>1. pc # "down" /\ grains' = grains /\ Enter(Nothing) /\ pc' = "layer" /\ saved' = run'
    BY <1>4 DEF Replans, Enter
  <2>2. run \in RunState /\ run.version = saved.version /\ saved # NoRun /\ saved \in RunState
    BY <1>1, <2>1, SameHash DEF Single
  <2>3. saved'.version = saved.version + 1 /\ saved.version \in Nat
    BY <1>4, <2>1, <2>2 DEF Replans, RunState
  <2>4. ASSUME NEW g \in grains PROVE g.of # Hash(saved') /\ g.of[1] <= saved'.version
    <3>1. g.of \in Nat \X Plans
      BY <1>1 DEF Types, Grain
    <3>2. g.of[1] <= saved.version
      BY <2>2 DEF Current
    <3>3. g.of[1] \in Nat /\ Hash(saved')[1] = saved'.version
      BY <3>1 DEF Hash
    <3> QED
      BY <2>3, <3>2, <3>3
  <2> QED
    BY <1>1, <2>1, <2>4, NewVersion
<1>5. CASE Opens
  <2>1. /\ pc = "down" /\ loaded # << >> /\ grains' = grains /\ saved' = saved
        /\ Enter(Head(loaded).seed) /\ Head(loaded) = [run |-> saved, seed |-> Replay]
    BY <1>5 DEF Opens, ledger, Single
  <2>2. /\ pc' = "layer" /\ results' = Replay.results /\ skipped' = Replay.skipped
        /\ todo' = {} /\ got' = {}
    BY <2>1 DEF Enter
  <2>3. saved \in RunState
    BY <1>1, <2>1 DEF Types
  <2>4. Yes' = Yes /\ No' = No /\ Skip' = Skip /\ Current'
    BY <1>1, <2>1, SameLedger
  <2>5. /\ \A n \in Node : Replay.results[n] = "yes" <=> n \in Yes
        /\ \A n \in Node : Replay.results[n] = "no" <=> n \in No
        /\ Replay.skipped = Skip
    BY <1>1, <2>3, ReplayIsKnown
  <2> QED
    BY <2>2, <2>4, <2>5 DEF Mirrors, Executing, Writing, Over
<1>6. CASE /\ UNCHANGED grains /\ (saved' = saved \/ (pc # "down" /\ saved' = run))
           /\ \/ pc' = "down"
              \/ pc # "down" /\ Over' /\ UNCHANGED <<results, skipped>>
              \/ UNCHANGED <<pc, exec, run, cur>>
  <2>1. Yes' = Yes /\ No' = No /\ Skip' = Skip /\ Current'
    BY <1>1, <1>6, SameLedger
  <2>2. CASE pc' = "down"
    BY <2>1, <2>2 DEF Mirrors, Executing, Over
  <2>3. CASE pc # "down" /\ Over' /\ UNCHANGED <<results, skipped>>
    BY <1>1, <2>1, <2>3, MirrorsOver
  <2>4. CASE UNCHANGED <<pc, exec, run, cur>>
    BY <2>1, <2>4 DEF Mirrors, Executing, Over, Writing, exec, plan
  <2> QED
    BY <1>6, <2>1, <2>2, <2>3, <2>4
<1>7. CASE Drive /\ ~ \E p \in Plans : Replans(p)
  <2>1. UNCHANGED grains /\ (saved' = saved \/ (pc # "down" /\ saved' = run))
    BY <1>7 DEF Drive, Account, WriteState, Decide, Replan, Replans, Drain, Finish, ledger
  <2>2. pc' = "down" \/ (pc # "down" /\ Over' /\ UNCHANGED <<results, skipped>>)
    BY <1>7 DEF Drive, Account, WriteState, Decide, Replan, Replans, Drain, Finish, Gone, Over, exec,
      driver
  <2> QED
    BY <1>6, <2>1, <2>2
<1>8. CASE Load \/ (Open /\ ~Opens) \/ Dropped \/ Crash \/ UNCHANGED vars
  <2>1. UNCHANGED <<grains, saved>>
    BY <1>8 DEF Load, Open, Dropped, Crash, vars, ledger
  <2>2. pc' = "down" \/ UNCHANGED <<pc, exec, run, cur>>
    BY <1>8 DEF Load, Open, Opens, Dropped, Crash, Finish, Gone, vars, exec, driver
  <2> QED
    BY <1>6, <2>1, <2>2
<1> QED
  BY <1>2, <1>3, <1>4, <1>5, <1>7, <1>8 DEF Next

\* With one resume at a time the ledger and the memory of its one driver agree on every node,
\* over crashes between any two writes (checkpoint_node, mark, replay_node_checkpoints).
THEOREM RunIInvHolds ==
  ASSUME Overlap <= 1
  PROVE  Safety => []RunIInv
<1>1. Init => Current /\ Single /\ Mirrors /\ Counted
  <2> SUFFICES ASSUME Init PROVE Current /\ Single /\ Mirrors /\ Counted
    OBVIOUS
  <2> QED
    BY DEF Init, Current, Single, Mirrors, Counted, Executing, Over
<1>2. /\ LedgerIInv /\ Current /\ Single /\ Mirrors /\ Counted /\ [Next]_vars
      => (Current /\ Single /\ Mirrors /\ Counted)'
  BY SingleStep, CountedStep, KnowStep DEF LedgerIInv
<1> QED
  BY <1>1, <1>2, LedgerIInvHolds, PTL DEF Safety, RunIInv

LEMMA NothingTwice ==
  ASSUME RunIInv
  PROVE  ZeroReexecution
<1> SUFFICES ASSUME pc \in {"gate", "collect"}, NEW n \in todo \cup got, n \in Completed(Hash(run))
             PROVE  FALSE
  BY DEF ZeroReexecution
<1>1. Types /\ Shapes /\ Single /\ Mirrors
  BY DEF RunIInv, LedgerIInv
<1>2. PICK g \in grains : g.of = Hash(run) /\ g.status = "completed" /\ g.node = n
  BY DEF Completed
<1>3. n \in Yes \cup No
  BY <1>1, <1>2, SameHash, KnownAll
<1> QED
  BY <1>1, <1>3 DEF Mirrors, Executing

LEMMA OneVerdict ==
  ASSUME RunIInv
  PROVE  TypeOK
<1>1. Types /\ Mirrors /\ Current
  BY DEF RunIInv, LedgerIInv
<1>2. ASSUME NEW n \in skipped PROVE results[n] = "none"
  <2>1. pc # "down" /\ n \in Node
    BY <1>1 DEF Types
  <2>2. saved # NoRun
    BY <1>1, <2>1, Params DEF Types
  <2>3. Yes \cap Skip = {} /\ No \cap Skip = {}
    BY <1>1, <2>2 DEF Current, Consistent
  <2> QED
    BY <1>1, <2>1, <2>3, ResultsAreKnown
<1>3. {fresh, skipped, todo, got, marks} \subseteq SUBSET Node
  BY <1>1 DEF Types
<1>4. outcome.kind \in {"ok", "granule", "interface", "enforce", "other"}
  BY <1>1 DEF Types
<1> QED
  BY <1>1, <1>2, <1>3, <1>4 DEF Types, TypeOK, Value

LEMMA CountsAreBounded ==
  ASSUME RunIInv
  PROVE  BudgetsHold
<1>1. saved \in RunState \cup {NoRun} /\ Counted
  BY DEF RunIInv, LedgerIInv, Types
<1>2. CASE saved = NoRun
  BY <1>1, <1>2, Params DEF Counted, BudgetsHold
<1>3. CASE saved # NoRun
  <2>1. saved \in RunState /\ saved.replans \in Nat
    BY <1>1, <1>3 DEF RunState
  <2> QED
    BY <1>1, <1>3, <2>1, Params DEF Counted, BudgetsHold
<1> QED
  BY <1>2, <1>3

\* With one resume at a time no node is both completed and skipped, over any crashes and
\* resumes, and nothing is a result that the ledger does not hold (replay_node_checkpoints,
\* plan_layer).
THEOREM ResumesAgreeWithLedger ==
  ASSUME Overlap <= 1
  PROVE  Safety => []PlanInv
BY RunIInvHolds, OneVerdict, LedgerComesFirst, PTL DEF RunIInv, PlanInv

\* With one resume at a time a node whose completion is in the ledger is never executed again
\* for the same plan.
THEOREM CompletedStayCompleted ==
  ASSUME Overlap <= 1
  PROVE  Safety => []ZeroReexecution
BY RunIInvHolds, NothingTwice, PTL

\* With one resume at a time a run has at most MaxReplan + 1 versions and splits no atomic node
\* more than MaxRecuts times, over all its processes (should_replan, route_for_failure_class).
THEOREM ResumesRefillNothing ==
  ASSUME Overlap <= 1
  PROVE  Safety => []BudgetsHold
BY RunIInvHolds, CountsAreBounded, PTL
=============================================================================
