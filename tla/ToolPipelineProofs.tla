------------------------- MODULE ToolPipelineProofs -------------------------
(****************************************************************************)
(* Theorems about ToolPipeline for every set of calls, every classification *)
(* of them, every batch size and cap, every number of intents, polls,       *)
(* retries and rounds: the types, EffectIsApproved, ForbiddenNeverRuns,     *)
(* AtMostOnce and ApprovalsFiledRight.                                      *)
(*                                                                          *)
(* A call may be executed ahead, served from the cache, or sent through the *)
(* pipeline again after a decision.  The first invariant (IInv) says where  *)
(* its instances may be, how they got past the channel and the approval     *)
(* stage; the second (OInv) where the result of its one execution is; the   *)
(* third (FInv) whose entry is the last of the trace.                       *)
(****************************************************************************)
EXTENDS ToolPipeline, WellFoundedInduction, TLAPS

\* An instance at work belongs to a call of the batch; the others are empty.
Placed ==
  \A s \in Slot :
    \/ inst[s] = Idle
    \/ /\ inst[s].stage # "none"
       /\ PlaceOf(s) \in DOMAIN batch
       /\ inst[s].call = batch[PlaceOf(s)]

\* Which instances are at work in which phase.
Phased ==
  /\ phase # "preflight" => \A s \in Place : inst[s].stage = "none"
  /\ phase \in {"llm", "preflight", "ended"} => inst[Main].stage = "none"
  /\ phase = "asking" => inst[Main].stage = "done"
  /\ phase = "preflight" => Ahead(batch)

\* Whoever holds the channel is at the gate, with an intent to submit.
Held ==
  /\ adj.step # "idle" => adj.holder \in Slot
  /\ adj.holder \in Slot => adj.step # "idle" /\ inst[adj.holder].stage = "gate"
  /\ \A s \in Slot : inst[s].stage = "gate" => inst[s].todo > 0

\* Only the loop's instance carries a decision, and it is the call's own;
\* a candidate passes the approval stage with one only.  Only an instance ahead
\* of the loop carries a flag that the LLM wrote.
Preset ==
  \A s \in Slot :
    /\ inst[s].preset = "approved" => s = Main /\ pos \in approved
    /\ inst[s].preset = "claimed" => s # Main /\ inst[s].call \in SelfApproved
    /\ inst[s].stage = "exec" /\ inst[s].call \in Candidate => inst[s].preset = "approved"

\* Until a verdict has been given too early, at most one intent waits, the
\* holder's, and the version has advanced only if the rules let it through.
OneIntentWaits ==
  /\ adj.step # "poll" => wire = << >>
  /\ adj.step = "poll" => wire = << >> \/ wire = <<Submitted>>
  /\ adj.advanced => adj.step = "poll" /\ Submitted \notin Forbidden

\* A forbidden call has an intent at the gate, and does not get past it.
Gated == \A s \in Slot : inst[s].stage \in {"approve", "exec"} => inst[s].call \notin Forbidden

Judged == ~outrun => OneIntentWaits /\ Gated

IInv == TypeOK /\ Placed /\ Phased /\ Held /\ Preset /\ EffectIsApproved /\ Judged

\* The one execution of a call that is not idempotent is behind the loop, or
\* its result waits: in the instance that ran ahead, in the cache, in the
\* loop's instance.  A result that asks for a decision or an answer is none.
Spent(p) ==
  \/ p < pos \/ phase \in {"llm", "ended"}
  \/ phase = "preflight" /\ inst[p].stage = "done" /\ inst[p].out \in {"ok", "failed"}
  \/ /\ phase \in {"main", "asking"}
     /\ p > pos \/ inst[Main].stage = "none"
     /\ Cap > 1 /\ cache[batch[p]].kind # "none"
  \/ /\ phase = "main" /\ inst[Main].stage \in {"gate", "approve", "exec"}
     /\ p = pos /\ inst[Main].cached.kind # "none"
  \/ phase = "main" /\ inst[Main].stage = "done" /\ p = pos /\ ~Waits

Counted ==
  \A p \in DOMAIN batch : batch[p] \notin Idempotent =>
    runs[p] \in {0, 1} /\ (runs[p] = 1 => Spent(p))

\* A batch is executed ahead before the loop has started.
AheadFirst == phase = "preflight" => Cap > 1 /\ pos = 1

\* An instance that is done has a result, and no proposal is kept.
Results ==
  /\ \A s \in Slot : inst[s].stage = "done" => inst[s].out # "none"
  /\ \A c \in Call : cache[c].kind # "proposal"
  /\ inst[Main].cached.kind # "proposal"

\* No decision before the loop is at the call, nor about a call that is served.
Undecided ==
  /\ \A p \in DOMAIN batch : p > pos \/ (p = pos /\ inst[Main].stage = "none") => p \notin approved
  /\ inst[Main].cached.kind # "none" => pos \notin approved

OInv == Counted /\ AheadFirst /\ Results /\ Undecided

\* While the loop has a proposal in hand or passes an approved call again, the
\* last entry of the trace is that call's.
Filed == inst[Main].preset = "approved" \/ inst[Main].out = "proposal" => trace = {batch[pos]}

FInv == Filed /\ ApprovalsFiledRight

\* What the assumption says of the numbers and the calls.
LEMMA Numbers ==
  /\ Cap \in Nat \ {0} /\ MaxPolls \in Nat \ {0} /\ MaxBatch \in Nat \ {0}
  /\ MaxRetries \in Nat /\ MaxRounds \in Nat /\ MaxLate \in Nat
  BY ToolPipelineAssumption

LEMMA Calls ==
  /\ Intents \in [Call -> 0 .. 3]
  /\ \A c \in Forbidden : Intents[c] > 0
  /\ Nobody \notin Nat
  /\ Answers \subseteq UNION {[1 .. n -> Call] : n \in 1 .. MaxBatch}
  BY ToolPipelineAssumption

\* A nonempty set of positions has a last one: Keep chooses a member.
LEMMA LastExists ==
  ASSUME NEW n \in Nat, NEW S \in SUBSET (1 .. n), S # {}
  PROVE  \E i \in S : \A j \in S : j <= i
<1> DEFINE T == {n - i : i \in S}
<1>1. T \subseteq Nat /\ T # {}
  <2>1. \A i \in S : i \in 1 .. n
    OBVIOUS
  <2>2. \A i \in 1 .. n : n - i \in Nat
    OBVIOUS
  <2> QED BY <2>1, <2>2
<1>2. PICK x \in T : \A y \in T : ~ (<<y, x>> \in OpToRel(<, Nat))
  BY <1>1, NatLessThanWellFounded, WFMin, Zenon
<1>3. \A y \in T : ~ (y < x)
  BY <1>1, <1>2 DEF OpToRel
<1>4. PICK i \in S : x = n - i
  BY <1>2
<1>5. \A j \in S : j <= i
  <2>1. ASSUME NEW j \in S PROVE j <= i
    <3>1. n - j \in T
      OBVIOUS
    <3>2. ~ (n - j < n - i)
      BY <3>1, <1>3, <1>4
    <3> QED BY <3>2
  <2> QED BY <2>1
<1> QED BY <1>5

\* A new instance is well formed.
LEMMA EnterType ==
  ASSUME NEW c \in Call, NEW preset \in {"none", "approved", "answered", "claimed"}, NEW v \in Value
  PROVE  /\ Enter(c, preset, v) \in Instance
         /\ Enter(c, preset, v).call = c
         /\ Enter(c, preset, v).preset = preset
         /\ Enter(c, preset, v).cached = v
         /\ Enter(c, preset, v).stage \in {"gate", "approve", "done"}
         /\ Enter(c, preset, v).stage = "done" => Enter(c, preset, v).out = "error"
         /\ Enter(c, preset, v).stage = "gate" => Enter(c, preset, v).todo > 0
         /\ Enter(c, preset, v).stage = "approve" => c \notin Forbidden
  BY Numbers, Calls DEF Enter, Idle, Instance, NoValue, Value, Result

\* What Fill keeps for a call: the result of one of its instances, if one has
\* a result to keep.
Kept(c) == {i \in DOMAIN batch : batch[i] = c /\ inst[i].out # "proposal"}

LEMMA KeepChooses ==
  ASSUME TypeOK, NEW c \in Call
  PROVE  /\ Kept(c) = {} => Keep(c) = cache[c]
         /\ Kept(c) # {} => \E i \in Kept(c) : Keep(c) = [kind |-> inst[i].out, round |-> round]
<1>1. CASE Kept(c) = {}
  BY <1>1 DEF Keep, Kept
<1>2. CASE Kept(c) # {}
  <2>1. Len(batch) \in Nat /\ DOMAIN batch = 1 .. Len(batch) /\ Len(batch) <= MaxBatch
    BY DEF TypeOK
  <2>2. Kept(c) \in SUBSET (1 .. Len(batch))
    BY <2>1 DEF Kept
  <2>3. \E i \in Kept(c) : \A j \in Kept(c) : j <= i
    BY <1>2, <2>1, <2>2, LastExists
  <2> DEFINE last == CHOOSE i \in Kept(c) : \A j \in Kept(c) : j <= i
  <2>4. last \in Kept(c)
    BY <2>3
  <2>5. Keep(c) = [kind |-> inst[last].out, round |-> round]
    BY <1>2 DEF Keep, Kept
  <2> QED BY <1>2, <2>4, <2>5
<1> QED BY <1>1, <1>2

LEMMA KeepType ==
  ASSUME TypeOK, NEW c \in Call
  PROVE  Keep(c) \in Value
<1>1. CASE Kept(c) = {}
  <2>1. Keep(c) = cache[c]
    BY <1>1, KeepChooses
  <2> QED BY <2>1 DEF TypeOK
<1>2. CASE Kept(c) # {}
  <2>1. PICK i \in Kept(c) : Keep(c) = [kind |-> inst[i].out, round |-> round]
    BY <1>2, KeepChooses
  <2>2. i \in Slot
    BY Numbers DEF TypeOK, Kept, Slot
  <2>3. inst[i].out \in Result \cup {"none"}
    BY <2>2 DEF TypeOK, Instance
  <2> QED BY <2>1, <2>3 DEF TypeOK, Value
<1> QED BY <1>1, <1>2

\* The invariant holds at the start.
LEMMA IInvInit == Init => IInv
<1> SUFFICES ASSUME Init PROVE IInv
  OBVIOUS
<1> USE Numbers, Calls DEF Init
<1>1. Idle \in Instance
  BY DEF Idle, Instance, NoValue, Value, Result
<1>2. TypeOK
  <2>1. batch \in Seq(Call) /\ Len(batch) <= MaxBatch /\ wire \in Seq(Call) /\ Len(wire) <= MaxLate
    OBVIOUS
  <2>2. inst \in [Slot -> Instance] /\ cache \in [Call -> Value] /\ runs \in [Place -> Nat]
    BY <1>1 DEF NoValue, Value, Place
  <2>3. adj \in [holder : Slot \cup {Nobody}, step : {"idle", "read", "submit", "poll"},
                 advanced : BOOLEAN, polls : 0 .. MaxPolls, attempt : 1 .. 2]
    BY DEF Unlocked
  <2>4. round \in 0 .. MaxRounds /\ pos \in 1 .. MaxBatch + 1
    OBVIOUS
  <2>5. approved \subseteq Place /\ trace \subseteq Call /\ {outrun, misfiled} \subseteq BOOLEAN
    OBVIOUS
  <2> QED BY <2>1, <2>2, <2>3, <2>4, <2>5 DEF TypeOK
<1>3. Placed /\ Phased /\ Held /\ Preset
  BY DEF Placed, Phased, Held, Preset, Idle, Unlocked, Main, Slot, Place
<1>4. EffectIsApproved
  BY DEF EffectIsApproved
<1>5. Judged
  BY DEF Judged, OneIntentWaits, Gated, Idle, Unlocked
<1> QED BY <1>2, <1>3, <1>4, <1>5 DEF IInv

LEMMA Slots == Place \subseteq Slot /\ Main \in Slot /\ Slot = Place \cup {Main} /\ Main \notin Place
  BY Numbers DEF Slot, Place, Main

\* An instance that leaves the pipeline.
LEMMA OutcomeMoves ==
  ASSUME TypeOK, NEW s \in Slot, NEW k \in Result
  PROVE  /\ Outcome(s, k) \in [Slot -> Instance]
         /\ Outcome(s, k)[s].stage = "done"
         /\ Outcome(s, k)[s].call = inst[s].call
         /\ Outcome(s, k)[s].preset = inst[s].preset
         /\ Outcome(s, k)[s].cached = inst[s].cached
         /\ Outcome(s, k)[s].out = k
         /\ \A t \in Slot \ {s} : Outcome(s, k)[t] = inst[t]
<1> DEFINE r == [inst[s] EXCEPT !.stage = "done", !.out = k]
<1>1. inst \in [Slot -> Instance] /\ inst[s] \in Instance
  BY DEF TypeOK
<1>2. /\ r \in Instance /\ r.stage = "done" /\ r.call = inst[s].call
      /\ r.preset = inst[s].preset /\ r.cached = inst[s].cached /\ r.out = k
  BY <1>1 DEF Instance
<1>3. Outcome(s, k) = [inst EXCEPT ![s] = r]
  BY <1>1 DEF Outcome
<1> QED BY <1>1, <1>2, <1>3

\* The instance at the gate, when one holds the channel.
LEMMA Holder ==
  ASSUME IInv, adj.step # "idle"
  PROVE  /\ adj.holder \in Slot
         /\ inst[adj.holder].stage = "gate"
         /\ inst[adj.holder].todo \in 1 .. 3
         /\ Submitted \in Call
<1>1. adj.holder \in Slot /\ inst[adj.holder].stage = "gate" /\ inst[adj.holder].todo > 0
  BY DEF IInv, Held
<1>2. inst[adj.holder] \in Instance
  BY <1>1 DEF IInv, TypeOK
<1>3. inst[adj.holder].todo \in 1 .. 3
  BY <1>1, <1>2 DEF Instance
<1>4. Submitted \in Call
  BY <1>1 DEF IInv, Placed, Idle, TypeOK, Submitted
<1> QED BY <1>1, <1>3, <1>4

-----------------------------------------------------------------------------
(* One lemma per action: it preserves the invariant. *)

LEMMA LockStep ==
  ASSUME IInv, NEW s \in Slot, Lock(s)
  PROVE  IInv'
<1> USE DEF IInv
<1>1. adj' = [holder |-> s, step |-> "read", advanced |-> FALSE, polls |-> 0, attempt |-> 1]
  BY DEF Lock, Unlocked
<1>2. /\ UNCHANGED <<round, batch, phase, pos, inst, cache, wire, outrun>>
      /\ UNCHANGED <<runs, approved, trace, misfiled>>
  BY DEF Lock, record
<1>3. inst[s].stage = "gate" /\ adj.holder = Nobody
  BY DEF Lock
<1>4. TypeOK'
  BY <1>1, <1>2, Numbers DEF TypeOK
<1>5. Placed' /\ Phased' /\ Preset' /\ EffectIsApproved'
  BY <1>2 DEF Placed, PlaceOf, Phased, Preset, EffectIsApproved
<1>6. Held'
  BY <1>1, <1>2, <1>3 DEF Held
<1>7. Judged'
  <2>1. adj.step # "poll"
    BY <1>3, Calls DEF Held, Slot
  <2> QED BY <1>1, <1>2, <2>1 DEF Judged, OneIntentWaits, Gated
<1> QED BY <1>4, <1>5, <1>6, <1>7

LEMMA ReadVersionStep ==
  ASSUME IInv, ReadVersion
  PROVE  IInv'
<1> USE DEF IInv, ReadVersion
<1>1. /\ adj'.holder = adj.holder /\ adj'.step = "submit" /\ adj'.advanced = FALSE
      /\ adj'.polls = adj.polls /\ adj'.attempt = adj.attempt
  BY DEF TypeOK
<1>2. TypeOK'
  BY DEF TypeOK, record
<1>3. Placed' /\ Phased' /\ Preset' /\ EffectIsApproved'
  BY DEF Placed, PlaceOf, Phased, Preset, EffectIsApproved, record
<1>4. Held'
  BY <1>1 DEF Held
<1>5. Judged'
  BY <1>1 DEF Judged, OneIntentWaits, Gated, Submitted
<1> QED BY <1>2, <1>3, <1>4, <1>5

LEMMA UnsettledStep ==
  ASSUME IInv, Unsettled
  PROVE  IInv'
<1> USE DEF IInv, Unsettled
<1>1. /\ adj'.holder = adj.holder /\ adj'.step = "poll" /\ adj'.advanced = adj.advanced
      /\ adj'.polls = adj.polls /\ adj'.attempt = adj.attempt
  BY DEF TypeOK
<1>2. adj.holder \in Slot /\ Submitted \in Call
  BY Holder
<1>3. wire' \in Seq(Call) /\ Len(wire') <= MaxLate
  <2> HIDE DEF IInv, Unsettled
  <2>1. wire \in Seq(Call) /\ Len(wire) <= MaxLate
    BY DEF IInv, TypeOK
  <2>2. (Len(wire) < MaxLate /\ wire' = Append(wire, Submitted)) \/ wire' = wire
    BY DEF Unsettled
  <2> QED BY <2>1, <2>2, <1>2, Numbers
<1>4. TypeOK'
  BY <1>3 DEF TypeOK, record
<1>5. Placed' /\ Phased' /\ Preset' /\ EffectIsApproved'
  BY DEF Placed, PlaceOf, Phased, Preset, EffectIsApproved, record
<1>6. Held'
  BY <1>1 DEF Held
<1>7. Submitted' = Submitted
  BY <1>1 DEF Submitted
<1>8. ~outrun => OneIntentWaits'
  <2> SUFFICES ASSUME ~outrun PROVE OneIntentWaits'
    OBVIOUS
  <2>1. wire = << >> /\ ~adj.advanced
    BY DEF Judged, OneIntentWaits
  <2>2. wire' = << >> \/ wire' = <<Submitted>>
    BY <2>1, <1>2
  <2> QED BY <1>1, <1>7, <2>1, <2>2 DEF OneIntentWaits
<1>9. Judged'
  BY <1>8 DEF Judged, Gated
<1> QED BY <1>4, <1>5, <1>6, <1>9

LEMMA EngineJudgesStep ==
  ASSUME IInv, EngineJudges
  PROVE  IInv'
<1> USE DEF IInv, EngineJudges
<1>1. /\ adj'.holder = adj.holder /\ adj'.step = adj.step
      /\ adj'.polls = adj.polls /\ adj'.attempt = adj.attempt
      /\ adj'.advanced = (adj.advanced \/ (adj.holder # Nobody /\ Head(wire) \notin Forbidden))
  BY DEF TypeOK
<1>2. wire' \in Seq(Call) /\ Len(wire') <= MaxLate
  BY Numbers DEF TypeOK
<1>3. TypeOK'
  <2>1. adj' \in [holder : Slot \cup {Nobody}, step : {"idle", "read", "submit", "poll"},
              advanced : BOOLEAN, polls : 0 .. MaxPolls, attempt : 1 .. 2]
    BY DEF TypeOK
  <2> QED BY <1>2, <2>1 DEF TypeOK, record
<1>4. Placed' /\ Phased' /\ Preset' /\ EffectIsApproved'
  BY DEF Placed, PlaceOf, Phased, Preset, EffectIsApproved, record
<1>5. Held'
  BY <1>1 DEF Held
<1>6. Submitted' = Submitted
  BY <1>1 DEF Submitted
<1>7. ~outrun => OneIntentWaits'
  <2> SUFFICES ASSUME ~outrun PROVE OneIntentWaits'
    OBVIOUS
  <2>1. adj.step = "poll" /\ wire = <<Submitted>>
    BY DEF Judged, OneIntentWaits
  <2>2. wire' = << >> /\ Head(wire) = Submitted
    BY <2>1
  <2> QED BY <1>1, <1>6, <2>1, <2>2 DEF OneIntentWaits, Judged
<1>8. Judged'
  BY <1>7 DEF Judged, Gated
<1> QED BY <1>3, <1>4, <1>5, <1>8

\* A verdict, right if it is when only the holder's own intent was judged.
LEMMA VerdictStep ==
  ASSUME IInv, NEW allowed \in BOOLEAN, adj.step # "idle", Verdict(allowed),
         ~outrun /\ allowed => Submitted \notin Forbidden
  PROVE  IInv'
<1> USE DEF IInv
<1> DEFINE s == adj.holder
<1>1. s \in Slot /\ inst[s].stage = "gate" /\ inst[s].todo \in 1 .. 3 /\ Submitted \in Call
  BY Holder
<1>2. adj' = Unlocked /\ outrun' = (outrun \/ wire # << >>)
  BY DEF Verdict
<1>3. UNCHANGED <<round, batch, phase, pos, cache, wire, runs, approved, misfiled>>
  BY DEF Verdict
<1>4. /\ inst' \in [Slot -> Instance]
      /\ inst'[s].call = inst[s].call /\ inst'[s].preset = inst[s].preset
      /\ inst'[s].stage \in {"approve", "gate", "done"}
      /\ inst'[s].stage = "gate" => inst'[s].todo > 0
      /\ inst'[s].stage = "approve" => allowed
      /\ \A t \in Slot \ {s} : inst'[t] = inst[t]
      /\ trace' \subseteq Call
  <2>1. CASE /\ allowed
             /\ inst' = [inst EXCEPT ![s].todo = @ - 1,
                           ![s].stage = IF inst[s].todo = 1 THEN "approve" ELSE "gate"]
             /\ UNCHANGED trace
    <3> DEFINE r == [inst[s] EXCEPT !.todo = @ - 1,
                       !.stage = IF inst[s].todo = 1 THEN "approve" ELSE "gate"]
    <3>1. inst \in [Slot -> Instance] /\ inst[s] \in Instance
      BY <1>1 DEF TypeOK
    <3>2. /\ r \in Instance /\ r.call = inst[s].call /\ r.preset = inst[s].preset
          /\ r.stage \in {"approve", "gate"}
          /\ r.stage = "gate" => r.todo > 0
      <4>1. inst[s].todo - 1 \in 0 .. 3 /\ (inst[s].todo # 1 => inst[s].todo - 1 > 0)
        BY <1>1
      <4>2. CASE inst[s].todo = 1
        BY <4>1, <4>2, <3>1 DEF Instance
      <4>3. CASE inst[s].todo # 1
        BY <4>1, <4>3, <3>1 DEF Instance
      <4> QED BY <4>2, <4>3
    <3>3. inst' = [inst EXCEPT ![s] = r]
      BY <2>1, <3>1
    <3> QED BY <1>1, <2>1, <3>1, <3>2, <3>3 DEF TypeOK
  <2>2. CASE ~allowed /\ inst' = Outcome(s, "blocked") /\ trace' = {Submitted}
    BY <1>1, <2>2, OutcomeMoves DEF Result
  <2>3. CASE Faults /\ s = Main /\ inst' = Outcome(s, "error") /\ UNCHANGED trace
    BY <1>1, <2>3, OutcomeMoves DEF Result, TypeOK
  <2> QED BY <2>1, <2>2, <2>3 DEF Verdict
<1>5. TypeOK'
  BY <1>2, <1>3, <1>4, Numbers DEF TypeOK, Unlocked
<1>6. Placed'
  BY <1>1, <1>3, <1>4 DEF Placed, PlaceOf, Idle
<1>7. Phased'
  BY <1>1, <1>3, <1>4, Slots DEF Phased
<1>8. Held'
  BY <1>2, <1>4, Calls DEF Held, Unlocked, Slot
<1>9. Preset' /\ EffectIsApproved'
  BY <1>1, <1>3, <1>4 DEF Preset, EffectIsApproved
<1>10. Judged'
  BY <1>1, <1>2, <1>3, <1>4 DEF Judged, OneIntentWaits, Gated, Unlocked, Submitted
<1> QED BY <1>5, <1>6, <1>7, <1>8, <1>9, <1>10

LEMMA SettledStep ==
  ASSUME IInv, Settled
  PROVE  IInv'
  BY VerdictStep DEF Settled

LEMMA PollVersionStep ==
  ASSUME IInv, PollVersion
  PROVE  IInv'
<1>1. adj.step = "poll"
  BY DEF PollVersion
<1>2. CASE adj.advanced /\ Verdict(TRUE)
  <2>1. ~outrun => Submitted \notin Forbidden
    BY <1>2 DEF IInv, Judged, OneIntentWaits
  <2> QED BY <1>1, <1>2, <2>1, VerdictStep
<1>3. CASE Verdict(FALSE)
  BY <1>1, <1>3, VerdictStep
<1>4. CASE /\ adj.polls < MaxPolls
           /\ adj' = [adj EXCEPT !.polls = @ + 1]
           /\ UNCHANGED <<round, batch, phase, pos, inst, cache, wire, outrun, record>>
  <2> USE DEF IInv
  <2>1. /\ UNCHANGED <<round, batch, phase, pos, inst, cache, wire, outrun>>
        /\ UNCHANGED <<runs, approved, trace, misfiled>>
    BY <1>4 DEF record
  <2>2. /\ adj'.holder = adj.holder /\ adj'.step = adj.step /\ adj'.advanced = adj.advanced
        /\ adj' \in [holder : Slot \cup {Nobody}, step : {"idle", "read", "submit", "poll"},
                     advanced : BOOLEAN, polls : 0 .. MaxPolls, attempt : 1 .. 2]
    <3>1. adj.polls + 1 \in 0 .. MaxPolls
      BY <1>4, Numbers DEF TypeOK
    <3>2. adj' = [adj EXCEPT !.polls = adj.polls + 1]
      BY <1>4
    <3> QED BY <3>1, <3>2 DEF TypeOK
  <2>3. TypeOK'
    BY <2>1, <2>2 DEF TypeOK
  <2>4. Placed' /\ Phased' /\ Preset' /\ EffectIsApproved'
    BY <2>1 DEF Placed, PlaceOf, Phased, Preset, EffectIsApproved
  <2>5. Held'
    BY <2>1, <2>2 DEF Held
  <2>6. Judged'
    BY <2>1, <2>2 DEF Judged, OneIntentWaits, Gated, Submitted
  <2> QED BY <2>3, <2>4, <2>5, <2>6
<1> QED BY <1>2, <1>3, <1>4 DEF PollVersion

LEMMA ChannelErrorStep ==
  ASSUME IInv, ChannelError
  PROVE  IInv'
<1> USE DEF IInv
<1> DEFINE s == adj.holder
<1>1. s \in Slot /\ inst[s].stage = "gate" /\ adj.step \in {"read", "poll"}
  BY Holder DEF ChannelError
<1>2. UNCHANGED <<round, batch, phase, pos, cache, runs, approved, trace, misfiled>>
  BY DEF ChannelError, record
<1>3. CASE /\ adj' = [Unlocked EXCEPT !.holder = adj.holder, !.step = "read", !.attempt = 2]
           /\ wire' = << >>
           /\ UNCHANGED <<inst, outrun>>
  <2>1. adj' = [holder |-> s, step |-> "read", advanced |-> FALSE, polls |-> 0, attempt |-> 2]
    BY <1>3 DEF Unlocked
  <2>6. wire' = << >> /\ inst' = inst /\ outrun' = outrun
    BY <1>3
  <2>2. TypeOK'
    <3>1. adj' \in [holder : Slot \cup {Nobody}, step : {"idle", "read", "submit", "poll"},
                    advanced : BOOLEAN, polls : 0 .. MaxPolls, attempt : 1 .. 2]
      BY <1>1, <2>1, Numbers
    <3>2. wire' \in Seq(Call) /\ Len(wire') <= MaxLate
      BY <2>6, Numbers
    <3> QED BY <1>2, <2>6, <3>1, <3>2 DEF TypeOK
  <2>3. Placed' /\ Phased' /\ Preset' /\ EffectIsApproved'
    BY <1>2, <2>6 DEF Placed, PlaceOf, Phased, Preset, EffectIsApproved
  <2>4. Held'
    BY <1>1, <2>1, <2>6 DEF Held
  <2>5. Judged'
    BY <2>1, <2>6 DEF Judged, OneIntentWaits, Gated
  <2> QED BY <2>2, <2>3, <2>4, <2>5
<1>4. CASE /\ adj' = Unlocked
           /\ outrun' = (outrun \/ wire # << >>)
           /\ inst' = Outcome(s, "error")
           /\ UNCHANGED wire
  <2>1. /\ inst' \in [Slot -> Instance]
        /\ inst'[s].stage = "done"
        /\ inst'[s].call = inst[s].call /\ inst'[s].preset = inst[s].preset
        /\ \A t \in Slot \ {s} : inst'[t] = inst[t]
    BY <1>1, <1>4, OutcomeMoves DEF Result
  <2>2. TypeOK'
    BY <1>2, <1>4, <2>1, Numbers DEF TypeOK, Unlocked
  <2>3. Placed'
    BY <1>1, <1>2, <2>1 DEF Placed, PlaceOf, Idle
  <2>4. Phased'
    BY <1>1, <1>2, <2>1, Slots DEF Phased
  <2>5. Held'
    BY <1>4, <2>1, Calls DEF Held, Unlocked, Slot
  <2>6. Preset' /\ EffectIsApproved'
    BY <1>1, <1>2, <2>1 DEF Preset, EffectIsApproved
  <2>7. Judged'
    BY <1>1, <1>4, <2>1 DEF Judged, OneIntentWaits, Gated, Unlocked
  <2> QED BY <2>2, <2>3, <2>4, <2>5, <2>6, <2>7
<1> QED BY <1>3, <1>4 DEF ChannelError

\* A step of one instance that is past the gate and stays with its call.
Moves(s) ==
  /\ inst' \in [Slot -> Instance]
  /\ inst'[s].call = inst[s].call
  /\ inst'[s].preset = inst[s].preset
  /\ inst'[s].stage \in {"exec", "done"}
  /\ inst'[s].stage = "exec" /\ inst[s].call \in Candidate => inst[s].preset = "approved"
  /\ \A t \in Slot \ {s} : inst'[t] = inst[t]

LEMMA MoveStep ==
  ASSUME IInv, NEW s \in Slot,
         UNCHANGED <<round, batch, phase, pos, cache, adj, wire, outrun, approved, misfiled>>,
         inst[s].stage \in {"approve", "exec"}, Moves(s),
         trace' \subseteq Call, runs' \in [Place -> Nat]
  PROVE  TypeOK' /\ Placed' /\ Phased' /\ Held' /\ Preset' /\ Judged'
<1> USE DEF IInv, Moves
<1>1. TypeOK'
  BY DEF TypeOK
<1>2. Placed'
  BY DEF Placed, PlaceOf, Idle
<1>3. Phased'
  BY Slots DEF Phased
<1>4. Held'
  BY DEF Held
<1>5. Preset'
  BY DEF Preset
<1>6. Judged'
  <2>1. OneIntentWaits => OneIntentWaits'
    <3>1. adj.step = "poll" => Submitted' = Submitted
      BY DEF Submitted, Held
    <3> QED BY <3>1 DEF OneIntentWaits
  <2>2. Gated => Gated'
    BY DEF Gated
  <2> QED BY <2>1, <2>2 DEF Judged
<1> QED BY <1>1, <1>2, <1>3, <1>4, <1>5, <1>6

\* The call an instance at work is about.
LEMMA AtWork ==
  ASSUME IInv, NEW s \in Slot, inst[s].stage # "none"
  PROVE  /\ PlaceOf(s) \in DOMAIN batch
         /\ PlaceOf(s) \in Place
         /\ inst[s].call = batch[PlaceOf(s)]
         /\ inst[s].call \in Call
<1>1. PlaceOf(s) \in DOMAIN batch /\ inst[s].call = batch[PlaceOf(s)]
  BY DEF IInv, Placed, Idle
<1>2. DOMAIN batch \subseteq Place /\ \A i \in DOMAIN batch : batch[i] \in Call
  BY Numbers DEF IInv, TypeOK, Place
<1> QED BY <1>1, <1>2

LEMMA ApproveStep ==
  ASSUME IInv, NEW s \in Slot, Approve(s)
  PROVE  IInv'
<1> DEFINE c == inst[s].call
<1>1. inst[s].stage = "approve" /\ c \in Call
  BY AtWork DEF Approve
<1>2. UNCHANGED <<round, batch, phase, pos, cache, adj, wire, outrun, runs, approved, misfiled>>
  BY DEF Approve, channel
<1>3. Moves(s)
  <2>1. CASE /\ c \notin Candidate \/ inst[s].preset = "approved"
             /\ inst' = [inst EXCEPT ![s].stage = "exec"]
    <3> DEFINE r == [inst[s] EXCEPT !.stage = "exec"]
    <3>1. inst \in [Slot -> Instance] /\ inst[s] \in Instance
      BY DEF IInv, TypeOK
    <3>2. r \in Instance /\ r.call = inst[s].call /\ r.preset = inst[s].preset /\ r.stage = "exec"
      BY <3>1 DEF Instance
    <3>3. inst' = [inst EXCEPT ![s] = r]
      BY <2>1, <3>1
    <3> QED BY <2>1, <3>1, <3>2, <3>3 DEF Moves
  <2>2. ASSUME NEW k \in {"error", "proposal", "blocked"}, inst' = Outcome(s, k)
        PROVE  Moves(s)
    BY <2>2, OutcomeMoves DEF Result, IInv, Moves
  <2>3. \/ inst' = Outcome(s, "error") \/ inst' = Outcome(s, "proposal")
        \/ inst' = Outcome(s, "blocked")
        \/ /\ c \notin Candidate \/ inst[s].preset = "approved"
           /\ inst' = [inst EXCEPT ![s].stage = "exec"]
    BY DEF Approve
  <2> QED BY <2>1, <2>2, <2>3
<1>4. trace' \subseteq Call /\ runs' \in [Place -> Nat]
  BY <1>1, <1>2 DEF Approve, Noted, IInv, TypeOK
<1>5. TypeOK' /\ Placed' /\ Phased' /\ Held' /\ Preset' /\ Judged'
  BY <1>1, <1>2, <1>3, <1>4, MoveStep
<1>6. EffectIsApproved'
  BY <1>2 DEF EffectIsApproved, IInv
<1> QED BY <1>5, <1>6 DEF IInv

LEMMA ExecuteStep ==
  ASSUME IInv, NEW s \in Slot, Execute(s)
  PROVE  IInv'
<1> DEFINE i == inst[s]
           c == i.call
           p == PlaceOf(s)
<1>1. i.stage = "exec" /\ c \in Call /\ p \in Place /\ p \in DOMAIN batch /\ c = batch[p]
  BY AtWork DEF Execute
<1>2. UNCHANGED <<round, batch, phase, pos, cache, adj, wire, outrun, approved, misfiled>>
  BY DEF Execute, channel
<1>3. c \in Candidate => i.preset = "approved"
  BY <1>1 DEF IInv, Preset
<1>4. i \in Instance /\ inst \in [Slot -> Instance]
  BY DEF IInv, TypeOK
<1>5. Moves(s)
  <2>1. ASSUME NEW k \in Result, inst' = Outcome(s, k)
        PROVE  Moves(s)
    BY <2>1, OutcomeMoves DEF IInv, Moves
  <2>2. CASE i.cached.kind # "none" /\ inst' = Outcome(s, i.cached.kind)
    <3>1. i.cached.kind \in Result
      BY <1>4, <2>2 DEF Instance, Value
    <3> QED BY <2>1, <2>2, <3>1
  <2>3. CASE Retryable(c, i.retries) /\ inst' = [inst EXCEPT ![s].retries = @ + 1]
    <3> DEFINE r == [i EXCEPT !.retries = i.retries + 1]
    <3>1. i.retries + 1 \in 0 .. MaxRetries
      BY <1>4, <2>3, Numbers DEF Retryable, Instance
    <3>2. r \in Instance /\ r.call = c /\ r.preset = i.preset /\ r.stage = i.stage
      BY <1>4, <3>1 DEF Instance
    <3>3. inst' = [inst EXCEPT ![s] = r]
      BY <2>3, <1>4
    <3> QED BY <1>1, <1>3, <1>4, <3>2, <3>3 DEF Moves
  <2>4. \/ i.cached.kind # "none" /\ inst' = Outcome(s, i.cached.kind)
        \/ inst' = Outcome(s, "proposal") \/ inst' = Outcome(s, "pending")
        \/ inst' = Outcome(s, "ok") \/ inst' = Outcome(s, "failed") \/ inst' = Outcome(s, "error")
        \/ Retryable(c, i.retries) /\ inst' = [inst EXCEPT ![s].retries = @ + 1]
    BY DEF Execute
  <2> QED BY <2>1, <2>2, <2>3, <2>4 DEF Result
<1>6. \/ runs' = runs
      \/ (c \in Legacy => Unlocks(i)) /\ runs' = [runs EXCEPT ![p] = @ + 1]
  BY DEF Execute
<1>7. trace' \subseteq Call /\ runs' \in [Place -> Nat]
  <2>1. trace' = {c} \/ trace' = trace
    BY DEF Execute
  <2> QED BY <1>1, <1>6, <2>1 DEF IInv, TypeOK
<1>8. TypeOK' /\ Placed' /\ Phased' /\ Held' /\ Preset' /\ Judged'
  BY <1>1, <1>2, <1>5, <1>7, MoveStep
<1>9. EffectIsApproved'
  <2>1. CASE runs' = runs
    BY <1>2, <2>1 DEF EffectIsApproved, IInv
  <2>2. CASE (c \in Legacy => Unlocks(i)) /\ runs' = [runs EXCEPT ![p] = @ + 1]
    <3>1. c \in Candidate \cup Legacy
            => p \in approved \/ (Ahead(batch) /\ c \in SelfApproved \ Candidate)
      <4>1. CASE i.preset = "approved"
        BY <4>1 DEF IInv, Preset, PlaceOf
      <4>2. CASE i.preset = "claimed"
        <5>1. s # Main /\ c \in SelfApproved /\ c \notin Candidate
          BY <1>3, <4>2 DEF IInv, Preset
        <5>2. s \in Place /\ i.stage # "none"
          BY <1>1, <5>1, Slots
        <5>3. phase = "preflight"
          BY <5>2 DEF IInv, Phased
        <5> QED BY <5>1, <5>3 DEF IInv, Phased
      <4>3. CASE i.preset \notin {"approved", "claimed"}
        BY <1>3, <2>2, <4>3 DEF Unlocks
      <4> QED BY <4>1, <4>2, <4>3
    <3>2. \A q \in Place \ {p} : runs'[q] = runs[q]
      BY <2>2, <1>1 DEF IInv, TypeOK
    <3>3. DOMAIN batch \subseteq Place
      BY Numbers DEF IInv, TypeOK, Place
    <3> QED BY <1>1, <1>2, <3>1, <3>2, <3>3 DEF EffectIsApproved, IInv
  <2> QED BY <1>6, <2>1, <2>2
<1> QED BY <1>8, <1>9 DEF IInv

LEMMA AnswerStep ==
  ASSUME IInv, NEW calls \in Answers, Answer(calls)
  PROVE  IInv'
<1> USE DEF IInv
<1>1. PICK n \in 1 .. MaxBatch : calls \in [1 .. n -> Call]
  BY Calls
<1>2. calls \in Seq(Call) /\ Len(calls) <= MaxBatch
  BY <1>1, Numbers
<1>3. \A s \in Slot : inst[s] = Idle
  <2>1. \A s \in Slot : inst[s].stage = "none"
    BY Slots DEF Answer, Phased
  <2> QED BY <2>1 DEF Placed
<1>4. /\ UNCHANGED <<inst, adj, wire, outrun, trace, misfiled>>
      /\ batch' = calls /\ pos' = 1 /\ approved' = {} /\ runs' = [p \in Place |-> 0]
      /\ round < MaxRounds /\ round' = round + 1
      /\ phase' \in {"preflight", "main"} /\ (phase' = "preflight" => Ahead(calls))
  BY DEF Answer, channel
<1>5. cache' \in [Call -> Value]
  BY Numbers DEF Answer, NoValue, Value, TypeOK
<1>6. TypeOK'
  <2>1. round' \in 0 .. MaxRounds /\ pos' \in 1 .. MaxBatch + 1
    BY <1>4, Numbers DEF TypeOK
  <2>2. runs' \in [Place -> Nat] /\ approved' \subseteq Place
    BY <1>4
  <2> QED BY <1>2, <1>4, <1>5, <2>1, <2>2 DEF TypeOK
<1>7. Placed' /\ Preset'
  BY <1>3, <1>4 DEF Placed, Preset, Idle
<1>8. Phased'
  BY <1>3, <1>4, Slots DEF Phased, Idle, Ahead
<1>9. Held'
  BY <1>4 DEF Held
<1>10. EffectIsApproved'
  <2>1. DOMAIN calls \subseteq Place
    BY <1>1, Numbers DEF Place
  <2> QED BY <1>4, <2>1 DEF EffectIsApproved
<1>11. Judged'
  BY <1>4 DEF Judged, OneIntentWaits, Gated, Submitted
<1> QED BY <1>6, <1>7, <1>8, <1>9, <1>10, <1>11

\* An instance enters the pipeline: ahead of the loop, or in it, at first or
\* again with a decision or an answer.
LEMMA EntryStep ==
  ASSUME IInv, NEW s \in Slot, NEW r \in Instance,
         UNCHANGED <<round, batch, pos, cache, adj, wire, outrun, runs, trace, misfiled>>,
         inst' = [inst EXCEPT ![s] = r],
         inst[s].stage # "gate",
         PlaceOf(s) \in DOMAIN batch, r.call = batch[PlaceOf(s)],
         r.stage \in {"gate", "approve", "done"},
         r.stage = "gate" => r.todo > 0,
         r.stage = "approve" => r.call \notin Forbidden,
         approved' \subseteq Place, approved \subseteq approved',
         r.preset = "approved" => s = Main /\ pos \in approved',
         r.preset = "claimed" => s # Main /\ r.call \in SelfApproved,
         \/ s \in Place /\ phase = "preflight" /\ phase' = "preflight"
         \/ s = Main /\ phase \in {"main", "asking"} /\ phase' = "main"
  PROVE  IInv'
<1> USE DEF IInv
<1>1. inst' \in [Slot -> Instance] /\ inst'[s] = r /\ \A t \in Slot \ {s} : inst'[t] = inst[t]
  BY DEF TypeOK
<1>2. TypeOK'
  BY <1>1 DEF TypeOK
<1>3. Placed'
  BY <1>1 DEF Placed, PlaceOf
<1>4. Phased'
  BY <1>1, Slots DEF Phased
<1>5. Held'
  BY <1>1 DEF Held
<1>6. Preset'
  BY <1>1 DEF Preset
<1>7. EffectIsApproved'
  BY DEF EffectIsApproved
<1>8. Judged'
  <2>1. adj.step = "poll" => Submitted' = Submitted
    BY <1>1 DEF Submitted, Held
  <2>2. OneIntentWaits => OneIntentWaits'
    BY <2>1 DEF OneIntentWaits
  <2>3. Gated => Gated'
    BY <1>1 DEF Gated
  <2> QED BY <2>2, <2>3 DEF Judged
<1> QED BY <1>2, <1>3, <1>4, <1>5, <1>6, <1>7, <1>8

\* The loop goes on to the next call.
LEMMA AdvanceStep ==
  ASSUME IInv, Advance,
         UNCHANGED <<round, batch, cache, adj, wire, outrun, runs, approved, trace>>,
         misfiled' \in BOOLEAN,
         inst[Main].stage = "done", phase \in {"main", "asking"}, phase' = "main"
  PROVE  IInv'
<1> USE DEF IInv
<1>1. Idle \in Instance
  BY Numbers DEF Idle, Instance, NoValue, Value
<1>2. inst' \in [Slot -> Instance] /\ \A t \in Slot : inst'[t] = Idle
  <2>1. \A t \in Place : inst[t] = Idle
    BY Slots DEF Phased, Placed
  <2> QED BY <1>1, <2>1, Slots DEF TypeOK, Advance
<1>3. pos' \in 1 .. MaxBatch + 1
  <2>1. pos \in Place
    BY Slots, AtWork DEF PlaceOf
  <2> QED BY <2>1, Numbers DEF Place, Advance
<1>4. TypeOK'
  BY <1>2, <1>3 DEF TypeOK
<1>5. Placed' /\ Preset'
  BY <1>2 DEF Placed, Preset, Idle
<1>6. Phased'
  BY <1>2, Slots DEF Phased, Idle
<1>7. adj.holder \notin Slot
  BY Slots DEF Held, Phased
<1>8. Held'
  BY <1>2, <1>7 DEF Held, Idle
<1>9. EffectIsApproved'
  BY DEF EffectIsApproved
<1>10. Judged'
  <2>1. adj.step # "poll"
    BY <1>7 DEF Held
  <2> QED BY <1>2, <2>1 DEF Judged, OneIntentWaits, Gated, Idle
<1> QED BY <1>4, <1>5, <1>6, <1>8, <1>9, <1>10

\* Only the phase changes, and the instances at work fit the new one.
LEMMA PhaseStep ==
  ASSUME IInv, Phased',
         UNCHANGED <<round, batch, pos, inst, cache, adj, wire, outrun, runs, approved, trace, misfiled>>,
         phase' \in {"llm", "preflight", "main", "asking", "ended"}
  PROVE  IInv'
<1> USE DEF IInv
<1>1. TypeOK'
  BY DEF TypeOK
<1>2. Placed' /\ Held' /\ Preset' /\ EffectIsApproved'
  BY DEF Placed, PlaceOf, Held, Preset, EffectIsApproved
<1>3. Judged'
  BY DEF Judged, OneIntentWaits, Gated, Submitted
<1> QED BY <1>1, <1>2, <1>3

LEMMA StartStep ==
  ASSUME IInv, NEW i \in Place, Start(i)
  PROVE  IInv'
<1> DEFINE r == Enter(batch[i], AsWritten(batch[i]), NoValue)
<1>1. i \in Slot /\ i # Main /\ PlaceOf(i) = i
  BY Slots DEF PlaceOf
<1>2. batch[i] \in Call /\ NoValue \in Value
  BY Numbers DEF Start, IInv, TypeOK, NoValue, Value
<1>3. /\ r \in Instance /\ r.call = batch[i] /\ r.preset \in {"none", "claimed"}
      /\ r.preset = "claimed" => r.call \in SelfApproved
      /\ r.stage \in {"gate", "approve", "done"}
      /\ r.stage = "gate" => r.todo > 0
      /\ r.stage = "approve" => r.call \notin Forbidden
  <2>1. /\ AsWritten(batch[i]) \in {"none", "claimed"}
        /\ AsWritten(batch[i]) = "claimed" => batch[i] \in SelfApproved
    BY DEF AsWritten
  <2> QED BY <1>2, <2>1, EnterType
<1>4. /\ UNCHANGED <<round, batch, pos, cache, adj, wire, outrun, runs, approved, trace, misfiled>>
      /\ phase = "preflight" /\ phase' = "preflight"
      /\ inst[i].stage # "gate" /\ i \in DOMAIN batch
      /\ inst' = [inst EXCEPT ![i] = r]
  BY DEF Start, channel, record
<1>5. approved' \subseteq Place
  BY <1>4 DEF IInv, TypeOK
<1> HIDE DEF r
<1> QED BY <1>1, <1>3, <1>4, <1>5, EntryStep

LEMMA FillStep ==
  ASSUME IInv, Fill
  PROVE  IInv'
<1> USE DEF IInv
<1>1. /\ UNCHANGED <<round, batch, pos, adj, wire, outrun, runs, approved, trace, misfiled>>
      /\ phase = "preflight" /\ phase' = "main"
      /\ cache' = [c \in Call |-> Keep(c)]
      /\ inst' = [s \in Slot |-> Idle]
      /\ \A i \in DOMAIN batch : inst[i].stage = "done"
  BY DEF Fill, channel, record
<1>2. Idle \in Instance
  BY Numbers DEF Idle, Instance, NoValue, Value
<1>3. TypeOK'
  <2>1. \A c \in Call : Keep(c) \in Value
    BY KeepType
  <2> QED BY <1>1, <1>2, <2>1 DEF TypeOK
<1>4. Placed' /\ Preset'
  BY <1>1 DEF Placed, Preset, Idle
<1>5. Phased'
  BY <1>1, Slots DEF Phased, Idle
<1>6. adj.holder \notin Slot
  <2>1. \A s \in Slot : inst[s].stage # "gate"
    BY <1>1, Slots DEF Placed, Phased, PlaceOf, Idle
  <2> QED BY <2>1 DEF Held
<1>7. Held'
  BY <1>1, <1>6 DEF Held, Idle
<1>8. EffectIsApproved'
  BY <1>1 DEF EffectIsApproved
<1>9. Judged'
  <2>1. adj.step # "poll"
    BY <1>6 DEF Held
  <2> QED BY <1>1, <2>1 DEF Judged, OneIntentWaits, Gated, Idle
<1> QED BY <1>3, <1>4, <1>5, <1>7, <1>8, <1>9

LEMMA ServeStep ==
  ASSUME IInv, Serve
  PROVE  IInv'
<1>1. Main \in Slot /\ PlaceOf(Main) = pos
  BY Slots DEF PlaceOf
<1>2. /\ UNCHANGED <<round, batch, pos, cache, adj, wire, outrun, runs, approved, trace, misfiled>>
      /\ phase = "main" /\ phase' = "main"
      /\ inst[Main].stage # "gate" /\ pos \in DOMAIN batch
  BY DEF Serve, channel, record
<1>3. batch[pos] \in Call /\ NoValue \in Value /\ approved' \subseteq Place
  BY <1>2, Numbers DEF IInv, TypeOK, NoValue, Value
<1>4. CASE inst' = [inst EXCEPT ![Main] =
                      [Idle EXCEPT !.call = batch[pos], !.stage = "done", !.out = "blocked"]]
  <2> DEFINE r == [Idle EXCEPT !.call = batch[pos], !.stage = "done", !.out = "blocked"]
  <2>1. r \in Instance /\ r.call = batch[pos] /\ r.preset = "none" /\ r.stage = "done"
    <3>1. Idle \in Instance /\ Idle.preset = "none"
      BY Numbers DEF Idle, Instance, NoValue, Value
    <3> QED BY <1>3, <3>1 DEF Instance, Result
  <2>2. inst' = [inst EXCEPT ![Main] = r]
    BY <1>4
  <2> HIDE DEF r
  <2> QED BY <1>1, <1>2, <1>3, <2>1, <2>2, EntryStep
<1>5. CASE inst' = [inst EXCEPT ![Main] = Enter(batch[pos], "none", Lookup(batch[pos]))]
  <2> DEFINE r == Enter(batch[pos], "none", Lookup(batch[pos]))
  <2>1. Lookup(batch[pos]) \in Value
    BY <1>3 DEF Lookup, IInv, TypeOK
  <2>2. /\ r \in Instance /\ r.call = batch[pos] /\ r.preset = "none"
        /\ r.stage \in {"gate", "approve", "done"}
        /\ r.stage = "gate" => r.todo > 0
        /\ r.stage = "approve" => r.call \notin Forbidden
    BY <1>3, <2>1, EnterType
  <2>3. inst' = [inst EXCEPT ![Main] = r]
    BY <1>5
  <2> HIDE DEF r
  <2> QED BY <1>1, <1>2, <1>3, <2>2, <2>3, EntryStep
<1> QED BY <1>4, <1>5 DEF Serve

LEMMA AskStep ==
  ASSUME IInv, Ask
  PROVE  IInv'
<1>1. /\ UNCHANGED <<round, batch, pos, inst, cache, adj, wire, outrun, runs, approved, trace, misfiled>>
      /\ phase = "main" /\ phase' = "asking" /\ inst[Main].stage = "done"
  BY DEF Ask, channel, record
<1>2. Phased'
  BY <1>1 DEF IInv, Phased
<1> QED BY <1>1, <1>2, PhaseStep

LEMMA LeaveStep ==
  ASSUME IInv, Leave
  PROVE  IInv'
<1>1. /\ UNCHANGED <<round, batch, pos, inst, cache, adj, wire, outrun, runs, approved, trace, misfiled>>
      /\ phase = "main" /\ phase' = "ended" /\ inst[Main].stage = "none"
  BY DEF Leave, channel, record
<1>2. Phased'
  BY <1>1 DEF IInv, Phased
<1> QED BY <1>1, <1>2, PhaseStep

LEMMA RoundDoneStep ==
  ASSUME IInv, RoundDone
  PROVE  IInv'
<1>1. /\ UNCHANGED <<round, batch, pos, inst, cache, adj, wire, outrun, runs, approved, trace, misfiled>>
      /\ phase = "main" /\ phase' = "llm" /\ pos \notin DOMAIN batch
  BY DEF RoundDone, channel, record
<1>2. inst[Main].stage = "none"
  BY <1>1, Slots, AtWork DEF PlaceOf
<1>3. Phased'
  BY <1>1, <1>2 DEF IInv, Phased
<1> QED BY <1>1, <1>3, PhaseStep

\* The loop's call goes through the pipeline again.
LEMMA AgainStep ==
  ASSUME IInv, NEW preset \in {"approved", "answered"},
         phase = "asking", phase' = "main",
         inst' = [inst EXCEPT ![Main] = Enter(batch[pos], preset, NoValue)],
         UNCHANGED <<round, batch, pos, cache, adj, wire, outrun, runs, trace, misfiled>>,
         approved' = IF preset = "approved" THEN approved \cup {pos} ELSE approved
  PROVE  IInv'
<1> DEFINE r == Enter(batch[pos], preset, NoValue)
<1>1. Main \in Slot /\ PlaceOf(Main) = pos
  BY Slots DEF PlaceOf
<1>2. inst[Main].stage = "done"
  BY DEF IInv, Phased
<1>3. pos \in DOMAIN batch /\ pos \in Place
  BY <1>1, <1>2, AtWork
<1>4. batch[pos] \in Call /\ NoValue \in Value
  BY <1>3, Numbers DEF IInv, TypeOK, NoValue, Value
<1>5. /\ r \in Instance /\ r.call = batch[pos] /\ r.preset = preset
      /\ r.stage \in {"gate", "approve", "done"}
      /\ r.stage = "gate" => r.todo > 0
      /\ r.stage = "approve" => r.call \notin Forbidden
  BY <1>4, EnterType
<1>6. /\ approved' \subseteq Place /\ approved \subseteq approved'
      /\ preset = "approved" => pos \in approved'
  BY <1>3 DEF IInv, TypeOK
<1>7. inst' = [inst EXCEPT ![Main] = r]
  OBVIOUS
<1> HIDE DEF r
<1> QED BY <1>1, <1>2, <1>3, <1>5, <1>6, <1>7, EntryStep

LEMMA DecideStep ==
  ASSUME IInv, Decide
  PROVE  IInv'
<1>1. /\ UNCHANGED <<round, batch, cache, adj, wire, outrun, runs, trace>>
      /\ phase = "asking" /\ phase' = "main"
  BY DEF Decide, channel
<1>2. CASE /\ approved' = approved \cup {pos}
           /\ inst' = [inst EXCEPT ![Main] = Enter(batch[pos], "approved", NoValue)]
           /\ UNCHANGED <<pos, misfiled>>
  BY <1>1, <1>2, AgainStep
<1>3. CASE Attach /\ Advance /\ UNCHANGED approved
  <2>1. inst[Main].stage = "done"
    BY <1>1 DEF IInv, Phased
  <2>2. misfiled' \in BOOLEAN
    BY <1>3 DEF Attach
  <2> QED BY <1>1, <1>3, <2>1, <2>2, AdvanceStep
<1> QED BY <1>2, <1>3 DEF Decide

LEMMA ResolveQuestionStep ==
  ASSUME IInv, ResolveQuestion
  PROVE  IInv'
<1>1. /\ UNCHANGED <<round, batch, cache, adj, wire, outrun, runs, approved, trace, misfiled>>
      /\ phase = "asking" /\ phase' = "main"
  BY DEF ResolveQuestion, channel, record
<1>2. CASE /\ inst' = [inst EXCEPT ![Main] = Enter(batch[pos], "answered", NoValue)]
           /\ UNCHANGED pos
  BY <1>1, <1>2, AgainStep
<1>3. CASE Advance
  <2>1. inst[Main].stage = "done"
    BY <1>1 DEF IInv, Phased
  <2>2. misfiled' \in BOOLEAN
    BY <1>1 DEF IInv, TypeOK
  <2> QED BY <1>1, <1>3, <2>1, <2>2, AdvanceStep
<1> QED BY <1>2, <1>3 DEF ResolveQuestion

LEMMA ReplyStep ==
  ASSUME IInv, Reply
  PROVE  IInv'
<1>1. /\ UNCHANGED <<round, batch, phase, cache, adj, wire, outrun, runs, approved, trace>>
      /\ phase = "main" /\ inst[Main].stage = "done" /\ Advance
  BY DEF Reply, channel
<1>2. misfiled' \in BOOLEAN
  BY DEF Reply, Attach, IInv, TypeOK
<1> QED BY <1>1, <1>2, AdvanceStep

-----------------------------------------------------------------------------

\* Every step preserves the invariant.
LEMMA IInvInductive == IInv /\ [Next]_vars => IInv'
<1> SUFFICES ASSUME IInv, [Next]_vars PROVE IInv'
  OBVIOUS
<1>1. ASSUME NEW calls \in Answers, Answer(calls) PROVE IInv'
  BY <1>1, AnswerStep
<1>2. ASSUME NEW s \in Slot, Lock(s) PROVE IInv'
  BY <1>2, LockStep
<1>3. ASSUME NEW s \in Slot, Approve(s) PROVE IInv'
  BY <1>3, ApproveStep
<1>4. ASSUME NEW s \in Slot, Execute(s) PROVE IInv'
  BY <1>4, ExecuteStep
<1>5. ASSUME NEW i \in Place, Start(i) PROVE IInv'
  BY <1>5, StartStep
<1>6. CASE UNCHANGED vars
  <2>1. /\ UNCHANGED <<round, batch, phase, pos, inst, cache, adj, wire, outrun>>
        /\ UNCHANGED <<runs, approved, trace, misfiled>>
    BY <1>6 DEF vars, channel, record
  <2> QED BY <2>1 DEF IInv, TypeOK, Placed, PlaceOf, Phased, Held, Preset, EffectIsApproved,
                      Judged, OneIntentWaits, Gated, Submitted
<1>7. CASE Pipeline
  BY <1>2, <1>3, <1>4, <1>7, ReadVersionStep, SettledStep, UnsettledStep, PollVersionStep,
     ChannelErrorStep DEF Pipeline
<1>8. CASE Loop
  BY <1>5, <1>8, FillStep, ServeStep, AskStep, DecideStep, ResolveQuestionStep, ReplyStep,
     RoundDoneStep DEF Loop
<1> QED BY <1>1, <1>6, <1>7, <1>8, LeaveStep, EngineJudgesStep DEF Next

-----------------------------------------------------------------------------
(* At most once: the second invariant, on top of the first. *)

LEMMA OInvInit == Init => OInv
  BY Slots DEF Init, OInv, Counted, AheadFirst, Results, Undecided, Idle, NoValue

\* A step that leaves the batch, its instances and the cache alone.
LEMMA OQuiet ==
  ASSUME OInv, UNCHANGED <<batch, phase, pos, inst, cache, runs, approved>>
  PROVE  OInv'
  BY DEF OInv, Counted, Spent, Waits, AheadFirst, Results, Undecided

\* In which phase an instance is at work.
LEMMA WorksIn ==
  ASSUME IInv, NEW s \in Slot, inst[s].stage \in {"gate", "approve", "exec"}
  PROVE  \/ s = Main /\ phase = "main"
         \/ s \in Place /\ s \in DOMAIN batch /\ phase = "preflight" /\ inst[Main].stage = "none"
<1>1. PlaceOf(s) \in DOMAIN batch
  BY AtWork
<1> QED BY <1>1, Slots DEF IInv, TypeOK, Phased, PlaceOf

\* An instance that is still at work has not executed a call that is not
\* idempotent, unless the loop's has its result.
LEMMA NotYet ==
  ASSUME IInv, OInv, NEW s \in Slot, inst[s].stage \in {"gate", "approve", "exec"},
         batch[PlaceOf(s)] \notin Idempotent,
         s # Main \/ inst[Main].cached.kind = "none"
  PROVE  runs[PlaceOf(s)] = 0
<1>1. PlaceOf(s) \in DOMAIN batch /\ PlaceOf(s) \in Place
  BY AtWork
<1>2. pos \in Nat
  BY Numbers DEF IInv, TypeOK
<1>3. ~ Spent(PlaceOf(s))
  <2>1. CASE s = Main
    BY <1>2, <2>1, WorksIn DEF Spent, PlaceOf
  <2>2. CASE s # Main
    BY <1>1, <1>2, <2>2, WorksIn DEF Spent, PlaceOf, OInv, AheadFirst, Place
  <2> QED BY <2>1, <2>2
<1> QED BY <1>1, <1>3 DEF OInv, Counted

\* A step of one instance that executes nothing.
LEMMA OMove ==
  ASSUME IInv, OInv, NEW s \in Slot,
         UNCHANGED <<batch, phase, pos, cache, runs, approved>>,
         inst[s].stage \in {"gate", "approve", "exec"},
         inst'[s].stage \in {"gate", "approve", "exec", "done"},
         inst'[s].cached = inst[s].cached,
         inst'[s].stage = "done" => inst'[s].out # "none",
         \A t \in Slot \ {s} : inst'[t] = inst[t],
         s = Main /\ inst'[s].stage = "done" /\ Waits' /\ batch[pos] \notin Idempotent
           => runs[pos] = 0
  PROVE  OInv'
<1>1. AheadFirst'
  BY DEF OInv, AheadFirst
<1>2. Results'
  BY Slots DEF OInv, Results
<1>3. Undecided'
  BY Slots DEF OInv, Undecided
<1>4. Counted'
  <2> SUFFICES ASSUME NEW p \in DOMAIN batch, batch[p] \notin Idempotent, runs[p] = 1
               PROVE  Spent(p)'
    BY DEF OInv, Counted
  <2>1. Spent(p)
    BY DEF OInv, Counted
  <2>2. CASE s = Main
    <3>1. phase = "main" /\ pos \in Nat /\ p \in Nat
      BY <2>2, WorksIn, Slots, Numbers DEF IInv, TypeOK
    <3>2. CASE p = pos
      BY <2>1, <2>2, <3>1, <3>2 DEF Spent
    <3>3. CASE p # pos
      BY <2>1, <2>2, <3>1, <3>3 DEF Spent
    <3> QED BY <3>2, <3>3
  <2>3. CASE s # Main
    <3>1. s \in DOMAIN batch /\ phase = "preflight" /\ PlaceOf(s) = s
      BY <2>3, WorksIn DEF PlaceOf
    <3>2. p # s
      BY <2>3, <3>1, NotYet
    <3>3. p \in Slot /\ inst'[p] = inst[p]
      <4>1. p \in Place
        BY Numbers DEF IInv, TypeOK, Place
      <4> QED BY <3>2, <4>1, Slots
    <3> QED BY <2>1, <3>1, <3>3 DEF Spent
  <2> QED BY <2>2, <2>3
<1> QED BY <1>1, <1>2, <1>3, <1>4 DEF OInv

LEMMA OVerdict ==
  ASSUME IInv, OInv, NEW allowed \in BOOLEAN, adj.step # "idle", Verdict(allowed)
  PROVE  OInv'
<1> DEFINE s == adj.holder
<1>1. s \in Slot /\ inst[s].stage = "gate"
  BY Holder
<1>2. inst \in [Slot -> Instance] /\ inst[s] \in Instance /\ TypeOK
  BY <1>1 DEF IInv, TypeOK
<1>3. UNCHANGED <<batch, phase, pos, cache, runs, approved>>
  BY DEF Verdict
<1>4. ASSUME NEW k \in {"blocked", "error"}, inst' = Outcome(s, k)
      PROVE  OInv'
  <2>1. /\ inst'[s].stage = "done" /\ inst'[s].out = k /\ inst'[s].cached = inst[s].cached
        /\ \A t \in Slot \ {s} : inst'[t] = inst[t]
    BY <1>1, <1>2, <1>4, OutcomeMoves DEF Result
  <2>2. s = Main => ~ Waits'
    BY <2>1 DEF Waits
  <2> QED BY <1>1, <1>3, <2>1, <2>2, OMove
<1>5. CASE inst' = [inst EXCEPT ![s].todo = @ - 1,
                      ![s].stage = IF inst[s].todo = 1 THEN "approve" ELSE "gate"]
  <2>1. /\ inst'[s].stage \in {"gate", "approve"} /\ inst'[s].cached = inst[s].cached
        /\ \A t \in Slot \ {s} : inst'[t] = inst[t]
    BY <1>1, <1>2, <1>5 DEF Instance
  <2> QED BY <1>1, <1>3, <2>1, OMove
<1> QED BY <1>4, <1>5 DEF Verdict

LEMMA OChannelError ==
  ASSUME IInv, OInv, ChannelError
  PROVE  OInv'
<1> DEFINE s == adj.holder
<1>1. s \in Slot /\ inst[s].stage = "gate"
  BY Holder DEF ChannelError
<1>2. UNCHANGED <<batch, phase, pos, cache, runs, approved>>
  BY DEF ChannelError, record
<1>3. CASE inst' = inst
  BY <1>2, <1>3, OQuiet
<1>4. CASE inst' = Outcome(s, "error")
  <2>1. /\ inst'[s].stage = "done" /\ inst'[s].out = "error" /\ inst'[s].cached = inst[s].cached
        /\ \A t \in Slot \ {s} : inst'[t] = inst[t]
    BY <1>1, <1>4, OutcomeMoves DEF Result, IInv
  <2>2. s = Main => ~ Waits'
    BY <2>1 DEF Waits
  <2> QED BY <1>1, <1>2, <2>1, <2>2, OMove
<1> QED BY <1>3, <1>4 DEF ChannelError

LEMMA OApprove ==
  ASSUME IInv, OInv, NEW s \in Slot, Approve(s)
  PROVE  OInv'
<1> DEFINE c == inst[s].call
<1>1. inst[s].stage = "approve" /\ c = batch[PlaceOf(s)]
  BY AtWork DEF Approve
<1>2. UNCHANGED <<batch, phase, pos, cache, runs, approved>>
  BY DEF Approve, channel
<1>3. ASSUME NEW k \in {"error", "blocked", "proposal"}, inst' = Outcome(s, k),
             k = "proposal" => c \in Candidate
      PROVE  OInv'
  <2>1. /\ inst'[s].stage = "done" /\ inst'[s].out = k /\ inst'[s].cached = inst[s].cached
        /\ \A t \in Slot \ {s} : inst'[t] = inst[t]
    BY <1>3, OutcomeMoves DEF Result, IInv
  <2>2. ASSUME s = Main, Waits', batch[pos] \notin Idempotent
        PROVE  runs[pos] = 0
    <3>1. c \in Candidate /\ c = batch[pos]
      BY <1>1, <1>3, <2>1, <2>2 DEF Waits, PlaceOf
    <3>2. CASE inst[Main].cached.kind = "none"
      BY <1>1, <2>2, <3>2, NotYet DEF PlaceOf
    <3>3. CASE inst[Main].cached.kind # "none"
      <4>1. pos \notin approved
        BY <3>3 DEF OInv, Undecided
      <4>2. pos \in DOMAIN batch /\ pos \in Place
        BY <1>1, <2>2, AtWork DEF PlaceOf
      <4>3. runs[pos] \in {0, 1}
        BY <2>2, <4>2 DEF OInv, Counted
      <4> QED BY <3>1, <4>1, <4>2, <4>3 DEF IInv, EffectIsApproved
    <3> QED BY <3>2, <3>3
  <2> QED BY <1>1, <1>2, <2>1, <2>2, OMove
<1>4. CASE inst' = [inst EXCEPT ![s].stage = "exec"]
  <2>1. /\ inst'[s].stage = "exec" /\ inst'[s].cached = inst[s].cached
        /\ \A t \in Slot \ {s} : inst'[t] = inst[t]
    BY <1>4 DEF IInv, TypeOK, Instance
  <2> QED BY <1>1, <1>2, <2>1, OMove
<1>5. \/ inst' = Outcome(s, "error") \/ inst' = Outcome(s, "blocked")
      \/ c \in Candidate /\ inst' = Outcome(s, "proposal")
      \/ inst' = [inst EXCEPT ![s].stage = "exec"]
  BY DEF Approve
<1> QED BY <1>3, <1>4, <1>5

LEMMA OExecute ==
  ASSUME IInv, OInv, NEW s \in Slot, Execute(s)
  PROVE  OInv'
<1> DEFINE i == inst[s]
           c == i.call
           p == PlaceOf(s)
<1>1. i.stage = "exec" /\ c = batch[p] /\ p \in DOMAIN batch /\ p \in Place
  BY AtWork DEF Execute
<1>2. UNCHANGED <<batch, phase, pos, cache, approved>>
  BY DEF Execute, channel
<1>3. TypeOK /\ i \in Instance /\ inst \in [Slot -> Instance] /\ runs \in [Place -> Nat]
  BY DEF IInv, TypeOK
<1>4. CASE i.cached.kind # "none" /\ inst' = Outcome(s, i.cached.kind) /\ runs' = runs
  <2>1. i.cached.kind \in Result
    BY <1>3, <1>4 DEF Instance, Value
  <2>2. /\ inst'[s].stage = "done" /\ inst'[s].out = i.cached.kind /\ inst'[s].cached = i.cached
        /\ \A t \in Slot \ {s} : inst'[t] = inst[t]
    BY <1>3, <1>4, <2>1, OutcomeMoves
  <2>3. s = Main => ~ Waits'
    BY <1>4, <2>2 DEF Waits, OInv, Results
  <2> QED BY <1>1, <1>2, <1>4, <2>2, <2>3, OMove
<1>5. ASSUME i.cached.kind = "none", runs' = runs, NEW k \in {"proposal", "pending"},
             inst' = Outcome(s, k)
      PROVE  OInv'
  <2>1. /\ inst'[s].stage = "done" /\ inst'[s].out = k /\ inst'[s].cached = i.cached
        /\ \A t \in Slot \ {s} : inst'[t] = inst[t]
    BY <1>3, <1>5, OutcomeMoves DEF Result
  <2>2. s = Main /\ batch[pos] \notin Idempotent => runs[pos] = 0
    BY <1>1, <1>5, NotYet DEF PlaceOf
  <2> QED BY <1>1, <1>2, <1>5, <2>1, <2>2, OMove
<1>6. ASSUME i.cached.kind = "none", runs' = [runs EXCEPT ![p] = @ + 1],
             \/ inst' = Outcome(s, "ok")
             \/ inst' = Outcome(s, "failed")
             \/ c \in Idempotent /\ inst' = [inst EXCEPT ![s].retries = @ + 1]
             \/ c \in Idempotent /\ inst' = Outcome(s, "error")
      PROVE  OInv'
  <2>1. /\ inst'[s].stage \in {"exec", "done"} /\ inst'[s].cached = i.cached
        /\ inst'[s].stage = "done" => inst'[s].out # "none"
        /\ c \notin Idempotent => inst'[s].stage = "done" /\ inst'[s].out \in {"ok", "failed"}
        /\ \A t \in Slot \ {s} : inst'[t] = inst[t]
    <3>1. ASSUME NEW k \in {"ok", "failed", "error"}, inst' = Outcome(s, k)
          PROVE  /\ inst'[s].stage = "done" /\ inst'[s].out = k /\ inst'[s].cached = i.cached
                 /\ \A t \in Slot \ {s} : inst'[t] = inst[t]
      BY <1>3, <3>1, OutcomeMoves DEF Result
    <3>2. ASSUME inst' = [inst EXCEPT ![s].retries = @ + 1]
          PROVE  /\ inst'[s].stage = "exec" /\ inst'[s].cached = i.cached
                 /\ \A t \in Slot \ {s} : inst'[t] = inst[t]
      BY <1>1, <1>3, <3>2 DEF Instance
    <3> QED BY <1>6, <3>1, <3>2
  <2>2. c \notin Idempotent => runs[p] = 0
    BY <1>1, <1>6, NotYet
  <2>3. runs'[p] = runs[p] + 1 /\ \A q \in Place \ {p} : runs'[q] = runs[q]
    BY <1>1, <1>3, <1>6
  <2>4. AheadFirst'
    BY <1>2 DEF OInv, AheadFirst
  <2>5. Results'
    BY <1>2, <2>1, Slots DEF OInv, Results
  <2>6. Undecided'
    BY <1>1, <1>2, <2>1, Slots DEF OInv, Undecided
  <2>7. Counted'
    <3> SUFFICES ASSUME NEW q \in DOMAIN batch, batch[q] \notin Idempotent
                 PROVE  runs'[q] \in {0, 1} /\ (runs'[q] = 1 => Spent(q)')
      BY <1>2 DEF Counted
    <3>1. q \in Place /\ q \in Nat /\ pos \in Nat
      BY Numbers DEF IInv, TypeOK, Place
    <3>2. CASE q = p
      <4>1. runs'[q] = 1 /\ inst'[s].stage = "done" /\ inst'[s].out \in {"ok", "failed"}
        BY <1>1, <2>1, <2>2, <2>3, <3>2
      <4>2. CASE s = Main
        BY <1>1, <1>2, <3>2, <4>1, <4>2, WorksIn DEF Spent, Waits, PlaceOf
      <4>3. CASE s # Main
        BY <1>1, <1>2, <3>2, <4>1, <4>3, WorksIn DEF Spent, PlaceOf
      <4> QED BY <4>1, <4>2, <4>3
    <3>3. CASE q # p
      <4>1. runs'[q] = runs[q] /\ runs[q] \in {0, 1} /\ (runs[q] = 1 => Spent(q))
        BY <2>3, <3>1, <3>3 DEF OInv, Counted
      <4>2. CASE s = Main
        BY <1>1, <1>2, <2>1, <3>1, <3>3, <4>1, <4>2, WorksIn DEF Spent, PlaceOf
      <4>3. CASE s # Main
        <5>1. phase = "preflight" /\ q # s /\ q \in Slot
          BY <1>1, <3>1, <3>3, <4>3, WorksIn, Slots DEF PlaceOf
        <5> QED BY <1>2, <2>1, <4>1, <5>1 DEF Spent
      <4> QED BY <4>2, <4>3
    <3> QED BY <3>2, <3>3
  <2> QED BY <2>4, <2>5, <2>6, <2>7 DEF OInv
<1> QED BY <1>4, <1>5, <1>6 DEF Execute, Retryable

\* The loop's instance enters the pipeline, at first or again.
LEMMA OEntry ==
  ASSUME IInv, OInv, NEW r \in Instance,
         UNCHANGED <<batch, pos, cache, runs>>,
         inst' = [inst EXCEPT ![Main] = r],
         phase \in {"main", "asking"}, phase' = "main",
         r.stage \in {"gate", "approve", "done"},
         r.stage = "done" => r.out \in {"error", "blocked"},
         r.cached.kind # "proposal",
         approved' \subseteq approved \cup {pos},
         r.cached.kind # "none" => pos \notin approved',
         batch[pos] \notin Idempotent /\ runs[pos] = 1 /\ r.stage # "done" => r.cached.kind # "none"
  PROVE  OInv'
<1>1. inst'[Main] = r /\ \A t \in Slot \ {Main} : inst'[t] = inst[t]
  BY Slots DEF IInv, TypeOK
<1>2. AheadFirst' /\ Results'
  BY <1>1, Slots DEF OInv, AheadFirst, Results
<1>3. Undecided'
  <2>1. pos \in Nat /\ \A p \in DOMAIN batch : p \in Nat
    BY Numbers DEF IInv, TypeOK
  <2> QED BY <1>1, <2>1 DEF OInv, Undecided
<1>4. Counted'
  <2> SUFFICES ASSUME NEW p \in DOMAIN batch, batch[p] \notin Idempotent, runs[p] = 1
               PROVE  Spent(p)'
    BY DEF OInv, Counted
  <2>1. Spent(p) /\ p \in Nat /\ pos \in Nat
    BY Numbers DEF OInv, Counted, IInv, TypeOK
  <2>2. CASE p = pos /\ r.stage = "done"
    BY <1>1, <2>2 DEF Spent, Waits
  <2>3. CASE p = pos /\ r.stage # "done"
    BY <1>1, <2>3 DEF Spent
  <2>4. CASE p # pos
    BY <2>1, <2>4 DEF Spent
  <2> QED BY <2>2, <2>3, <2>4
<1> QED BY <1>2, <1>3, <1>4 DEF OInv

LEMMA OServe ==
  ASSUME IInv, OInv, Serve
  PROVE  OInv'
<1>1. /\ UNCHANGED <<batch, phase, pos, cache, runs, approved>>
      /\ phase = "main" /\ phase' = "main" /\ pos \in DOMAIN batch /\ inst[Main].stage = "none"
  BY DEF Serve, record
<1>2. batch[pos] \in Call /\ pos \notin approved /\ pos \in Nat
  BY <1>1, Numbers DEF IInv, TypeOK, OInv, Undecided
<1>3. CASE inst' = [inst EXCEPT ![Main] =
                      [Idle EXCEPT !.call = batch[pos], !.stage = "done", !.out = "blocked"]]
  <2> DEFINE r == [Idle EXCEPT !.call = batch[pos], !.stage = "done", !.out = "blocked"]
  <2>1. Idle \in Instance /\ Idle.cached.kind = "none"
    BY Numbers DEF Idle, Instance, NoValue, Value
  <2>2. r \in Instance /\ r.stage = "done" /\ r.out = "blocked" /\ r.cached.kind = "none"
    BY <1>2, <2>1 DEF Instance, Result
  <2>3. inst' = [inst EXCEPT ![Main] = r]
    BY <1>3
  <2> HIDE DEF r
  <2> QED BY <1>1, <2>2, <2>3, OEntry
<1>4. CASE inst' = [inst EXCEPT ![Main] = Enter(batch[pos], "none", Lookup(batch[pos]))]
  <2> DEFINE v == Lookup(batch[pos])
             r == Enter(batch[pos], "none", v)
  <2>1. v \in Value /\ v.kind # "proposal"
    BY <1>2, Numbers DEF Lookup, IInv, TypeOK, OInv, Results, NoValue, Value
  <2>2. /\ r \in Instance /\ r.cached = v
        /\ r.stage \in {"gate", "approve", "done"}
        /\ r.stage = "done" => r.out = "error"
    BY <1>2, <2>1, EnterType
  <2>3. batch[pos] \notin Idempotent /\ runs[pos] = 1 => v.kind # "none"
    BY <1>1, <1>2 DEF OInv, Counted, Spent, Lookup
  <2>4. inst' = [inst EXCEPT ![Main] = r]
    BY <1>4
  <2> HIDE DEF r, v
  <2> QED BY <1>1, <1>2, <2>1, <2>2, <2>3, <2>4, OEntry
<1> QED BY <1>3, <1>4 DEF Serve

\* The second pass of a call that asked for a decision or an answer: it has
\* not been executed.
LEMMA OAgain ==
  ASSUME IInv, OInv, NEW preset \in {"approved", "answered"},
         phase = "asking", phase' = "main",
         inst' = [inst EXCEPT ![Main] = Enter(batch[pos], preset, NoValue)],
         UNCHANGED <<batch, pos, cache, runs>>,
         approved' \subseteq approved \cup {pos}
  PROVE  OInv'
<1> DEFINE r == Enter(batch[pos], preset, NoValue)
<1>1. inst[Main].stage = "done"
  BY DEF IInv, Phased
<1>2. pos \in DOMAIN batch /\ batch[pos] \in Call /\ pos \in Nat /\ NoValue \in Value
  BY <1>1, Slots, AtWork, Numbers DEF PlaceOf, IInv, TypeOK, NoValue, Value
<1>3. /\ r \in Instance /\ r.cached = NoValue
      /\ r.stage \in {"gate", "approve", "done"}
      /\ r.stage = "done" => r.out = "error"
  BY <1>2, EnterType
<1>4. batch[pos] \notin Idempotent => runs[pos] # 1
  BY <1>1, <1>2 DEF OInv, Counted, Spent
<1>5. inst' = [inst EXCEPT ![Main] = r] /\ NoValue.kind = "none"
  BY DEF NoValue
<1> HIDE DEF r
<1> QED BY <1>3, <1>4, <1>5, OEntry

LEMMA OAdvance ==
  ASSUME IInv, OInv, Advance, UNCHANGED <<batch, cache, runs, approved>>,
         phase \in {"main", "asking"}, phase' = "main"
  PROVE  OInv'
<1>1. /\ inst'[Main].stage = "none" /\ inst'[Main].cached.kind = "none"
      /\ \A t \in Slot \ {Main} : inst'[t] = inst[t]
  BY Slots DEF Advance, IInv, TypeOK, Idle, NoValue
<1>2. pos' = pos + 1 /\ pos \in Nat /\ \A p \in DOMAIN batch : p \in Nat
  BY Numbers DEF Advance, IInv, TypeOK
<1>3. AheadFirst' /\ Results'
  BY <1>1, Slots DEF OInv, AheadFirst, Results
<1>4. Undecided'
  BY <1>1, <1>2 DEF OInv, Undecided
<1>5. Counted'
  <2> SUFFICES ASSUME NEW p \in DOMAIN batch, batch[p] \notin Idempotent, runs[p] = 1
               PROVE  Spent(p)'
    BY DEF OInv, Counted
  <2>1. Spent(p) /\ p \in Nat
    BY <1>2 DEF OInv, Counted
  <2>2. CASE p <= pos
    BY <1>2, <2>1, <2>2 DEF Spent
  <2>3. CASE p > pos
    BY <1>1, <1>2, <2>1, <2>3 DEF Spent
  <2> QED BY <1>2, <2>1, <2>2, <2>3
<1> QED BY <1>3, <1>4, <1>5 DEF OInv

LEMMA OStart ==
  ASSUME IInv, OInv, NEW i \in Place, Start(i)
  PROVE  OInv'
<1> DEFINE r == Enter(batch[i], AsWritten(batch[i]), NoValue)
<1>1. /\ UNCHANGED <<batch, phase, pos, cache, runs, approved>>
      /\ phase = "preflight" /\ inst[i].stage = "none" /\ i \in DOMAIN batch
      /\ inst' = [inst EXCEPT ![i] = r]
  BY DEF Start, record
<1>2. batch[i] \in Call /\ NoValue \in Value
  BY <1>1, Numbers DEF IInv, TypeOK, NoValue, Value
<1>3. r \in Instance /\ r.stage # "none" /\ (r.stage = "done" => r.out = "error")
  <2>1. AsWritten(batch[i]) \in {"none", "claimed"}
    BY DEF AsWritten
  <2> QED BY <1>2, <2>1, EnterType
<1>4. /\ i \in Slot /\ i # Main /\ inst'[i] = r /\ inst'[Main] = inst[Main]
      /\ \A t \in Slot \ {i} : inst'[t] = inst[t]
  BY <1>1, Slots DEF IInv, TypeOK
<1> HIDE DEF r
<1>5. AheadFirst' /\ Results' /\ Undecided'
  BY <1>1, <1>3, <1>4 DEF OInv, AheadFirst, Results, Undecided
<1>6. Counted'
  <2> SUFFICES ASSUME NEW p \in DOMAIN batch, batch[p] \notin Idempotent, runs[p] = 1
               PROVE  Spent(p)'
    BY <1>1 DEF OInv, Counted
  <2>1. Spent(p) /\ p \in Place /\ p \in Nat /\ p >= 1 /\ pos = 1
    BY <1>1, Numbers DEF OInv, Counted, AheadFirst, IInv, TypeOK, Place
  <2>2. inst[p].stage = "done"
    BY <1>1, <2>1 DEF Spent
  <2>3. inst'[p] = inst[p]
    BY <1>1, <1>4, <2>1, <2>2, Slots
  <2> QED BY <1>1, <2>1, <2>3 DEF Spent
<1> QED BY <1>5, <1>6 DEF OInv

LEMMA OFill ==
  ASSUME IInv, OInv, Fill
  PROVE  OInv'
<1>1. /\ UNCHANGED <<batch, pos, runs, approved>>
      /\ phase = "preflight" /\ phase' = "main"
      /\ cache' = [c \in Call |-> Keep(c)]
      /\ inst' = [s \in Slot |-> Idle]
      /\ \A i \in DOMAIN batch : inst[i].stage = "done"
  BY DEF Fill, record
<1>2. Cap > 1 /\ pos = 1 /\ inst[Main].stage = "none" /\ TypeOK
  BY <1>1 DEF OInv, AheadFirst, IInv, Phased
<1>3. DOMAIN batch \subseteq Slot /\ \A i \in DOMAIN batch : i \in Nat /\ i >= 1 /\ batch[i] \in Call
  BY Numbers DEF IInv, TypeOK, Slot
<1>4. \A c \in Call : Keep(c).kind # "proposal"
  <2> SUFFICES ASSUME NEW c \in Call PROVE Keep(c).kind # "proposal"
    OBVIOUS
  <2>1. CASE Kept(c) = {}
    BY <1>2, <2>1, KeepChooses DEF OInv, Results
  <2>2. CASE Kept(c) # {}
    BY <1>2, <2>2, KeepChooses DEF Kept
  <2> QED BY <2>1, <2>2
<1>5. \A c \in Call : Kept(c) # {} => Keep(c).kind # "none"
  <2> SUFFICES ASSUME NEW c \in Call, Kept(c) # {} PROVE Keep(c).kind # "none"
    OBVIOUS
  <2>1. PICK i \in Kept(c) : Keep(c) = [kind |-> inst[i].out, round |-> round]
    BY <1>2, KeepChooses
  <2>2. inst[i].out # "none"
    BY <1>1, <1>3 DEF OInv, Results, Kept
  <2> QED BY <2>1, <2>2
<1>6. AheadFirst' /\ Results'
  BY <1>1, <1>4, Slots DEF AheadFirst, Results, Idle, NoValue
<1>7. Undecided'
  BY <1>1, <1>2, Slots DEF OInv, Undecided, Idle, NoValue
<1>8. Counted'
  <2> SUFFICES ASSUME NEW p \in DOMAIN batch, batch[p] \notin Idempotent, runs[p] = 1
               PROVE  Spent(p)'
    BY <1>1 DEF OInv, Counted
  <2>1. inst[p].out \in {"ok", "failed"}
    BY <1>1, <1>2, <1>3 DEF OInv, Counted, Spent
  <2>2. cache'[batch[p]].kind # "none"
    <3>1. p \in Kept(batch[p])
      BY <2>1 DEF Kept
    <3> QED BY <1>1, <1>3, <1>5, <3>1
  <2>3. inst'[Main].stage = "none"
    BY <1>1, Slots DEF Idle
  <2> QED BY <1>1, <1>2, <2>2, <2>3 DEF Spent
<1> QED BY <1>6, <1>7, <1>8 DEF OInv

LEMMA OAnswer ==
  ASSUME IInv, OInv, NEW calls \in Answers, Answer(calls)
  PROVE  OInv'
<1>1. /\ UNCHANGED inst /\ batch' = calls /\ pos' = 1 /\ approved' = {}
      /\ runs' = [p \in Place |-> 0]
      /\ phase' = "preflight" => Cap > 1
  BY DEF Answer, Ahead
<1>2. DOMAIN calls \subseteq Place
  BY Calls, Numbers DEF Place
<1>3. \A c \in Call : cache'[c].kind # "proposal"
  BY DEF Answer, OInv, Results, NoValue
<1>4. AheadFirst' /\ Results' /\ Undecided'
  BY <1>1, <1>3 DEF OInv, AheadFirst, Results, Undecided
<1>5. Counted'
  BY <1>1, <1>2 DEF Counted
<1> QED BY <1>4, <1>5 DEF OInv

\* The loop waits for a decision, leaves the batch or is through with it.
LEMMA OPhase ==
  ASSUME IInv, OInv, UNCHANGED <<batch, pos, inst, cache, runs, approved>>, phase = "main",
         \/ phase' \in {"llm", "ended"}
         \/ phase' = "asking" /\ inst[Main].stage = "done" /\ Waits
  PROVE  OInv'
<1>1. AheadFirst' /\ Results' /\ Undecided'
  BY DEF OInv, AheadFirst, Results, Undecided
<1>2. Counted'
  BY DEF OInv, Counted, Spent
<1> QED BY <1>1, <1>2 DEF OInv

LEMMA OInvInductive == IInv /\ OInv /\ [Next]_vars => OInv'
<1> SUFFICES ASSUME IInv, OInv, [Next]_vars PROVE OInv'
  OBVIOUS
<1>1. ASSUME NEW calls \in Answers, Answer(calls) PROVE OInv'
  BY <1>1, OAnswer
<1>2. CASE UNCHANGED vars
  BY <1>2, OQuiet DEF vars, record
<1>3. CASE Leave
  BY <1>3, OPhase DEF Leave, record
<1>4. CASE EngineJudges
  BY <1>4, OQuiet DEF EngineJudges, record
<1>5. CASE Pipeline
  <2>1. ASSUME NEW s \in Slot, Lock(s) PROVE OInv'
    BY <2>1, OQuiet DEF Lock, record
  <2>2. ASSUME NEW s \in Slot, Approve(s) PROVE OInv'
    BY <2>2, OApprove
  <2>3. ASSUME NEW s \in Slot, Execute(s) PROVE OInv'
    BY <2>3, OExecute
  <2>4. CASE ReadVersion
    BY <2>4, OQuiet DEF ReadVersion, record
  <2>5. CASE Settled
    BY <2>5, OVerdict DEF Settled
  <2>6. CASE Unsettled
    BY <2>6, OQuiet DEF Unsettled, record
  <2>7. CASE PollVersion
    BY <2>7, OVerdict, OQuiet DEF PollVersion, record
  <2> QED BY <1>5, <2>1, <2>2, <2>3, <2>4, <2>5, <2>6, <2>7, OChannelError DEF Pipeline
<1>6. CASE Loop
  <2>1. ASSUME NEW i \in Place, Start(i) PROVE OInv'
    BY <2>1, OStart
  <2>2. CASE Ask
    BY <2>2, OPhase DEF Ask, record
  <2>3. CASE Decide
    <3>1. UNCHANGED <<batch, cache, runs>> /\ phase = "asking" /\ phase' = "main"
      BY <2>3 DEF Decide
    <3>2. CASE /\ approved' = approved \cup {pos}
               /\ inst' = [inst EXCEPT ![Main] = Enter(batch[pos], "approved", NoValue)]
               /\ UNCHANGED pos
      BY <3>1, <3>2, OAgain
    <3>3. CASE Advance /\ UNCHANGED approved
      BY <3>1, <3>3, OAdvance
    <3> QED BY <2>3, <3>2, <3>3 DEF Decide
  <2>4. CASE ResolveQuestion
    <3>1. UNCHANGED <<batch, cache, runs, approved>> /\ phase = "asking" /\ phase' = "main"
      BY <2>4 DEF ResolveQuestion, record
    <3>2. CASE /\ inst' = [inst EXCEPT ![Main] = Enter(batch[pos], "answered", NoValue)]
               /\ UNCHANGED pos
      BY <3>1, <3>2, OAgain
    <3>3. CASE Advance
      BY <3>1, <3>3, OAdvance
    <3> QED BY <2>4, <3>2, <3>3 DEF ResolveQuestion
  <2>5. CASE Reply
    BY <2>5, OAdvance DEF Reply
  <2>6. CASE RoundDone
    BY <2>6, OPhase DEF RoundDone, record
  <2> QED BY <1>6, <2>1, <2>2, <2>3, <2>4, <2>5, <2>6, OFill, OServe DEF Loop
<1> QED BY <1>1, <1>2, <1>3, <1>4, <1>5, <1>6 DEF Next

-----------------------------------------------------------------------------
(* The decision is filed with the call it is about. *)

LEMMA FInvInit == Init => FInv
  BY Slots DEF Init, FInv, Filed, ApprovalsFiledRight, Idle

\* The loop's instance is empty when it is not at work.
LEMMA LoopRests ==
  ASSUME IInv, inst[Main].stage = "none"
  PROVE  inst[Main] = Idle /\ inst[Main].preset = "none" /\ inst[Main].out = "none"
  BY Slots DEF IInv, Placed, Idle

\* A step of one instance, which writes its own call to the trace or nothing,
\* and does so when it ends with a proposal.
LEMMA FMove ==
  ASSUME IInv, FInv, NEW s \in Slot,
         UNCHANGED <<batch, pos, misfiled>>,
         inst[s].stage \in {"gate", "approve", "exec"},
         inst'[s].preset = inst[s].preset,
         \A t \in Slot \ {s} : inst'[t] = inst[t],
         trace' = trace \/ trace' = {inst[s].call},
         inst'[s].out = "proposal" /\ inst[s].out # "proposal" => trace' = {inst[s].call}
  PROVE  FInv'
<1>1. CASE s = Main
  <2>1. inst[s].call = batch[pos]
    BY <1>1, AtWork DEF PlaceOf
  <2> QED BY <1>1, <2>1 DEF FInv, Filed, ApprovalsFiledRight
<1>2. CASE s # Main
  <2>1. inst'[Main] = inst[Main] /\ inst[Main].stage = "none"
    BY <1>2, WorksIn, Slots
  <2> QED BY <2>1, LoopRests DEF FInv, Filed, ApprovalsFiledRight
<1> QED BY <1>1, <1>2

\* An instance ends; what its result has to do with the trace.
LEMMA FOutcome ==
  ASSUME IInv, FInv, NEW s \in Slot, NEW k \in Result,
         inst[s].stage \in {"gate", "approve", "exec"},
         inst' = Outcome(s, k),
         UNCHANGED <<batch, pos, misfiled>>,
         trace' = trace \/ trace' = {inst[s].call},
         k = "proposal" => trace' = {inst[s].call}
  PROVE  FInv'
<1>1. TypeOK
  BY DEF IInv
<1>2. /\ inst'[s].preset = inst[s].preset /\ inst'[s].out = k
      /\ \A t \in Slot \ {s} : inst'[t] = inst[t]
  BY <1>1, OutcomeMoves
<1> QED BY <1>2, FMove

\* A step of the channel: the holder's call may go into the trace.
LEMMA FVerdict ==
  ASSUME IInv, FInv, NEW allowed \in BOOLEAN, adj.step # "idle", Verdict(allowed)
  PROVE  FInv'
<1> DEFINE s == adj.holder
<1>1. s \in Slot /\ inst[s].stage = "gate"
  BY Holder
<1>2. inst \in [Slot -> Instance] /\ inst[s] \in Instance
  BY <1>1 DEF IInv, TypeOK
<1>3. UNCHANGED <<batch, pos, misfiled>>
  BY DEF Verdict
<1>4. CASE /\ inst' = [inst EXCEPT ![s].todo = @ - 1,
                         ![s].stage = IF inst[s].todo = 1 THEN "approve" ELSE "gate"]
           /\ UNCHANGED trace
  <2>1. /\ inst'[s].preset = inst[s].preset /\ inst'[s].out = inst[s].out
        /\ \A t \in Slot \ {s} : inst'[t] = inst[t]
    BY <1>1, <1>2, <1>4 DEF Instance
  <2> QED BY <1>1, <1>3, <1>4, <2>1, FMove
<1>5. CASE inst' = Outcome(s, "blocked") /\ trace' = {Submitted}
  BY <1>1, <1>3, <1>5, FOutcome DEF Submitted, Result
<1>6. CASE inst' = Outcome(s, "error") /\ UNCHANGED trace
  BY <1>1, <1>3, <1>6, FOutcome DEF Result
<1> QED BY <1>4, <1>5, <1>6 DEF Verdict

LEMMA FChannelError ==
  ASSUME IInv, FInv, ChannelError
  PROVE  FInv'
<1>1. adj.holder \in Slot /\ inst[adj.holder].stage = "gate"
  BY Holder DEF ChannelError
<1>2. UNCHANGED <<batch, pos, misfiled, trace>>
  BY DEF ChannelError, record
<1>3. CASE inst' = inst
  BY <1>2, <1>3 DEF FInv, Filed, ApprovalsFiledRight
<1>4. CASE inst' = Outcome(adj.holder, "error")
  BY <1>1, <1>2, <1>4, FOutcome DEF Result
<1> QED BY <1>3, <1>4 DEF ChannelError

LEMMA FApprove ==
  ASSUME IInv, FInv, NEW s \in Slot, Approve(s)
  PROVE  FInv'
<1>1. inst[s].stage = "approve" /\ UNCHANGED <<batch, pos, misfiled>>
  BY DEF Approve
<1>2. inst \in [Slot -> Instance] /\ inst[s] \in Instance
  BY DEF IInv, TypeOK
<1>3. ASSUME NEW k \in {"error", "blocked"}, inst' = Outcome(s, k), UNCHANGED trace
      PROVE  FInv'
  BY <1>1, <1>3, FOutcome DEF Result
<1>4. CASE inst' = Outcome(s, "proposal") /\ trace' = {inst[s].call}
  BY <1>1, <1>4, FOutcome DEF Result
<1>5. CASE inst' = [inst EXCEPT ![s].stage = "exec"] /\ UNCHANGED trace
  <2>1. /\ inst'[s].preset = inst[s].preset /\ inst'[s].out = inst[s].out
        /\ \A t \in Slot \ {s} : inst'[t] = inst[t]
    BY <1>2, <1>5 DEF Instance
  <2> QED BY <1>1, <1>5, <2>1, FMove
<1> QED BY <1>3, <1>4, <1>5 DEF Approve, Noted

LEMMA FExecute ==
  ASSUME IInv, FInv, NEW s \in Slot, Execute(s)
  PROVE  FInv'
<1>1. inst[s].stage = "exec" /\ UNCHANGED <<batch, pos, misfiled>>
  BY DEF Execute
<1>2. inst \in [Slot -> Instance] /\ inst[s] \in Instance
  BY DEF IInv, TypeOK
<1>3. ASSUME NEW k \in Result, inst' = Outcome(s, k), trace' = {inst[s].call}
      PROVE  FInv'
  BY <1>1, <1>3, FOutcome
<1>4. CASE inst' = Outcome(s, "error") /\ UNCHANGED trace
  BY <1>1, <1>4, FOutcome DEF Result
<1>5. CASE inst' = [inst EXCEPT ![s].retries = @ + 1] /\ UNCHANGED trace
  <2>1. /\ inst'[s].preset = inst[s].preset /\ inst'[s].out = inst[s].out
        /\ \A t \in Slot \ {s} : inst'[t] = inst[t]
    BY <1>2, <1>5 DEF Instance
  <2> QED BY <1>1, <1>5, <2>1, FMove
<1>6. CASE /\ inst[s].cached.kind # "none"
           /\ inst' = Outcome(s, inst[s].cached.kind) /\ trace' = {inst[s].call}
  <2>1. inst[s].cached.kind \in Result
    BY <1>2, <1>6 DEF Instance, Value
  <2> QED BY <1>3, <1>6, <2>1
<1>7. ASSUME NEW k \in {"ok", "failed", "proposal", "pending"},
             inst' = Outcome(s, k), trace' = {inst[s].call}
      PROVE  FInv'
  BY <1>3, <1>7 DEF Result
<1> QED BY <1>4, <1>5, <1>6, <1>7 DEF Execute

\* The loop goes on to the next call; what it attached was about this one.
LEMMA FAdvance ==
  ASSUME IInv, FInv, Advance, UNCHANGED batch,
         \/ UNCHANGED misfiled
         \/ Attach /\ (inst[Main].preset = "approved" \/ inst[Main].out = "proposal")
  PROVE  FInv'
<1>1. inst'[Main].preset = "none" /\ inst'[Main].out = "none"
  BY Slots DEF Advance, IInv, TypeOK, Idle
<1>2. ~ misfiled'
  BY DEF Attach, FInv, Filed, ApprovalsFiledRight
<1> QED BY <1>1, <1>2 DEF FInv, Filed, ApprovalsFiledRight

LEMMA FServe ==
  ASSUME IInv, FInv, Serve
  PROVE  FInv'
<1>1. inst \in [Slot -> Instance] /\ UNCHANGED misfiled
  BY DEF Serve, record, IInv, TypeOK
<1> DEFINE b == [Idle EXCEPT !.call = batch[pos], !.stage = "done", !.out = "blocked"]
           r == Enter(batch[pos], "none", Lookup(batch[pos]))
<1>2. /\ b.preset = "none" /\ b.out # "proposal"
      /\ r.preset = "none" /\ r.out # "proposal"
  BY DEF Idle, Enter
<1>3. inst'[Main] \in {b, r}
  <2> HIDE DEF b, r
  <2>1. inst' = [inst EXCEPT ![Main] = b] \/ inst' = [inst EXCEPT ![Main] = r]
    BY DEF Serve, b, r
  <2> QED BY <1>1, <2>1, Slots
<1>4. inst'[Main].preset = "none" /\ inst'[Main].out # "proposal"
  BY <1>2, <1>3
<1> QED BY <1>1, <1>4 DEF FInv, Filed, ApprovalsFiledRight

LEMMA FDecide ==
  ASSUME IInv, FInv, Decide
  PROVE  FInv'
<1>1. inst[Main].out = "proposal" /\ UNCHANGED <<batch, trace>>
  BY DEF Decide
<1>2. CASE UNCHANGED <<pos, misfiled>>
  BY <1>1, <1>2 DEF FInv, Filed, ApprovalsFiledRight
<1>3. CASE Attach /\ Advance
  BY <1>1, <1>3, FAdvance
<1> QED BY <1>2, <1>3 DEF Decide

LEMMA FResolveQuestion ==
  ASSUME IInv, FInv, ResolveQuestion
  PROVE  FInv'
<1>1. inst \in [Slot -> Instance] /\ UNCHANGED <<batch, misfiled>>
  BY DEF ResolveQuestion, record, IInv, TypeOK
<1>2. CASE inst' = [inst EXCEPT ![Main] = Enter(batch[pos], "answered", NoValue)]
  <2>1. inst'[Main].preset = "answered" /\ inst'[Main].out # "proposal"
    BY <1>1, <1>2, Slots DEF Enter
  <2> QED BY <1>1, <2>1 DEF FInv, Filed, ApprovalsFiledRight
<1>3. CASE Advance
  BY <1>1, <1>3, FAdvance
<1> QED BY <1>2, <1>3 DEF ResolveQuestion

\* The loop's instance stays empty.
LEMMA FRests ==
  ASSUME IInv, FInv, inst'[Main] = inst[Main] \/ inst'[Main] = Idle,
         inst[Main].stage = "none", UNCHANGED misfiled
  PROVE  FInv'
<1>1. inst'[Main].preset = "none" /\ inst'[Main].out = "none"
  BY LoopRests DEF Idle
<1> QED BY <1>1 DEF FInv, Filed, ApprovalsFiledRight

LEMMA FInvInductive == IInv /\ FInv /\ [Next]_vars => FInv'
<1> SUFFICES ASSUME IInv, FInv, [Next]_vars PROVE FInv'
  OBVIOUS
<1>1. ASSUME UNCHANGED <<batch, pos, inst, trace, misfiled>> PROVE FInv'
  BY <1>1 DEF FInv, Filed, ApprovalsFiledRight
<1>2. ASSUME NEW calls \in Answers, Answer(calls) PROVE FInv'
  BY <1>2, FRests DEF Answer, IInv, Phased
<1>3. CASE UNCHANGED vars
  BY <1>1, <1>3 DEF vars, record
<1>4. CASE Leave
  BY <1>1, <1>4 DEF Leave, record
<1>5. CASE EngineJudges
  BY <1>1, <1>5 DEF EngineJudges, record
<1>6. CASE Pipeline
  <2>1. ASSUME NEW s \in Slot, Lock(s) PROVE FInv'
    BY <1>1, <2>1 DEF Lock, record
  <2>2. ASSUME NEW s \in Slot, Approve(s) PROVE FInv'
    BY <2>2, FApprove
  <2>3. ASSUME NEW s \in Slot, Execute(s) PROVE FInv'
    BY <2>3, FExecute
  <2>4. CASE ReadVersion
    BY <1>1, <2>4 DEF ReadVersion, record
  <2>5. CASE Settled
    BY <2>5, FVerdict DEF Settled
  <2>6. CASE Unsettled
    BY <1>1, <2>6 DEF Unsettled, record
  <2>7. CASE PollVersion
    BY <1>1, <2>7, FVerdict DEF PollVersion, record
  <2> QED BY <1>6, <2>1, <2>2, <2>3, <2>4, <2>5, <2>6, <2>7, FChannelError DEF Pipeline
<1>7. CASE Loop
  <2>1. ASSUME NEW i \in Place, Start(i) PROVE FInv'
    <3>1. inst'[Main] = inst[Main] /\ inst[Main].stage = "none" /\ UNCHANGED misfiled
      BY <2>1, Slots DEF Start, record, IInv, TypeOK, Phased
    <3> QED BY <3>1, FRests
  <2>2. CASE Fill
    <3>1. inst'[Main] = Idle /\ inst[Main].stage = "none" /\ UNCHANGED misfiled
      BY <2>2, Slots DEF Fill, record, IInv, Phased
    <3> QED BY <3>1, FRests
  <2>3. CASE Ask
    BY <1>1, <2>3 DEF Ask, record
  <2>4. CASE Reply
    <3>1. Advance /\ UNCHANGED batch
      BY <2>4 DEF Reply
    <3>2. UNCHANGED misfiled \/ (Attach /\ inst[Main].preset = "approved")
      BY <2>4 DEF Reply
    <3> QED BY <3>1, <3>2, FAdvance
  <2>5. CASE RoundDone
    BY <1>1, <2>5 DEF RoundDone, record
  <2> QED BY <1>7, <2>1, <2>2, <2>3, <2>4, <2>5, FServe, FDecide, FResolveQuestion DEF Loop
<1> QED BY <1>2, <1>3, <1>4, <1>5, <1>6, <1>7 DEF Next

-----------------------------------------------------------------------------
(* Theorems *)

LEMMA Invariant == Safety => [](IInv /\ OInv /\ FInv)
  BY IInvInit, IInvInductive, OInvInit, OInvInductive, FInvInit, FInvInductive, PTL DEF Safety

\* Every state of the pipeline, the channel and the loop is well formed, in
\* every interleaving of the instances of a batch with the engine.
THEOREM TypeCorrect == Safety => []TypeOK
<1>1. IInv => TypeOK
  BY DEF IInv
<1> QED BY <1>1, Invariant, PTL

\* A tool whose call needs a decision has no effect unless the decision was to
\* approve: not out of the cache, not in a retry, and, where the pipeline asks
\* for the decision, not ahead of the loop (execute_tool_stage,
\* resolve_approval, run_pipeline).  The one exception is in the statement: in
\* a batch executed ahead, a legacy tool whose call carries the flag as the LLM
\* wrote it (execute_single_tool does not take it out).
THEOREM EffectsAreApproved == Safety => []EffectIsApproved
<1>1. IInv => EffectIsApproved
  BY DEF IInv
<1> QED BY <1>1, Invariant, PTL

\* A call whose intent the rules reject does not get past the adjudication
\* channel as long as every intent is judged before its verdict is given, over
\* lost submissions, polling and second attempts (AdjudicationChannel).
THEOREM ForbiddenCallsAreStopped == Safety => []ForbiddenNeverRuns
<1>1. IInv => ForbiddenNeverRuns
  BY DEF IInv, Judged, Gated, ForbiddenNeverRuns
<1> QED BY <1>1, Invariant, PTL

\* A tool that is not idempotent runs at most once for a call of the LLM, over
\* the execution ahead, the cache, the pass through the loop, a second pass
\* after a decision or an answer, and retries.
THEOREM RunsAtMostOnce == Safety => []AtMostOnce
<1>1. IInv /\ OInv => AtMostOnce
  BY DEF OInv, Counted, AtMostOnce
<1> QED BY <1>1, Invariant, PTL

\* A decision is attached to the trace entry of the call it is about, whatever
\* the instances of the batch, the first and the second pass wrote there
\* (ToolTraceCollector::attach_approval_to_last).
THEOREM DecisionsAreFiledRight == Safety => []ApprovalsFiledRight
<1>1. FInv => ApprovalsFiledRight
  BY DEF FInv
<1> QED BY <1>1, Invariant, PTL
=============================================================================
