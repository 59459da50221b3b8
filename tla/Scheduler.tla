------------------------------ MODULE Scheduler ------------------------------
(***************************************************************************)
(* evo-agent schedule (schedule.rs): a loop that wakes up every few        *)
(* seconds, looks at the minutes since the last look, runs the jobs whose  *)
(* cron expression matches the present minute and writes a line for every  *)
(* minute it fired or missed.  A job runs as a child process; the loop     *)
(* waits for it, at most timeout_secs.  Nothing but the journal survives   *)
(* the process.  Below the loop: its calendar and the matching of cron.    *)
(***************************************************************************)
EXTENDS Integers, Sequences, SequencesExt, FiniteSets

CONSTANTS
  Job,        \* the enabled jobs, in the order of the configuration: a sequence
  Matches,    \* [job -> the minutes its expression matches]
  ScanCap,    \* minutes plan_tick looks at, at most (1441 in the code)
  LastMinute, \* bound: the clock
  MaxEpoch    \* bound: restarts and clocks set back

\* No two jobs have the same name (ScheduleConfig::validate).
ASSUME ScheduleAssumption ==
  /\ Job \in Seq(DOMAIN Matches) /\ IsInjective(Job)
  /\ ScanCap \in Nat \ {0}
  /\ LastMinute \in Nat \ {0} /\ MaxEpoch \in Nat

VARIABLES
  clock,   \* the present minute (chrono_now_minute)
  last,    \* last_minute; -1: None
  now,     \* the minute the tick has read
  plan,    \* what is left of the actions of this tick
  phase,   \* "asleep", "acting", "running" (a job), "down"
  child,   \* the child process: "none", "runs", "exited", "hangs"
  trail,   \* the journal
  since,   \* not in the code: no matching minute may be swallowed from here on
  epoch    \* not in the code: counts restarts and clocks set back

scheduleVars == <<clock, last, now, plan, phase, child, trail, since, epoch>>

None == -1
Jobs == ToSet(Job)
Action == [job : Jobs, minute : 0 .. LastMinute, action : {"fired", "missed"}, epoch : 0 .. MaxEpoch]

ScheduleTypeOK ==
  /\ clock \in 0 .. LastMinute /\ now \in 0 .. LastMinute
  /\ last \in {None} \cup 0 .. LastMinute /\ since \in {None} \cup 0 .. LastMinute + 1
  /\ plan \in Seq(Action)
  /\ phase \in {"asleep", "acting", "running", "down"}
  /\ child \in {"none", "runs", "exited", "hangs"} /\ (child # "none" <=> phase = "running")
  /\ phase = "running" => plan # << >> /\ plan[1].action = "fired"
  /\ epoch \in 0 .. MaxEpoch

ScheduleInit ==
  /\ clock \in 0 .. 1 /\ last = None /\ now = clock /\ plan = << >>
  /\ phase = "asleep" /\ child = "none" /\ trail = << >> /\ since = None /\ epoch = 0

-----------------------------------------------------------------------------
(* plan_tick *)

\* Mutant: the minute of the last look again.
ScannedAgain(l, n) == {m \in (IF l = None THEN n ELSE l) .. n : l = None \/ m <= l + ScanCap}

\* The minutes looked at: from the one after the last look to the present one,
\* the first ScanCap of them; only the present one when there was no last look.
Scanned(l, n) == {m \in (IF l = None THEN n ELSE l + 1) .. n : l = None \/ m <= l + ScanCap}

\* The minutes looked at that a job matches, by the place of the job.
Matching(l, n) == {p \in (DOMAIN Job) \X Scanned(l, n) : p[2] \in Matches[Job[p[1]]]}

Earlier(p, q) == p[1] < q[1] \/ (p[1] = q[1] /\ p[2] < q[2])

\* One job after the other, each in the order of the minutes.
PlanTick(l, n) ==
  LET nth(k) == CHOOSE p \in Matching(l, n) : Cardinality({q \in Matching(l, n) : Earlier(q, p)}) = k - 1
  IN [k \in 1 .. Cardinality(Matching(l, n)) |->
        [job |-> Job[nth(k)[1]], minute |-> nth(k)[2], epoch |-> epoch,
         action |-> IF nth(k)[2] = n THEN "fired" ELSE "missed"]]

-----------------------------------------------------------------------------
(* run_loop *)

Tick ==
  /\ phase = "asleep"
  /\ now' = clock /\ plan' = PlanTick(last, clock) /\ phase' = "acting"
  /\ since' = IF last # None /\ clock > last + ScanCap THEN clock + 1
              ELSE IF since = None THEN clock ELSE since
  /\ UNCHANGED <<clock, last, child, trail, epoch>>

NoteMissed ==
  /\ phase = "acting" /\ plan # << >> /\ plan[1].action = "missed"
  /\ trail' = Append(trail, plan[1]) /\ plan' = Tail(plan)
  /\ UNCHANGED <<clock, last, now, phase, child, since, epoch>>

\* The line first, then the process; one that cannot be started has "exited".
Fire ==
  /\ phase = "acting" /\ plan # << >> /\ plan[1].action = "fired"
  /\ trail' = Append(trail, plan[1])
  /\ phase' = "running" /\ child' \in {"runs", "exited", "hangs"}
  /\ UNCHANGED <<clock, last, now, plan, since, epoch>>

ChildExits == child = "runs" /\ child' = "exited" /\ UNCHANGED <<clock, last, now, plan, phase, trail, since, epoch>>

\* Mutant: the loop waits for the process without a limit.
FinishedPatiently ==
  /\ phase = "running" /\ child = "exited"
  /\ trail' = Append(trail, [plan[1] EXCEPT !.action = "finished"])
  /\ plan' = Tail(plan) /\ phase' = "acting" /\ child' = "none"
  /\ UNCHANGED <<clock, last, now, since, epoch>>

\* wait_child_with_timeout: it has exited, or its time is over and it is killed.
Finished ==
  /\ phase = "running"
  /\ trail' = Append(trail, [plan[1] EXCEPT !.action = "finished"])
  /\ plan' = Tail(plan) /\ phase' = "acting" /\ child' = "none"
  /\ UNCHANGED <<clock, last, now, since, epoch>>

\* Mutant: the clock is read again at the end of the tick.
SleepFromClock ==
  /\ phase = "acting" /\ plan = << >>
  /\ last' = clock /\ phase' = "asleep"
  /\ UNCHANGED <<clock, now, plan, child, trail, since, epoch>>

\* The end of a tick.
Sleep ==
  /\ phase = "acting" /\ plan = << >>
  /\ last' = now /\ phase' = "asleep"
  /\ UNCHANGED <<clock, now, plan, child, trail, since, epoch>>

\* Mutant: the wait for the child outlives the loop.
DownWaiting ==
  /\ phase # "down" /\ phase' = "down" /\ plan' = << >>
  /\ UNCHANGED <<clock, last, now, child, trail, since, epoch>>

\* The journal cannot be written: the loop returns.  Or the process dies, at
\* any time; what it was about to do is forgotten, a child goes on unwatched.
Down ==
  /\ phase # "down" /\ phase' = "down" /\ plan' = << >> /\ child' = "none"
  /\ UNCHANGED <<clock, last, now, trail, since, epoch>>

StartAgain ==
  /\ phase = "down" /\ epoch < MaxEpoch /\ epoch' = epoch + 1
  /\ phase' = "asleep" /\ last' = None /\ since' = None
  /\ UNCHANGED <<clock, now, plan, child, trail>>

\* The clock goes on, however long the loop sleeps or a job runs.
Minute ==
  /\ clock < LastMinute /\ clock' = clock + 1
  /\ UNCHANGED <<last, now, plan, phase, child, trail, since, epoch>>

ClockSetBack ==
  /\ clock > 0 /\ epoch < MaxEpoch /\ epoch' = epoch + 1
  /\ clock' = clock - 1
  /\ UNCHANGED <<last, now, plan, phase, child, trail, since>>

ScheduleNext ==
  \/ Tick \/ NoteMissed \/ Fire \/ ChildExits \/ Finished \/ Sleep \/ Down \/ StartAgain \/ Minute \/ ClockSetBack

ScheduleSpec == ScheduleInit /\ [][ScheduleNext]_scheduleVars

-----------------------------------------------------------------------------
(* Properties of the loop *)

Lines(e) == {i \in DOMAIN trail : trail[i].epoch = e /\ trail[i].action # "finished"}

\* As long as the process lives and the clock goes forward, a matching minute
\* has one line, whatever happens between two looks.
OneLineAMinute ==
  \A e \in 0 .. epoch : \A i, k \in Lines(e) :
    trail[i].job = trail[k].job /\ trail[i].minute = trail[k].minute => i = k

\* ... and none is swallowed as long as no two looks are more than ScanCap
\* minutes apart, the minutes that pass while a job runs included: after a look
\* every matching minute since the first one has its line.  After a longer gap
\* this begins anew (since): what exceeds ScanCap, the present minute included,
\* is neither fired nor noted.
NoneSwallowed ==
  phase = "asleep" /\ last # None /\ since # None =>
    \A j \in Jobs : \A m \in Matches[j] \cap since .. last :
      \E i \in UNION {Lines(e) : e \in 0 .. epoch} : trail[i].job = j /\ trail[i].minute = m

\* Types, and every matching minute once: not twice, and not never where the
\* looks are close enough.
ScheduleInv == ScheduleTypeOK /\ OneLineAMinute /\ NoneSwallowed

\* A job that hangs does not stop the others: every tick ends.
TicksEnd == phase = "running" ~> phase # "running"

\* "Never swallowed": what was missed is noted, one line for each minute
\* (schedule.rs).  Of a gap longer than ScanCap the rest is not, even while the
\* process lives.
NeverSwallowed ==
  epoch = 0 =>
    \A i, k \in Lines(0) : trail[i].job = trail[k].job =>
      \A m \in Matches[trail[i].job] : trail[i].minute < m /\ m < trail[k].minute =>
        \E n \in Lines(0) : trail[n].job = trail[i].job /\ trail[n].minute = m

\* schedule.rs: one matching minute fires once; minutes missed while the
\* scheduler was down are in the journal.  Neither survives a restart.
FiredOnce ==
  \A i, k \in DOMAIN trail :
    trail[i].action = "fired" /\ trail[k].action = "fired"
    /\ trail[i].job = trail[k].job /\ trail[i].minute = trail[k].minute => i = k
=============================================================================
