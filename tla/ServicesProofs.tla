--------------------------- MODULE ServicesProofs ---------------------------
(***************************************************************************)
(* What runs beside the agents, proved for any number of requests,         *)
(* handlers, generations, runs and viewers: the supervision of an MCP      *)
(* server (McpServers) and the task runs (TaskRuns); the undo stack of the *)
(* workspace (Checkpoints), for any writers, paths and contents; the event *)
(* track (EventTrack), for any number of events, faults and starts; the    *)
(* loop over the scheduled jobs (Scheduler), for any jobs and clock; and   *)
(* the dates it computes (Calendar), for every day from 1970 on.           *)
(***************************************************************************)
EXTENDS McpServers, TaskRuns, Checkpoints, EventTrack, Scheduler, Calendar, FiniteSetTheorems, WellFoundedInduction, TLAPS

-----------------------------------------------------------------------------
(* McpServers *)

\* The requests a generation's counter stands for, and those that came back.
Held(q, g) == {r \in Req : q[r].gen = g /\ q[r].at \in {"active", "failed", "dropped"}}
Back(q, g) == {r \in Req : q[r].gen = g /\ q[r].at = "done"}

\* A request belongs to a generation that was connected, one that was never
\* connected has no process, and errors in a row are requests that came back.
ReqInv ==
  /\ \A r \in Req : req[r].at # "idle" => req[r].gen # 0
  /\ \A g \in Gen : g > lastGen => proc[g] = NoProc
  /\ \A g \in Gen : proc[g].hang <= Cardinality(Back(req, g))

McpIInv == McpInv /\ ReqInv

\* The types by what they are about: the clients and their requests, and those
\* who connect them.  Counters are numbers; ReqInv bounds them.
ProcType == [alive : BOOLEAN, monitor : BOOLEAN, doomed : {"no", "idle", "lifetime", "hung"},
             inFlight : Nat, hang : Nat]
ReqType(n) == [at : {"idle", "active", "failed", "done", "dropped"}, gen : 0 .. n]
EntryType(n) == {NoEntry, Starting, Failed} \cup [status : {"connected"}, gen : 1 .. n, rx : BOOLEAN]
SupType(n) == [at : {"waiting", "backoff", "connecting", "registering", "taking"},
               rx : 1 .. n, gen : 0 .. n] \cup {Ended}
TaskType(n) == [at : {"idle", "shutdown", "reconnect", "closed", "connecting", "registering"},
                gen : 0 .. n, off : BOOLEAN]

ClientShape ==
  /\ lastGen \in 0 .. MaxGen /\ notices \subseteq 1 .. lastGen
  /\ proc \in [Gen -> ProcType] /\ req \in [Req -> ReqType(lastGen)]
ControlShape ==
  /\ disabled \in BOOLEAN /\ abandoned \in BOOLEAN /\ jobs \in 0 .. MaxJobs
  /\ offered \in 0 .. lastGen /\ entry \in EntryType(lastGen) /\ sup \in SupType(lastGen)
  /\ task \in [Task -> TaskType(lastGen)]
CountInv == InFlightExact /\ NobodyWaitsForDead /\ ReqInv

\* What is counted is finite.
LEMMA CountsAreNumbers ==
  ASSUME NEW q, NEW g
  PROVE  /\ IsFiniteSet(Held(q, g)) /\ IsFiniteSet(Back(q, g)) /\ Cardinality(Req) \in Nat
         /\ Cardinality(Held(q, g)) \in Nat /\ Cardinality(Back(q, g)) \in Nat
         /\ Cardinality(Held(q, g)) <= Cardinality(Req) /\ Cardinality(Back(q, g)) <= Cardinality(Req)
<1>1. IsFiniteSet(Req) /\ Held(q, g) \subseteq Req /\ Back(q, g) \subseteq Req
  BY McpAssumption DEF Held, Back
<1> QED
  BY <1>1, FS_Subset, FS_CardinalityType

\* The parts are the whole.
LEMMA McpParts == McpIInv <=> ClientShape /\ ControlShape /\ CountInv /\ StartingOwned
<1>1. McpIInv => ClientShape /\ ControlShape /\ CountInv /\ StartingOwned
  <2> SUFFICES ASSUME McpIInv PROVE ClientShape /\ ControlShape /\ CountInv /\ StartingOwned
    OBVIOUS
  <2>1. McpTypeOK /\ InFlightExact /\ NobodyWaitsForDead /\ StartingOwned /\ ReqInv
    BY DEF McpIInv, McpInv
  <2>2. proc \in [Gen -> ProcType]
    <3>1. [alive : BOOLEAN, monitor : BOOLEAN, doomed : {"no", "idle", "lifetime", "hung"},
           inFlight : 0 .. Cardinality(Req), hang : 0 .. Cardinality(Req)] \subseteq ProcType
      BY CountsAreNumbers DEF ProcType
    <3>2. proc \in [Gen -> [alive : BOOLEAN, monitor : BOOLEAN, doomed : {"no", "idle", "lifetime", "hung"},
                            inFlight : 0 .. Cardinality(Req), hang : 0 .. Cardinality(Req)]]
      BY <2>1 DEF McpTypeOK
    <3> QED
      BY <3>1, <3>2
  <2> QED
    BY <2>1, <2>2 DEF McpTypeOK, ClientShape, ControlShape, CountInv, ReqType, EntryType, SupType, TaskType
<1>2. ClientShape /\ ControlShape /\ CountInv /\ StartingOwned => McpIInv
  <2> SUFFICES ASSUME ClientShape, ControlShape, CountInv, StartingOwned PROVE McpIInv
    OBVIOUS
  <2>1. ASSUME NEW g \in Gen
        PROVE  proc[g] \in [alive : BOOLEAN, monitor : BOOLEAN, doomed : {"no", "idle", "lifetime", "hung"},
                            inFlight : 0 .. Cardinality(Req), hang : 0 .. Cardinality(Req)]
    <3>1. proc[g] \in ProcType
      BY DEF ClientShape
    <3>2. proc[g].inFlight = Cardinality(Held(req, g)) /\ proc[g].hang <= Cardinality(Back(req, g))
      BY DEF CountInv, InFlightExact, ReqInv, Held
    <3>3. proc[g].inFlight \in 0 .. Cardinality(Req)
      BY <3>2, CountsAreNumbers
    <3>4. proc[g].hang \in 0 .. Cardinality(Req)
      <4>1. proc[g].hang \in Nat
        BY <3>1 DEF ProcType
      <4> QED
        BY <3>2, <4>1, CountsAreNumbers
    <3> QED
      BY <3>1, <3>3, <3>4 DEF ProcType
  <2>2. proc \in [Gen -> [alive : BOOLEAN, monitor : BOOLEAN, doomed : {"no", "idle", "lifetime", "hung"},
                          inFlight : 0 .. Cardinality(Req), hang : 0 .. Cardinality(Req)]]
    BY <2>1 DEF ClientShape
  <2> QED
    BY <2>2 DEF McpIInv, McpInv, McpTypeOK, ClientShape, ControlShape, CountInv, ReqType, EntryType,
                SupType, TaskType
<1> QED
  BY <1>1, <1>2

\* At the start of serve.
LEMMA McpIInvInit == McpInit => McpIInv
<1> SUFFICES ASSUME McpInit PROVE ClientShape /\ ControlShape /\ CountInv /\ StartingOwned
  BY McpParts
<1>1. lastGen \in {0, 1} /\ lastGen \in 0 .. MaxGen
  BY McpAssumption DEF McpInit
<1>2. NoProc \in ProcType /\ NewProc \in ProcType
  BY DEF NoProc, NewProc, ProcType
<1>3. ClientShape
  BY <1>1, <1>2 DEF McpInit, ClientShape, ReqType
<1>4. ControlShape
  <2>1. abandoned = FALSE /\ jobs = 0 /\ jobs \in 0 .. MaxJobs
    BY McpAssumption DEF McpInit
  <2>2. /\ disabled \in BOOLEAN /\ offered \in 0 .. lastGen
        /\ entry \in EntryType(lastGen) /\ sup \in SupType(lastGen)
    <3>1. CASE lastGen = 1
      <4>1. /\ disabled = FALSE /\ offered = 1 /\ entry = [status |-> "connected", gen |-> 1, rx |-> FALSE]
            /\ sup = [at |-> "waiting", rx |-> 1, gen |-> 0]
        BY <3>1 DEF McpInit
      <4>2. 1 \in 1 .. 1 /\ 0 \in 0 .. 1
        OBVIOUS
      <4>3. entry \in EntryType(1)
        BY <4>1, <4>2 DEF EntryType
      <4>4. sup \in SupType(1)
        BY <4>1, <4>2 DEF SupType
      <4> QED
        <5>1. disabled \in BOOLEAN
          BY <4>1
        <5>2. offered \in 0 .. lastGen
          BY <3>1, <4>1
        <5> QED
          BY <3>1, <4>3, <4>4, <5>1, <5>2
    <3>2. CASE lastGen = 0
      <4>1. disabled \in BOOLEAN /\ offered = 0 /\ entry \in {NoEntry, Failed} /\ sup = Ended
        BY <3>2 DEF McpInit
      <4> QED
        BY <3>2, <4>1 DEF EntryType, SupType
    <3> QED
      BY <1>1, <3>1, <3>2
  <2>3. task \in [Task -> TaskType(lastGen)]
    BY <1>1 DEF McpInit, TaskType, Free
  <2> QED
    BY <2>1, <2>2, <2>3 DEF ControlShape
<1>5. CountInv
  <2>1. \A g \in Gen : Held(req, g) = {} /\ Back(req, g) = {}
    BY DEF McpInit, Held, Back
  <2>2. \A g \in Gen : proc[g].inFlight = 0 /\ proc[g].hang = 0
    BY DEF McpInit, NoProc, NewProc
  <2>3. InFlightExact
    BY <2>1, <2>2, FS_EmptySet DEF InFlightExact, Held
  <2>4. ReqInv
    <3>1. \A g \in Gen : g > lastGen => proc[g] = NoProc
      <4>1. \A g \in Gen : g \in Nat /\ lastGen \in Nat
        BY <1>1 DEF Gen
      <4> QED
        BY <4>1 DEF McpInit
    <3>2. \A g \in Gen : proc[g].hang <= Cardinality(Back(req, g))
      BY <2>1, <2>2, FS_EmptySet
    <3> QED
      BY <3>1, <3>2 DEF ReqInv, McpInit
  <2> QED
    BY <2>3, <2>4 DEF CountInv, NobodyWaitsForDead, McpInit
<1>6. StartingOwned
  BY DEF McpInit, StartingOwned, NoEntry, Failed, Connected
<1> QED
  BY <1>3, <1>4, <1>5, <1>6

\* Requests of other generations, and requests that wait in another way, leave
\* a generation's counts alone.
LEMMA SameCounts ==
  ASSUME NEW p, NEW q, NEW g,
         \A r \in Req : q[r].gen = p[r].gen,
         \A r \in Req : p[r].gen = g =>
           /\ q[r].at \in {"active", "failed", "dropped"} <=> p[r].at \in {"active", "failed", "dropped"}
           /\ q[r].at = "done" <=> p[r].at = "done"
  PROVE  Held(q, g) = Held(p, g) /\ Back(q, g) = Back(p, g)
  BY DEF Held, Back

\* Generations are numbers, those connected so far are among them.
LEMMA GenFacts ==
  ASSUME ClientShape
  PROVE  /\ lastGen \in Nat /\ MaxGen \in Nat /\ Gen \subseteq Nat \ {0} /\ 1 .. lastGen \subseteq Gen
         /\ \A g \in Gen : g > lastGen \/ g \in 1 .. lastGen
  BY McpAssumption DEF ClientShape, Gen

\* A request that was made belongs to one of them; one that waits, to a process.
LEMMA ReqFacts ==
  ASSUME ClientShape, CountInv, NEW k \in Req, req[k].at # "idle"
  PROVE  /\ req[k].gen \in 1 .. lastGen /\ req[k].gen \in Gen
         /\ req[k].at = "active" => proc[req[k].gen].alive
<1>1. req[k] \in ReqType(lastGen) /\ req[k].gen # 0
  BY DEF ClientShape, CountInv, ReqInv
<1>2. req[k].gen \in 1 .. lastGen
  BY <1>1, GenFacts DEF ReqType
<1> QED
  BY <1>2, GenFacts DEF CountInv, NobodyWaitsForDead

\* The type of what a request does to its client.
LEMMA ReturnedType ==
  ASSUME NEW p \in ProcType, p.inFlight > 0, NEW ok \in BOOLEAN
  PROVE  /\ Returned(p, ok) \in ProcType /\ Returned(p, ok).inFlight = p.inFlight - 1
         /\ Returned(p, ok).hang \in {0, p.hang + 1} /\ Returned(p, ok).alive = p.alive
<1>1. p.inFlight \in Nat /\ p.hang \in Nat /\ p.inFlight - 1 \in Nat /\ p.hang + 1 \in Nat
  BY DEF ProcType
<1> DEFINE h == IF ok THEN 0 ELSE p.hang + 1
<1>2. h \in Nat /\ h \in {0, p.hang + 1}
  BY <1>1
<1>3. Returned(p, ok) = [p EXCEPT !.inFlight = p.inFlight - 1, !.hang = h]
  BY DEF Returned
<1> HIDE DEF h
<1> QED
  BY <1>1, <1>2, <1>3 DEF ProcType

\* CallTool: the counter goes up with the request.
LEMMA CallToolKeeps ==
  ASSUME ClientShape, ControlShape, CountInv, NEW r \in Req, CallTool(r)
  PROVE  ClientShape' /\ CountInv'
<1>1. offered \in Gen /\ offered \in 1 .. lastGen /\ lastGen \in Nat /\ Gen \subseteq Nat
  BY GenFacts DEF CallTool, ControlShape
<1> DEFINE n == IF proc[offered].alive THEN "active" ELSE "failed"
<1>2. /\ req[r].at = "idle" /\ req' = [req EXCEPT ![r] = [at |-> n, gen |-> offered]]
      /\ proc' = [proc EXCEPT ![offered].inFlight = @ + 1] /\ UNCHANGED <<lastGen, notices>>
      /\ n \in {"active", "failed"} /\ (n = "active" => proc[offered].alive)
  BY DEF CallTool
<1> HIDE DEF n
<1>3. \A g \in Gen : proc[g] \in ProcType /\ proc[g].inFlight \in Nat
  BY DEF ClientShape, ProcType
<1>4. /\ req'[r].at = n /\ req'[r].gen = offered
      /\ \A k \in Req : k # r => req'[k] = req[k]
      /\ req' \in [Req -> ReqType(lastGen)]
  <2>1. [at |-> n, gen |-> offered] \in ReqType(lastGen)
    BY <1>1, <1>2 DEF ReqType
  <2> QED
    BY <1>2, <2>1 DEF ClientShape
<1>5. /\ proc' \in [Gen -> ProcType] /\ proc'[offered].inFlight = proc[offered].inFlight + 1
      /\ proc'[offered].alive = proc[offered].alive /\ proc'[offered].hang = proc[offered].hang
      /\ \A g \in Gen : g # offered => proc'[g] = proc[g]
  <2>1. proc' = [proc EXCEPT ![offered] = [proc[offered] EXCEPT !.inFlight = proc[offered].inFlight + 1]]
    BY <1>2
  <2>2. [proc[offered] EXCEPT !.inFlight = proc[offered].inFlight + 1] \in ProcType
    BY <1>1, <1>3 DEF ProcType
  <2>3. proc'[offered] = [proc[offered] EXCEPT !.inFlight = proc[offered].inFlight + 1]
    BY <1>1, <2>1 DEF ClientShape
  <2>4. proc' \in [Gen -> ProcType] /\ \A g \in Gen : g # offered => proc'[g] = proc[g]
    BY <1>1, <2>1, <2>2 DEF ClientShape
  <2> QED
    BY <1>1, <1>3, <2>3, <2>4 DEF ProcType
<1>6. ClientShape'
  BY <1>2, <1>4, <1>5 DEF ClientShape
<1>7. ASSUME NEW g \in Gen, g # offered
      PROVE  Held(req', g) = Held(req, g) /\ Back(req', g) = Back(req, g)
  <2>1. r \notin Held(req, g) /\ r \notin Back(req, g) /\ r \notin Held(req', g) /\ r \notin Back(req', g)
    BY <1>2, <1>4, <1>7 DEF Held, Back
  <2> QED
    BY <1>4, <2>1 DEF Held, Back
<1>8. Held(req', offered) = Held(req, offered) \cup {r} /\ r \notin Held(req, offered)
      /\ Back(req', offered) = Back(req, offered)
  BY <1>2, <1>4 DEF Held, Back
<1>9. Cardinality(Held(req', offered)) = Cardinality(Held(req, offered)) + 1
  BY <1>8, CountsAreNumbers, FS_AddElement
<1>10. InFlightExact'
  <2>1. \A g \in Gen : proc[g].inFlight = Cardinality(Held(req, g))
    BY DEF CountInv, InFlightExact, Held
  <2>2. \A g \in Gen : proc'[g].inFlight = Cardinality(Held(req', g))
    BY <1>5, <1>7, <1>9, <2>1
  <2> QED
    BY <2>2 DEF InFlightExact, Held
<1>11. NobodyWaitsForDead'
  <2>1. \A k \in Req : k # r /\ req[k].at = "active" => req[k].gen \in Gen /\ proc[req[k].gen].alive
    BY ReqFacts
  <2> QED
    BY <1>2, <1>4, <1>5, <2>1 DEF NobodyWaitsForDead
<1>12. ReqInv'
  <2>1. \A k \in Req : req'[k].at # "idle" => req'[k].gen # 0
    BY <1>1, <1>4 DEF CountInv, ReqInv
  <2>2. \A g \in Gen : g > lastGen => proc'[g] = NoProc
    BY <1>1, <1>5 DEF CountInv, ReqInv
  <2>3. \A g \in Gen : proc'[g].hang <= Cardinality(Back(req', g))
    BY <1>5, <1>7, <1>8 DEF CountInv, ReqInv
  <2> QED
    BY <1>2, <2>1, <2>2, <2>3 DEF ReqInv, Back
<1> QED
  BY <1>6, <1>10, <1>11, <1>12 DEF CountInv

\* Answer, Fail: a request that comes back leaves the counter, and makes the
\* errors in a row one more at most.
LEMMA ReturnKeeps ==
  ASSUME ClientShape, CountInv, NEW r \in Req, NEW ok \in BOOLEAN, req[r].at \in {"active", "failed"},
         req' = [req EXCEPT ![r].at = "done"], proc' = [proc EXCEPT ![req[r].gen] = Returned(@, ok)],
         UNCHANGED <<lastGen, notices>>
  PROVE  ClientShape' /\ CountInv'
<1> DEFINE h == req[r].gen
<1>1. h \in Gen /\ h \in 1 .. lastGen /\ lastGen \in Nat /\ Gen \subseteq Nat
  BY GenFacts, ReqFacts
<1>2. \A g \in Gen : proc[g] \in ProcType /\ proc[g].inFlight = Cardinality(Held(req, g))
  BY DEF ClientShape, CountInv, InFlightExact, Held
<1>3. r \in Held(req, h) /\ r \notin Back(req, h)
  BY DEF Held, Back
<1>4. /\ req'[r].at = "done" /\ req'[r].gen = h
      /\ \A k \in Req : k # r => req'[k] = req[k]
      /\ req' \in [Req -> ReqType(lastGen)]
  BY DEF ClientShape, ReqType
<1>5. Held(req', h) = Held(req, h) \ {r} /\ Back(req', h) = Back(req, h) \cup {r}
  BY <1>3, <1>4 DEF Held, Back
<1>6. ASSUME NEW g \in Gen, g # h
      PROVE  Held(req', g) = Held(req, g) /\ Back(req', g) = Back(req, g)
  BY <1>4, <1>6 DEF Held, Back
<1>7. /\ Cardinality(Held(req', h)) = Cardinality(Held(req, h)) - 1
      /\ Cardinality(Back(req', h)) = Cardinality(Back(req, h)) + 1
      /\ Cardinality(Held(req, h)) > 0
  <2>1. Held(req, h) = Held(req', h) \cup {r} /\ r \notin Held(req', h)
    BY <1>3, <1>5
  <2>2. Cardinality(Held(req, h)) = Cardinality(Held(req', h)) + 1
    BY <2>1, CountsAreNumbers, FS_AddElement
  <2>3. Cardinality(Back(req', h)) = Cardinality(Back(req, h)) + 1
    BY <1>3, <1>5, CountsAreNumbers, FS_AddElement
  <2> QED
    BY <2>2, <2>3, CountsAreNumbers
<1>8. proc' = [proc EXCEPT ![h] = Returned(proc[h], ok)]
  OBVIOUS
<1> HIDE DEF h
<1>9. /\ Returned(proc[h], ok) \in ProcType /\ Returned(proc[h], ok).inFlight = proc[h].inFlight - 1
      /\ Returned(proc[h], ok).hang \in {0, proc[h].hang + 1} /\ Returned(proc[h], ok).alive = proc[h].alive
  BY <1>1, <1>2, <1>7, ReturnedType
<1>10. /\ proc' \in [Gen -> ProcType] /\ proc'[h] = Returned(proc[h], ok)
       /\ \A g \in Gen : g # h => proc'[g] = proc[g]
  BY <1>1, <1>8, <1>9 DEF ClientShape
<1>11. ClientShape'
  BY <1>4, <1>10 DEF ClientShape
<1>12. \A g \in Gen : proc'[g].inFlight = Cardinality(Held(req', g))
  BY <1>2, <1>6, <1>7, <1>9, <1>10
<1>13. InFlightExact'
  BY <1>12 DEF InFlightExact, Held
<1>14. NobodyWaitsForDead'
  <2>1. \A k \in Req : k # r /\ req[k].at = "active" => req[k].gen \in Gen /\ proc[req[k].gen].alive
    BY ReqFacts
  <2> QED
    BY <1>4, <1>9, <1>10, <2>1 DEF NobodyWaitsForDead
<1>15. ReqInv'
  <2>1. \A k \in Req : req'[k].at # "idle" => req'[k].gen # 0
    BY <1>1, <1>4 DEF CountInv, ReqInv
  <2>2. \A g \in Gen : g > lastGen => proc'[g] = NoProc
    BY <1>1, <1>10 DEF CountInv, ReqInv
  <2>3. ASSUME NEW g \in Gen PROVE proc'[g].hang <= Cardinality(Back(req', g))
    <3>1. proc[g].hang \in Nat /\ proc[g].hang <= Cardinality(Back(req, g))
      BY <1>2 DEF CountInv, ReqInv, ProcType
    <3>2. CASE g = h
      BY <1>7, <1>9, <1>10, <3>1, <3>2, CountsAreNumbers
    <3>3. CASE g # h
      BY <1>6, <1>10, <3>1, <3>3
    <3> QED
      BY <3>2, <3>3
  <2> QED
    BY <2>1, <2>2, <2>3 DEF ReqInv, Back
<1> QED
  BY <1>11, <1>13, <1>14, <1>15 DEF CountInv

\* TimeOut: the request stays counted.
LEMMA TimeOutKeeps ==
  ASSUME ClientShape, CountInv, NEW r \in Req, TimeOut(r)
  PROVE  ClientShape' /\ CountInv'
<1>1. /\ req[r].at = "active" /\ req' = [req EXCEPT ![r].at = "dropped"] /\ UNCHANGED <<proc, lastGen, notices>>
  BY DEF TimeOut
<1>2. /\ req'[r].at = "dropped" /\ req'[r].gen = req[r].gen
      /\ \A k \in Req : k # r => req'[k] = req[k]
      /\ req' \in [Req -> ReqType(lastGen)]
  BY <1>1 DEF ClientShape, ReqType
<1>3. \A g \in Gen : Held(req', g) = Held(req, g) /\ Back(req', g) = Back(req, g)
  BY <1>1, <1>2 DEF Held, Back
<1>4. ClientShape'
  BY <1>1, <1>2 DEF ClientShape
<1>5. InFlightExact'
  <2>1. \A g \in Gen : proc[g].inFlight = Cardinality(Held(req, g))
    BY DEF CountInv, InFlightExact, Held
  <2>2. \A g \in Gen : proc'[g].inFlight = Cardinality(Held(req', g))
    BY <1>1, <1>3, <2>1
  <2> QED
    BY <2>2 DEF InFlightExact, Held
<1>6. NobodyWaitsForDead'
  BY <1>1, <1>2, ReqFacts DEF NobodyWaitsForDead
<1>7. ReqInv'
  <2>1. \A k \in Req : req'[k].at # "idle" => req'[k].gen # 0
    BY <1>1, <1>2 DEF CountInv, ReqInv
  <2>2. \A g \in Gen : (g > lastGen => proc'[g] = NoProc) /\ proc'[g].hang <= Cardinality(Back(req', g))
    BY <1>1, <1>3 DEF CountInv, ReqInv
  <2> QED
    BY <1>1, <2>1, <2>2 DEF ReqInv, Back
<1> QED
  BY <1>4, <1>5, <1>6, <1>7 DEF CountInv

\* Exit, CloseReaped, Disconnect: with its process a generation's waiting
\* requests end.
LEMMA DrainKeeps ==
  ASSUME ClientShape, CountInv, NEW h \in Gen, NEW p \in ProcType,
         p.inFlight = proc[h].inFlight, p.hang = proc[h].hang, h <= lastGen,
         proc' = [proc EXCEPT ![h] = p], req' = Drained(h), UNCHANGED <<lastGen, notices>>
  PROVE  ClientShape' /\ CountInv'
<1>1. /\ proc' \in [Gen -> ProcType] /\ proc'[h] = p /\ \A g \in Gen : g # h => proc'[g] = proc[g]
  BY DEF ClientShape
<1>2. /\ req' \in [Req -> ReqType(lastGen)]
      /\ \A k \in Req : /\ req'[k].gen = req[k].gen
                        /\ req'[k].at = IF req[k].at = "active" /\ req[k].gen = h THEN "failed" ELSE req[k].at
  <2>1. \A k \in Req : req[k] \in ReqType(lastGen) /\ [req[k] EXCEPT !.at = "failed"] \in ReqType(lastGen)
    BY DEF ClientShape, ReqType
  <2>2. \A k \in Req : req'[k] = IF req[k].at = "active" /\ req[k].gen = h THEN [req[k] EXCEPT !.at = "failed"] ELSE req[k]
    BY DEF Drained
  <2>3. req' \in [Req -> ReqType(lastGen)]
    BY <2>1 DEF Drained
  <2> QED
    BY <2>1, <2>2, <2>3 DEF ReqType
<1>3. \A g \in Gen : Held(req', g) = Held(req, g) /\ Back(req', g) = Back(req, g)
  BY <1>2, SameCounts
<1>4. ClientShape'
  BY <1>1, <1>2 DEF ClientShape
<1>5. InFlightExact'
  <2>1. \A g \in Gen : proc[g].inFlight = Cardinality(Held(req, g))
    BY DEF CountInv, InFlightExact, Held
  <2>2. \A g \in Gen : proc'[g].inFlight = Cardinality(Held(req', g))
    BY <1>1, <1>3, <2>1
  <2> QED
    BY <2>2 DEF InFlightExact, Held
<1>6. NobodyWaitsForDead'
  <2> SUFFICES ASSUME NEW k \in Req, req'[k].at = "active" PROVE proc'[req'[k].gen].alive
    BY DEF NobodyWaitsForDead
  <2>1. req[k].at = "active" /\ req[k].gen # h /\ req'[k].gen = req[k].gen
    BY <1>2
  <2> QED
    BY <1>1, <2>1, ReqFacts
<1>7. ReqInv'
  <2>1. \A k \in Req : req'[k].at # "idle" => req'[k].gen # 0
    BY <1>2 DEF CountInv, ReqInv
  <2>2. \A g \in Gen : g > lastGen => proc'[g] = NoProc
    BY <1>1, GenFacts DEF CountInv, ReqInv
  <2>3. \A g \in Gen : proc'[g].hang <= Cardinality(Back(req', g))
    BY <1>1, <1>3 DEF CountInv, ReqInv
  <2> QED
    BY <2>1, <2>2, <2>3 DEF ReqInv, Back
<1> QED
  BY <1>4, <1>5, <1>6, <1>7 DEF CountInv

\* Reap: the monitor ends and a closing begins; the counts stay.
LEMMA ReapKeeps ==
  ASSUME ClientShape, CountInv, NEW h \in Gen, NEW why \in {"idle", "lifetime", "hung"}, Reap(h, why)
  PROVE  ClientShape' /\ CountInv'
<1>1. h <= lastGen /\ h \in 1 .. lastGen
  <2>1. proc[h].monitor
    BY DEF Reap
  <2>2. proc[h] # NoProc
    BY <2>1 DEF NoProc
  <2> QED
    BY <2>2, GenFacts DEF CountInv, ReqInv
<1> DEFINE p == [proc[h] EXCEPT !.monitor = FALSE, !.doomed = why]
<1>2. proc' = [proc EXCEPT ![h] = p] /\ UNCHANGED <<lastGen, req>> /\ notices' = notices \cup {h}
  BY DEF Reap, ClientShape, ProcType
<1>3. p \in ProcType /\ p.alive = proc[h].alive /\ p.inFlight = proc[h].inFlight /\ p.hang = proc[h].hang
  BY DEF ClientShape, ProcType
<1> HIDE DEF p
<1>4. /\ proc' \in [Gen -> ProcType]
      /\ \A g \in Gen : /\ proc'[g].alive = proc[g].alive /\ proc'[g].inFlight = proc[g].inFlight
                        /\ proc'[g].hang = proc[g].hang /\ (g # h => proc'[g] = proc[g])
  BY <1>2, <1>3 DEF ClientShape
<1>5. ClientShape'
  BY <1>1, <1>2, <1>4 DEF ClientShape
<1>6. InFlightExact'
  BY <1>2, <1>4 DEF CountInv, InFlightExact
<1>7. NobodyWaitsForDead'
  BY <1>2, <1>4, ReqFacts DEF NobodyWaitsForDead
<1>8. ReqInv'
  <2>1. \A g \in Gen : g > lastGen => proc'[g] = NoProc
    BY <1>1, <1>4, GenFacts DEF CountInv, ReqInv
  <2>2. \A g \in Gen : proc'[g].hang <= Cardinality(Back(req, g))
    BY <1>4 DEF CountInv, ReqInv
  <2>3. \A k \in Req : req[k].at # "idle" => req[k].gen # 0
    BY DEF CountInv, ReqInv
  <2> QED
    BY <1>2, <2>1, <2>2, <2>3 DEF ReqInv, Back
<1> QED
  BY <1>5, <1>6, <1>7, <1>8 DEF CountInv

\* What was typed stays so when a generation is added.
LEMMA TypesGrow ==
  ASSUME NEW n \in Nat
  PROVE  /\ ReqType(n) \subseteq ReqType(n + 1) /\ SupType(n) \subseteq SupType(n + 1)
         /\ TaskType(n) \subseteq TaskType(n + 1)
<1>1. 0 .. n \subseteq 0 .. n + 1 /\ 1 .. n \subseteq 1 .. n + 1
  OBVIOUS
<1> QED
  BY <1>1 DEF ReqType, SupType, TaskType

\* ConnectSucceeds: the new generation starts with nothing counted.
LEMMA ConnectKeeps ==
  ASSUME ClientShape, CountInv, ConnectSucceeds, UNCHANGED <<req, notices>>
  PROVE  /\ ClientShape' /\ CountInv' /\ lastGen' = lastGen + 1 /\ lastGen \in Nat
         /\ entry' \in EntryType(lastGen') /\ entry'.status = "connected"
<1> DEFINE h == lastGen + 1
<1>1. /\ lastGen' = h /\ lastGen \in Nat /\ h \in Gen /\ h \in 0 .. MaxGen
      /\ proc' = [proc EXCEPT ![h] = NewProc] /\ entry' = Connected(h)
  BY GenFacts DEF ConnectSucceeds, Gen
<1>2. NewProc \in ProcType /\ NewProc.inFlight = 0 /\ NewProc.hang = 0
  BY DEF NewProc, NoProc, ProcType
<1>3. proc' \in [Gen -> ProcType] /\ proc'[h] = NewProc /\ \A g \in Gen : g # h => proc'[g] = proc[g]
  BY <1>1, <1>2 DEF ClientShape
<1>4. ClientShape'
  <2>1. req' \in [Req -> ReqType(lastGen')]
    BY <1>1, TypesGrow DEF ClientShape
  <2>2. notices' \subseteq 1 .. lastGen'
    BY <1>1 DEF ClientShape
  <2> QED
    BY <1>1, <1>3, <2>1, <2>2 DEF ClientShape
<1>5. \A k \in Req : req[k].at # "idle" => req[k].gen # h
  BY <1>1, ReqFacts
<1>6. Held(req, h) = {} /\ Back(req, h) = {}
  BY <1>5 DEF Held, Back
<1>7. entry' \in EntryType(lastGen') /\ entry'.status = "connected"
  BY <1>1 DEF EntryType, Connected
<1> HIDE DEF h
<1>8. InFlightExact'
  <2>1. \A g \in Gen : proc[g].inFlight = Cardinality(Held(req, g))
    BY DEF CountInv, InFlightExact, Held
  <2>2. \A g \in Gen : proc'[g].inFlight = Cardinality(Held(req, g))
    BY <1>2, <1>3, <1>6, <2>1, FS_EmptySet
  <2> QED
    BY <2>2 DEF InFlightExact, Held
<1>9. NobodyWaitsForDead'
  BY <1>3, <1>5, ReqFacts DEF NobodyWaitsForDead
<1>10. ReqInv'
  <2>1. \A g \in Gen : g > lastGen' => proc'[g] = NoProc
    <3>1. \A g \in Gen : g > lastGen' => g > lastGen /\ g # h
      BY <1>1, GenFacts DEF h
    <3> QED
      BY <1>3, <3>1 DEF CountInv, ReqInv
  <2>2. \A g \in Gen : proc'[g].hang <= Cardinality(Back(req, g))
    <3>1. \A g \in Gen : g # h => proc'[g].hang <= Cardinality(Back(req, g))
      BY <1>3 DEF CountInv, ReqInv
    <3>2. proc'[h].hang <= Cardinality(Back(req, h))
      BY <1>2, <1>3, <1>6, FS_EmptySet
    <3> QED
      BY <3>1, <3>2
  <2>3. \A k \in Req : req[k].at # "idle" => req[k].gen # 0
    BY DEF CountInv, ReqInv
  <2> QED
    BY <2>1, <2>2, <2>3 DEF ReqInv, Back
<1> QED
  BY <1>1, <1>4, <1>7, <1>8, <1>9, <1>10 DEF CountInv, h

\* The steps that leave clients and requests alone.
LEMMA QuietKeeps ==
  ASSUME ClientShape, CountInv, UNCHANGED <<proc, req, lastGen>>, notices' \subseteq notices
  PROVE  ClientShape' /\ CountInv'
<1>1. ClientShape'
  BY DEF ClientShape
<1>2. InFlightExact' /\ NobodyWaitsForDead' /\ ReqInv'
  BY DEF CountInv, InFlightExact, NobodyWaitsForDead, ReqInv, Back
<1> QED
  BY <1>1, <1>2 DEF CountInv

\* The steps that leave those alone who connect.
LEMMA ControlKeeps ==
  ASSUME ControlShape, StartingOwned, UNCHANGED <<disabled, abandoned, jobs, offered, entry, sup, task, lastGen>>
  PROVE  ControlShape' /\ StartingOwned'
  BY DEF ControlShape, StartingOwned

ServerInv == ClientShape /\ ControlShape /\ CountInv /\ StartingOwned

\* The supervisor's steps.
LEMMA SupervisorKeeps ==
  ASSUME ServerInv, Receive \/ SupConnects \/ SupConnected \/ SupRegisters \/ SupRearms
  PROVE  ServerInv'
<1>1. ClientShape /\ ControlShape /\ CountInv /\ StartingOwned /\ lastGen \in Nat
  BY GenFacts DEF ServerInv
<1>2. /\ offered \in 0 .. lastGen /\ entry \in EntryType(lastGen) /\ sup \in SupType(lastGen)
      /\ task \in [Task -> TaskType(lastGen)] /\ Ended \in SupType(lastGen)
  BY <1>1 DEF ControlShape, SupType
<1>3. ASSUME sup.at # "ended"
      PROVE  /\ sup \in [at : {"waiting", "backoff", "connecting", "registering", "taking"},
                         rx : 1 .. lastGen, gen : 0 .. lastGen]
             /\ \A x \in {"waiting", "backoff", "connecting", "registering", "taking"} :
                  [sup EXCEPT !.at = x] \in SupType(lastGen)
  <2>1. sup # Ended
    BY <1>3 DEF Ended
  <2>2. sup \in [at : {"waiting", "backoff", "connecting", "registering", "taking"},
                 rx : 1 .. lastGen, gen : 0 .. lastGen]
    BY <1>2, <2>1 DEF SupType
  <2> QED
    BY <2>2 DEF SupType
<1>4. CASE Receive
  <2>1. /\ sup.at = "waiting" /\ sup' \in {[sup EXCEPT !.at = "backoff"], sup, Ended}
        /\ notices' \subseteq notices
        /\ UNCHANGED <<disabled, proc, lastGen, entry, offered, task, req, abandoned, jobs>>
    BY <1>4 DEF Receive
  <2>2. sup' \in SupType(lastGen)
    BY <1>2, <1>3, <2>1
  <2>3. ControlShape'
    BY <1>1, <2>1, <2>2 DEF ControlShape
  <2>4. StartingOwned'
    BY <1>1, <2>1 DEF StartingOwned
  <2> QED
    BY <1>1, <2>1, <2>3, <2>4, QuietKeeps DEF ServerInv
<1>5. CASE SupConnects
  <2>1. /\ sup.at = "backoff" /\ entry' = Starting /\ sup' = [sup EXCEPT !.at = "connecting"]
        /\ UNCHANGED <<disabled, proc, lastGen, offered, notices, task, req, abandoned, jobs>>
    BY <1>5 DEF SupConnects, ConnectStarts
  <2>2. sup' \in SupType(lastGen) /\ sup'.at = "connecting" /\ entry' \in EntryType(lastGen)
    <3>1. sup' \in SupType(lastGen)
      BY <1>3, <2>1
    <3>2. sup'.at = "connecting"
      BY <1>3, <2>1
    <3> QED
      BY <2>1, <3>1, <3>2 DEF EntryType
  <2>3. ControlShape' /\ StartingOwned'
    BY <1>1, <2>1, <2>2 DEF ControlShape, StartingOwned
  <2> QED
    BY <1>1, <2>1, <2>3, QuietKeeps DEF ServerInv
<1>6. CASE SupConnected
  <2>1. sup.at = "connecting" /\ UNCHANGED <<disabled, offered, notices, task, req, abandoned, jobs>>
    BY <1>6 DEF SupConnected
  <2>2. CASE ConnectSucceeds /\ sup' = [sup EXCEPT !.at = "registering", !.gen = lastGen']
    <3>1. /\ ClientShape' /\ CountInv' /\ lastGen' = lastGen + 1
          /\ entry' \in EntryType(lastGen') /\ entry'.status = "connected"
      BY <1>1, <2>1, <2>2, ConnectKeeps
    <3>2. sup' \in SupType(lastGen')
      <4>1. lastGen' \in 0 .. lastGen' /\ 1 .. lastGen \subseteq 1 .. lastGen'
        BY <1>1, <3>1
      <4> QED
        BY <1>3, <2>1, <2>2, <4>1 DEF SupType
    <3>3. offered' \in 0 .. lastGen' /\ task' \in [Task -> TaskType(lastGen')]
      BY <1>1, <1>2, <2>1, <3>1, TypesGrow
    <3>4. ControlShape'
      BY <1>1, <2>1, <3>1, <3>2, <3>3 DEF ControlShape
    <3>5. StartingOwned'
      BY <3>1 DEF StartingOwned
    <3> QED
      BY <3>1, <3>4, <3>5 DEF ServerInv
  <2>3. CASE ConnectFails /\ sup' = [sup EXCEPT !.at = "backoff"]
    <3>1. entry' = Failed /\ UNCHANGED <<lastGen, proc>> /\ entry' \in EntryType(lastGen) /\ entry'.status = "failed"
      BY <2>3 DEF ConnectFails, EntryType, Failed, NoEntry
    <3>2. sup' \in SupType(lastGen)
      BY <1>3, <2>1, <2>3
    <3>3. ControlShape' /\ StartingOwned'
      BY <1>1, <2>1, <3>1, <3>2 DEF ControlShape, StartingOwned
    <3> QED
      BY <1>1, <2>1, <3>1, <3>3, QuietKeeps DEF ServerInv
  <2> QED
    BY <1>6, <2>2, <2>3 DEF SupConnected
<1>7. CASE SupRegisters
  <2>1. /\ sup.at = "registering" /\ offered' \in {sup.gen, offered}
        /\ sup' \in {[sup EXCEPT !.at = "taking"], [sup EXCEPT !.at = "backoff"]}
        /\ UNCHANGED <<disabled, proc, lastGen, entry, notices, task, req, abandoned, jobs>>
    BY <1>7 DEF SupRegisters
  <2>2. sup' \in SupType(lastGen) /\ offered' \in 0 .. lastGen
    BY <1>2, <1>3, <2>1
  <2>3. ControlShape' /\ StartingOwned'
    BY <1>1, <2>1, <2>2 DEF ControlShape, StartingOwned
  <2> QED
    BY <1>1, <2>1, <2>3, QuietKeeps DEF ServerInv
<1>8. CASE SupRearms
  <2>1. /\ sup.at = "taking" /\ UNCHANGED <<disabled, proc, lastGen, offered, notices, task, req, abandoned, jobs>>
    BY <1>8 DEF SupRearms
  <2>2. /\ sup' \in SupType(lastGen) /\ entry' \in EntryType(lastGen)
        /\ entry'.status = entry.status
    <3>1. CASE entry.rx
      <4>1. sup' = [at |-> "waiting", rx |-> entry.gen, gen |-> 0] /\ entry' = [entry EXCEPT !.rx = FALSE]
        BY <1>8, <3>1 DEF SupRearms
      <4>2. entry \in [status : {"connected"}, gen : 1 .. lastGen, rx : BOOLEAN]
        BY <1>2, <3>1 DEF EntryType, NoEntry, Starting, Failed
      <4>3. 0 \in 0 .. lastGen /\ entry.gen \in 1 .. lastGen
        BY <1>1, <4>2
      <4>4. sup' \in SupType(lastGen)
        BY <4>1, <4>3 DEF SupType
      <4> QED
        BY <4>1, <4>2, <4>4 DEF EntryType
    <3>2. CASE ~entry.rx
      BY <1>2, <1>8, <3>2 DEF SupRearms
    <3> QED
      BY <3>1, <3>2
  <2>3. ControlShape' /\ StartingOwned'
    BY <1>1, <2>1, <2>2 DEF ControlShape, StartingOwned
  <2> QED
    BY <1>1, <2>1, <2>3, QuietKeeps DEF ServerInv
<1> QED
  BY <1>4, <1>5, <1>6, <1>7, <1>8

\* The handlers' steps.
LEMMA HandlerKeeps ==
  ASSUME ServerInv, NEW t \in Task,
         \/ RestartServer(t) \/ (\E off \in BOOLEAN : Put(t, off)) \/ Disconnect(t) \/ Connect(t)
         \/ ConnectReturns(t) \/ Register(t) \/ HandlerDropped(t)
  PROVE  ServerInv'
<1>1. ClientShape /\ ControlShape /\ CountInv /\ StartingOwned /\ lastGen \in Nat
  BY GenFacts DEF ServerInv
<1>2. /\ disabled \in BOOLEAN /\ abandoned \in BOOLEAN /\ jobs \in 0 .. MaxJobs
      /\ offered \in 0 .. lastGen /\ entry \in EntryType(lastGen) /\ sup \in SupType(lastGen)
      /\ task \in [Task -> TaskType(lastGen)] /\ task[t] \in TaskType(lastGen)
  BY <1>1 DEF ControlShape
<1>3. /\ Free \in TaskType(lastGen)
      /\ \A x \in {"idle", "shutdown", "reconnect", "closed", "connecting", "registering"} :
           [task[t] EXCEPT !.at = x] \in TaskType(lastGen)
  BY <1>1, <1>2 DEF TaskType, Free
<1>4. ASSUME NEW u \in TaskType(lastGen), task' = [task EXCEPT ![t] = u]
      PROVE  /\ task' \in [Task -> TaskType(lastGen)] /\ task'[t] = u
             /\ \A k \in Task : k # t => task'[k] = task[k]
  BY <1>2, <1>4
<1>5. CASE RestartServer(t)
  <2>1. /\ task[t].at = "idle" /\ jobs < MaxJobs /\ jobs' = jobs + 1
        /\ task' = [task EXCEPT ![t] = [task[t] EXCEPT !.at = "reconnect"]]
        /\ UNCHANGED <<disabled, proc, lastGen, entry, offered, notices, sup, req, abandoned>>
    BY <1>5 DEF RestartServer
  <2>2. task' \in [Task -> TaskType(lastGen)] /\ \A k \in Task : k # t => task'[k] = task[k]
    BY <1>3, <1>4, <2>1
  <2>3. jobs' \in 0 .. MaxJobs
    BY <1>2, <2>1, McpAssumption
  <2>4. ControlShape'
    BY <1>2, <2>1, <2>2, <2>3 DEF ControlShape
  <2>5. StartingOwned'
    BY <1>1, <2>1, <2>2 DEF StartingOwned
  <2> QED
    BY <1>1, <2>1, <2>4, <2>5, QuietKeeps DEF ServerInv
<1>6. ASSUME NEW off \in BOOLEAN, Put(t, off) PROVE ServerInv'
  <2> DEFINE u == [at |-> "shutdown", gen |-> 0, off |-> off]
  <2>1. /\ task[t].at = "idle" /\ jobs < MaxJobs /\ jobs' = jobs + 1 /\ disabled' = off
        /\ task' = [task EXCEPT ![t] = u]
        /\ UNCHANGED <<proc, lastGen, entry, offered, notices, sup, req, abandoned>>
    BY <1>6 DEF Put
  <2>2. u \in TaskType(lastGen)
    BY <1>1 DEF TaskType
  <2> HIDE DEF u
  <2>3. task' \in [Task -> TaskType(lastGen)] /\ \A k \in Task : k # t => task'[k] = task[k]
    BY <1>4, <2>1, <2>2
  <2>4. jobs' \in 0 .. MaxJobs
    BY <1>2, <2>1, McpAssumption
  <2>5. ControlShape'
    BY <1>2, <2>1, <2>3, <2>4 DEF ControlShape
  <2>6. StartingOwned'
    BY <1>1, <2>1, <2>3 DEF StartingOwned
  <2> QED
    BY <1>1, <2>1, <2>5, <2>6, QuietKeeps DEF ServerInv
<1>7. CASE Disconnect(t)
  <2> DEFINE u == IF task[t].at = "reconnect" THEN [task[t] EXCEPT !.at = "closed"]
                  ELSE IF task[t].off THEN Free ELSE [task[t] EXCEPT !.at = "reconnect"]
  <2>1. /\ task[t].at \in {"shutdown", "reconnect"} /\ entry' = NoEntry
        /\ task' = [task EXCEPT ![t] = u]
        /\ UNCHANGED <<disabled, lastGen, offered, notices, sup, abandoned, jobs>>
    BY <1>7 DEF Disconnect
  <2>2. u \in TaskType(lastGen)
    BY <1>3
  <2> HIDE DEF u
  <2>3. task' \in [Task -> TaskType(lastGen)]
    BY <1>4, <2>1, <2>2
  <2>4. ControlShape' /\ StartingOwned'
    BY <1>2, <2>1, <2>3 DEF ControlShape, StartingOwned, EntryType, NoEntry
  <2>5. CASE entry.status = "connected"
    <3> DEFINE h == entry.gen
               p == [proc[h] EXCEPT !.alive = FALSE]
    <3>1. entry \in [status : {"connected"}, gen : 1 .. lastGen, rx : BOOLEAN]
      BY <1>2, <2>5 DEF EntryType, NoEntry, Starting, Failed
    <3>2. h \in 1 .. lastGen /\ h \in Gen /\ h <= lastGen
      BY <1>1, <3>1, GenFacts
    <3>3. proc[h] \in ProcType
      BY <1>1, <3>2 DEF ClientShape
    <3>4. p \in ProcType /\ p.inFlight = proc[h].inFlight /\ p.hang = proc[h].hang
      BY <3>3 DEF ProcType
    <3>5. proc' = [proc EXCEPT ![h] = p] /\ req' = Drained(h)
      BY <1>7, <2>5 DEF Disconnect
    <3> HIDE DEF h, p
    <3> QED
      BY <1>1, <2>1, <2>4, <3>2, <3>4, <3>5, DrainKeeps DEF ServerInv
  <2>6. CASE entry.status # "connected"
    <3>1. UNCHANGED <<proc, req>>
      BY <1>7, <2>6 DEF Disconnect
    <3> QED
      BY <1>1, <2>1, <2>4, <3>1, QuietKeeps DEF ServerInv
  <2> QED
    BY <2>5, <2>6
<1>8. CASE Connect(t)
  <2>1. /\ task[t].at = "closed" /\ entry' = Starting
        /\ task' = [task EXCEPT ![t] = [task[t] EXCEPT !.at = "connecting"]]
        /\ UNCHANGED <<disabled, proc, lastGen, offered, notices, sup, req, abandoned, jobs>>
    BY <1>8 DEF Connect, ConnectStarts
  <2>2. task' \in [Task -> TaskType(lastGen)] /\ task'[t] = [task[t] EXCEPT !.at = "connecting"]
    BY <1>3, <1>4, <2>1
  <2>3. task'[t].at = "connecting"
    BY <1>2, <2>2 DEF TaskType
  <2>4. ControlShape' /\ StartingOwned'
    BY <1>2, <2>1, <2>2, <2>3 DEF ControlShape, StartingOwned, EntryType
  <2> QED
    BY <1>1, <2>1, <2>4, QuietKeeps DEF ServerInv
<1>9. CASE ConnectReturns(t)
  <2>1. task[t].at = "connecting" /\ UNCHANGED <<disabled, offered, notices, sup, req, abandoned, jobs>>
    BY <1>9 DEF ConnectReturns
  <2>2. CASE ConnectSucceeds /\ task' = [task EXCEPT ![t].at = "registering", ![t].gen = lastGen']
    <3>1. /\ ClientShape' /\ CountInv' /\ lastGen' = lastGen + 1
          /\ entry' \in EntryType(lastGen') /\ entry'.status = "connected"
      BY <1>1, <2>1, <2>2, ConnectKeeps
    <3> DEFINE u == [task[t] EXCEPT !.at = "registering", !.gen = lastGen']
    <3>2. task' = [task EXCEPT ![t] = u]
      BY <1>2, <2>2
    <3>3. lastGen' \in 0 .. lastGen' /\ TaskType(lastGen) \subseteq TaskType(lastGen')
      BY <1>1, <3>1, TypesGrow
    <3>4. u \in TaskType(lastGen')
      BY <1>2, <3>3 DEF TaskType
    <3> HIDE DEF u
    <3>5. task' \in [Task -> TaskType(lastGen')]
      BY <1>2, <3>2, <3>3, <3>4
    <3>6. offered' \in 0 .. lastGen' /\ sup' \in SupType(lastGen')
      BY <1>1, <1>2, <2>1, <3>1, TypesGrow
    <3>7. ControlShape'
      BY <1>2, <2>1, <3>1, <3>5, <3>6 DEF ControlShape
    <3>8. StartingOwned'
      BY <3>1 DEF StartingOwned
    <3> QED
      BY <3>1, <3>7, <3>8 DEF ServerInv
  <2>3. CASE ConnectFails /\ task' = [task EXCEPT ![t] = Free]
    <3>1. entry' = Failed /\ UNCHANGED <<lastGen, proc>> /\ entry' \in EntryType(lastGen) /\ entry'.status = "failed"
      BY <2>3 DEF ConnectFails, EntryType, Failed, NoEntry
    <3>2. task' \in [Task -> TaskType(lastGen)]
      BY <1>3, <1>4, <2>3
    <3>3. ControlShape' /\ StartingOwned'
      BY <1>2, <2>1, <3>1, <3>2 DEF ControlShape, StartingOwned
    <3> QED
      BY <1>1, <2>1, <3>1, <3>3, QuietKeeps DEF ServerInv
  <2> QED
    BY <1>9, <2>2, <2>3 DEF ConnectReturns
<1>10. CASE Register(t)
  <2>1. /\ task[t].at = "registering" /\ task' = [task EXCEPT ![t] = Free]
        /\ offered' \in {task[t].gen, offered} /\ entry' \in {entry, Failed}
        /\ UNCHANGED <<disabled, proc, lastGen, notices, sup, req, abandoned, jobs>>
    BY <1>10 DEF Register
  <2>2. task' \in [Task -> TaskType(lastGen)] /\ \A k \in Task : k # t => task'[k] = task[k]
    BY <1>3, <1>4, <2>1
  <2>3. offered' \in 0 .. lastGen /\ entry' \in EntryType(lastGen)
    BY <1>2, <2>1 DEF TaskType, EntryType
  <2>4. ControlShape'
    BY <1>2, <2>1, <2>2, <2>3 DEF ControlShape
  <2>5. StartingOwned'
    BY <1>1, <2>1, <2>2 DEF StartingOwned, Failed, NoEntry
  <2> QED
    BY <1>1, <2>1, <2>4, <2>5, QuietKeeps DEF ServerInv
<1>11. CASE HandlerDropped(t)
  <2>1. /\ task' = [task EXCEPT ![t] = Free] /\ abandoned' = (abandoned \/ task[t].at = "connecting")
        /\ UNCHANGED <<disabled, proc, lastGen, entry, offered, notices, sup, req, jobs>>
    BY <1>11 DEF HandlerDropped
  <2>2. task' \in [Task -> TaskType(lastGen)] /\ \A k \in Task : k # t => task'[k] = task[k]
    BY <1>3, <1>4, <2>1
  <2>3. ControlShape'
    BY <1>2, <2>1, <2>2 DEF ControlShape
  <2>4. StartingOwned'
    BY <1>1, <2>1, <2>2 DEF StartingOwned
  <2> QED
    BY <1>1, <2>1, <2>3, <2>4, QuietKeeps DEF ServerInv
<1> QED
  BY <1>5, <1>6, <1>7, <1>8, <1>9, <1>10, <1>11

\* Every step of the server, its monitor, the supervisor and the handlers.
LEMMA ServerInvInductive ==
  ASSUME ServerInv, [McpNext]_mcpVars
  PROVE  ServerInv'
<1>1. ServerInv /\ ClientShape /\ ControlShape /\ CountInv /\ StartingOwned
  BY DEF ServerInv
<1>2. ASSUME NEW r \in Req, CallTool(r) PROVE ServerInv'
  <2>1. ControlShape' /\ StartingOwned'
    BY <1>1, <1>2, ControlKeeps DEF CallTool
  <2> QED
    BY <1>1, <1>2, <2>1, CallToolKeeps DEF ServerInv
<1>3. ASSUME NEW r \in Req, NEW ok \in BOOLEAN, Answer(r, ok) \/ (ok = FALSE /\ Fail(r)) PROVE ServerInv'
  <2>1. /\ req[r].at \in {"active", "failed"} /\ req' = [req EXCEPT ![r].at = "done"]
        /\ proc' = [proc EXCEPT ![req[r].gen] = Returned(@, ok)]
        /\ UNCHANGED <<disabled, lastGen, entry, offered, notices, sup, task, abandoned, jobs>>
    BY <1>3 DEF Answer, Fail
  <2>2. ControlShape' /\ StartingOwned'
    BY <1>1, <2>1, ControlKeeps
  <2> QED
    BY <1>1, <2>1, <2>2, ReturnKeeps DEF ServerInv
<1>4. ASSUME NEW r \in Req, TimeOut(r) PROVE ServerInv'
  <2>1. ControlShape' /\ StartingOwned'
    BY <1>1, <1>4, ControlKeeps DEF TimeOut
  <2> QED
    BY <1>1, <1>4, <2>1, TimeOutKeeps DEF ServerInv
<1>5. ASSUME NEW g \in Gen, Exit(g) \/ CloseReaped(g) PROVE ServerInv'
  <2>1. /\ proc[g].alive \/ proc[g].doomed # "no"
        /\ req' = Drained(g)
        /\ UNCHANGED <<disabled, lastGen, entry, offered, notices, sup, task, abandoned, jobs>>
    BY <1>5 DEF Exit, CloseReaped
  <2>2. proc[g] \in ProcType /\ g <= lastGen
    <3>1. proc[g] # NoProc
      BY <2>1 DEF NoProc
    <3> QED
      BY <1>1, <3>1, GenFacts DEF ClientShape, CountInv, ReqInv
  <2>3. PICK p \in ProcType : /\ p.inFlight = proc[g].inFlight /\ p.hang = proc[g].hang
                             /\ proc' = [proc EXCEPT ![g] = p]
    <3>1. CASE Exit(g)
      <4> DEFINE p == [proc[g] EXCEPT !.alive = FALSE]
      <4>1. p \in ProcType /\ p.inFlight = proc[g].inFlight /\ p.hang = proc[g].hang
        BY <2>2 DEF ProcType
      <4>2. proc' = [proc EXCEPT ![g] = p]
        BY <3>1 DEF Exit
      <4> QED
        BY <4>1, <4>2
    <3>2. CASE CloseReaped(g)
      <4> DEFINE p == [proc[g] EXCEPT !.doomed = "no", !.alive = FALSE]
      <4>1. p \in ProcType /\ p.inFlight = proc[g].inFlight /\ p.hang = proc[g].hang
        BY <2>2 DEF ProcType
      <4>2. proc' = [proc EXCEPT ![g] = p]
        BY <1>1, <2>2, <3>2 DEF CloseReaped, ClientShape, ProcType
      <4> QED
        BY <4>1, <4>2
    <3> QED
      BY <1>5, <3>1, <3>2
  <2>4. ControlShape' /\ StartingOwned'
    BY <1>1, <2>1, ControlKeeps
  <2> QED
    BY <1>1, <2>1, <2>2, <2>3, <2>4, DrainKeeps DEF ServerInv
<1>6. ASSUME NEW g \in Gen, NEW why \in {"idle", "lifetime", "hung"}, Reap(g, why) PROVE ServerInv'
  <2>1. ControlShape' /\ StartingOwned'
    BY <1>1, <1>6, ControlKeeps DEF Reap
  <2> QED
    BY <1>1, <1>6, <2>1, ReapKeeps DEF ServerInv
<1>7. CASE Receive \/ SupConnects \/ SupConnected \/ SupRegisters \/ SupRearms
  BY <1>1, <1>7, SupervisorKeeps
<1>8. ASSUME NEW t \in Task,
             \/ RestartServer(t) \/ (\E off \in BOOLEAN : Put(t, off)) \/ Disconnect(t) \/ Connect(t)
             \/ ConnectReturns(t) \/ Register(t) \/ HandlerDropped(t)
      PROVE  ServerInv'
  BY <1>1, <1>8, HandlerKeeps
<1>9. CASE UNCHANGED mcpVars
  <2>1. UNCHANGED <<disabled, proc, lastGen, entry, offered, notices, sup, task, req, abandoned, jobs>>
    BY <1>9 DEF mcpVars
  <2> QED
    BY <1>1, <2>1, ControlKeeps, QuietKeeps DEF ServerInv
<1> QED
  BY <1>2, <1>3, <1>4, <1>5, <1>6, <1>7, <1>8, <1>9 DEF McpNext

\* The inductive invariant holds.
THEOREM McpIInvHolds == McpSpec => []McpIInv
<1>1. ServerInv <=> McpIInv
  BY McpParts DEF ServerInv
<1> QED
  BY McpIInvInit, ServerInvInductive, <1>1, PTL DEF McpSpec

\* An MCP server's counter of requests is exact but for those timed out
\* (request_tracked), nobody waits for a process that is gone (drain_pending),
\* and a status "starting" has somebody who will change it, unless a handler
\* was dropped (connect_server): whatever the monitor, the supervisor and the
\* handlers do at the same time.
THEOREM ServersAreSupervised == McpSpec => []McpInv
<1>1. McpIInv => McpInv
  BY DEF McpIInv
<1> QED
  BY McpIInvHolds, <1>1, PTL

\* The monitor (spawn_monitor) never finds a server idle while a request waits.
THEOREM BusyServersAreKept == McpSpec => NoBusyReap
<1>1. ASSUME McpIInv, [McpNext]_mcpVars
      PROVE  [\A g \in Gen : proc[g].doomed = "no" /\ proc'[g].doomed = "idle"
                => \A r \in Req : req[r].gen = g => req[r].at \notin {"active", "failed"}]_mcpVars
  <2> SUFFICES ASSUME NEW g \in Gen, proc[g].doomed = "no", proc'[g].doomed = "idle",
                      NEW r \in Req, req[r].gen = g, req[r].at \in {"active", "failed"}
               PROVE  FALSE
    OBVIOUS
  <2>1. ClientShape /\ CountInv
    BY <1>1, McpParts
  <2>2. proc[g].inFlight # 0
    <3>1. proc[g].inFlight = Cardinality(Held(req, g)) /\ r \in Held(req, g)
      BY <2>1 DEF CountInv, InFlightExact, Held
    <3> QED
      BY <3>1, CountsAreNumbers, FS_EmptySet
  <2>3. ~Reap(g, "idle")
    BY <2>2 DEF Reap, Idle
  <2>4. ASSUME NEW h \in Gen, NEW why \in {"idle", "lifetime", "hung"}, Reap(h, why) PROVE FALSE
    <3>1. proc' = [proc EXCEPT ![h] = [proc[h] EXCEPT !.monitor = FALSE, !.doomed = why]]
      BY <2>1, <2>4 DEF Reap, ClientShape, ProcType
    <3>2. CASE h = g
      <4>1. proc'[g].doomed = why
        BY <2>1, <3>1, <3>2 DEF ClientShape, ProcType
      <4> QED
        BY <2>3, <2>4, <3>2, <4>1
    <3>3. CASE h # g
      BY <2>1, <3>1, <3>3 DEF ClientShape
    <3> QED
      BY <3>2, <3>3
  <2>5. ASSUME NEW h \in Gen, NEW p \in ProcType, p.doomed \in {proc[h].doomed, "no"}, proc' = [proc EXCEPT ![h] = p]
        PROVE  FALSE
    BY <2>1, <2>5 DEF ClientShape
  <2>6. \A h \in Gen : proc[h] \in ProcType
    BY <2>1 DEF ClientShape
  <2>7. ASSUME NEW k \in Req, CallTool(k) PROVE FALSE
    <3>1. offered \in Gen
      BY <1>1, <2>1, <2>7, GenFacts, McpParts DEF CallTool, ControlShape
    <3> DEFINE p == [proc[offered] EXCEPT !.inFlight = proc[offered].inFlight + 1]
    <3>2. p \in ProcType /\ p.doomed = proc[offered].doomed /\ proc' = [proc EXCEPT ![offered] = p]
      BY <2>6, <2>7, <3>1 DEF CallTool, ProcType
    <3> QED
      BY <2>5, <3>1, <3>2
  <2>8. ASSUME NEW k \in Req, NEW ok \in BOOLEAN, Answer(k, ok) \/ Fail(k) PROVE FALSE
    <3>1. PICK b \in BOOLEAN : proc' = [proc EXCEPT ![req[k].gen] = Returned(proc[req[k].gen], b)]
      BY <2>8 DEF Answer, Fail
    <3>2. req[k].gen \in Gen
      BY <2>1, <2>8, ReqFacts DEF Answer, Fail
    <3>3. Returned(proc[req[k].gen], b).doomed = proc[req[k].gen].doomed
      BY <2>6, <3>2 DEF Returned, ProcType
    <3> QED
      BY <2>1, <3>1, <3>2, <3>3 DEF ClientShape
  <2>9. ASSUME NEW h \in Gen, Exit(h) \/ CloseReaped(h) PROVE FALSE
    <3>1. CASE Exit(h)
      <4> DEFINE p == [proc[h] EXCEPT !.alive = FALSE]
      <4>1. p \in ProcType /\ p.doomed = proc[h].doomed /\ proc' = [proc EXCEPT ![h] = p]
        BY <2>6, <3>1 DEF Exit, ProcType
      <4> QED
        BY <2>5, <4>1
    <3>2. CASE CloseReaped(h)
      <4> DEFINE p == [proc[h] EXCEPT !.doomed = "no", !.alive = FALSE]
      <4>1. p \in ProcType /\ p.doomed = "no"
        BY <2>6 DEF ProcType
      <4>2. proc' = [proc EXCEPT ![h] = p]
        BY <2>1, <2>6, <3>2 DEF CloseReaped, ClientShape, ProcType
      <4> QED
        BY <2>5, <4>1, <4>2
    <3> QED
      BY <2>9, <3>1, <3>2
  <2>10. CASE ConnectSucceeds
    <3>1. lastGen + 1 \in Gen /\ proc' = [proc EXCEPT ![lastGen + 1] = NewProc]
      BY <2>1, <2>10, GenFacts DEF ConnectSucceeds, Gen
    <3>2. NewProc \in ProcType /\ NewProc.doomed = "no"
      BY DEF NewProc, NoProc, ProcType
    <3> QED
      BY <2>5, <3>1, <3>2
  <2>11. ASSUME NEW t \in Task, Disconnect(t) PROVE FALSE
    <3>1. CASE entry.status = "connected"
      <4>1. entry \in EntryType(lastGen)
        BY <1>1, McpParts DEF ControlShape
      <4>2. entry.gen \in 1 .. lastGen
        BY <3>1, <4>1 DEF EntryType, NoEntry, Starting, Failed
      <4>3. entry.gen \in Gen
        BY <2>1, <4>2, GenFacts
      <4> DEFINE p == [proc[entry.gen] EXCEPT !.alive = FALSE]
      <4>4. p \in ProcType /\ p.doomed = proc[entry.gen].doomed /\ proc' = [proc EXCEPT ![entry.gen] = p]
        BY <2>6, <2>11, <3>1, <4>3 DEF Disconnect, ProcType
      <4> QED
        BY <2>5, <4>3, <4>4
    <3>2. CASE entry.status # "connected"
      BY <2>11, <3>2 DEF Disconnect
    <3> QED
      BY <3>1, <3>2
  <2>12. ~UNCHANGED proc
    OBVIOUS
  <2>13. /\ ~Receive /\ ~SupConnects /\ ~SupConnected /\ ~SupRegisters /\ ~SupRearms
         /\ (\A k \in Req : ~TimeOut(k)) /\ ~UNCHANGED mcpVars
    BY <2>10, <2>12 DEF Receive, SupConnects, SupConnected, SupRegisters, SupRearms, ConnectFails, TimeOut, mcpVars
  <2>14. \A t \in Task : /\ ~RestartServer(t) /\ (\A off \in BOOLEAN : ~Put(t, off)) /\ ~Connect(t)
                         /\ ~ConnectReturns(t) /\ ~Register(t) /\ ~HandlerDropped(t)
    BY <2>10, <2>12 DEF RestartServer, Put, Connect, ConnectReturns, Register, HandlerDropped, ConnectFails
  <2> QED
    BY <1>1, <2>4, <2>7, <2>8, <2>9, <2>11, <2>13, <2>14 DEF McpNext
<1> QED
  BY McpIInvHolds, <1>1, PTL DEF McpSpec, NoBusyReap

-----------------------------------------------------------------------------
(* TaskRuns *)

Ordered(s) == \A i \in 1 .. Len(s) - 1 : s[i] < s[i + 1]
UpTo(s, n) == \A i \in 1 .. Len(s) : s[i] <= n

\* In order, and at most one event twice.
Mild(s) ==
  /\ \A i \in 1 .. Len(s) - 1 : s[i] <= s[i + 1]
  /\ \A i, j \in 1 .. Len(s) - 1 : s[i] = s[i + 1] /\ s[j] = s[j + 1] => i = j

\* What a viewer has and what waits for it are events that are in the buffer, and
\* nothing waits for one that has not subscribed, and nothing of the buffer comes
\* twice.  A subscriber that has an event twice has none that is still to be
\* broadcast, so none can come twice after that.
ViewerInv ==
  \A v \in Viewer :
    /\ UpTo(viewer[v].seen \o viewer[v].queue, emitted)
    /\ viewer[v].at \in {"new", "replayed", "open"}
         => viewer[v].queue = << >> /\ Ordered(viewer[v].seen \o viewer[v].queue)
    /\ viewer[v].at = "live"
         => \/ UpTo(viewer[v].seen \o viewer[v].queue, told)
            \/ Ordered(viewer[v].seen \o viewer[v].queue)

\* The event "ended" has its number at the end.
EndedLast == ended # 0 => stage[WatchedRun] = "over"

TaskIInv == TaskInv /\ ViewerInv /\ EndedLast

\* The constants, one by one.
LEMMA TaskConstants ==
  /\ MaxConcurrent \in Nat \ {0} /\ ReplayCap \in Nat \ {0} /\ FinishedKeep \in Nat \ {0}
  /\ MaxOutput \in [Run -> Nat] /\ MaxCancels \in [Run -> Nat] /\ WatchedRun \in Run
  BY TaskAssumption

\* A strict order is an order without repetitions.
LEMMA OrderedIsMild ==
  ASSUME NEW s \in Seq(Nat), Ordered(s)
  PROVE  Mild(s)
<1>1. \A i \in 1 .. Len(s) - 1 : s[i] \in Nat /\ s[i + 1] \in Nat /\ s[i] < s[i + 1]
  BY DEF Ordered
<1>2. \A i \in 1 .. Len(s) - 1 : s[i] <= s[i + 1] /\ s[i] # s[i + 1]
  BY <1>1
<1> QED
  BY <1>2 DEF Mild

\* The event that is broadcast comes after all others, or repeats the newest
\* one, and that only where nothing was repeated before.
LEMMA OneFollows ==
  ASSUME NEW s \in Seq(Nat), NEW n \in Nat, Mild(s), UpTo(s, n + 1), UpTo(s, n) \/ Ordered(s)
  PROVE  LET t == Append(s, n + 1)
         IN t \in Seq(Nat) /\ Mild(t) /\ UpTo(t, n + 1)
<1> DEFINE t == Append(s, n + 1)
           k == Len(s)
<1>1. /\ t \in Seq(Nat) /\ Len(t) = k + 1 /\ k \in Nat /\ t[k + 1] = n + 1
      /\ \A i \in 1 .. k : t[i] = s[i] /\ s[i] \in Nat
  OBVIOUS
<1> HIDE DEF t
<1>2. UpTo(t, n + 1)
  <2> SUFFICES ASSUME NEW i \in 1 .. Len(t) PROVE t[i] <= n + 1
    BY DEF UpTo
  <2>1. CASE i = k + 1
    BY <1>1, <2>1
  <2>2. CASE i # k + 1
    <3>1. i \in 1 .. k
      BY <1>1, <2>2
    <3>2. s[i] <= n + 1
      BY <3>1 DEF UpTo
    <3> QED
      BY <1>1, <3>1, <3>2
  <2> QED
    BY <2>1, <2>2
<1>3. ASSUME NEW i \in 1 .. Len(t) - 1, i # k
      PROVE  i \in 1 .. k - 1 /\ t[i] = s[i] /\ t[i + 1] = s[i + 1]
  <2>1. i \in 1 .. k - 1 /\ i \in 1 .. k /\ i + 1 \in 1 .. k
    BY <1>1, <1>3
  <2> QED
    BY <1>1, <2>1
<1>4. ASSUME NEW i \in 1 .. Len(t) - 1 PROVE t[i] <= t[i + 1]
  <2>1. CASE i = k
    <3>1. i \in 1 .. k
      BY <1>1, <2>1
    <3>2. s[i] <= n + 1
      BY <3>1 DEF UpTo
    <3> QED
      BY <1>1, <2>1, <3>1, <3>2
  <2>2. CASE i # k
    <3>1. i \in 1 .. k - 1 /\ t[i] = s[i] /\ t[i + 1] = s[i + 1]
      BY <1>3, <2>2
    <3>2. s[i] <= s[i + 1]
      BY <3>1 DEF Mild
    <3> QED
      BY <3>1, <3>2
  <2> QED
    BY <2>1, <2>2
<1>5. ASSUME NEW i \in 1 .. Len(t) - 1, NEW j \in 1 .. Len(t) - 1, t[i] = t[i + 1], t[j] = t[j + 1]
      PROVE  i = j
  <2>1. CASE UpTo(s, n)
    <3>1. ASSUME k \in 1 .. Len(t) - 1 PROVE t[k] # t[k + 1]
      <4>1. k \in 1 .. k /\ s[k] <= n
        BY <1>1, <2>1, <3>1 DEF UpTo
      <4>2. t[k] = s[k] /\ s[k] \in Nat
        BY <1>1, <4>1
      <4> QED
        BY <1>1, <4>1, <4>2
    <3>2. i # k /\ j # k
      BY <1>5, <3>1
    <3>3. i \in 1 .. k - 1 /\ t[i] = s[i] /\ t[i + 1] = s[i + 1]
      BY <1>3, <3>2
    <3>4. j \in 1 .. k - 1 /\ t[j] = s[j] /\ t[j + 1] = s[j + 1]
      BY <1>3, <3>2
    <3>5. s[i] = s[i + 1] /\ s[j] = s[j + 1]
      BY <1>5, <3>3, <3>4
    <3> QED
      BY <3>3, <3>4, <3>5 DEF Mild
  <2>2. CASE Ordered(s)
    <3>1. ASSUME NEW m \in 1 .. Len(t) - 1, m # k PROVE t[m] # t[m + 1]
      <4>1. m \in 1 .. k - 1 /\ t[m] = s[m] /\ t[m + 1] = s[m + 1]
        BY <1>3, <3>1
      <4>2. s[m] < s[m + 1]
        BY <2>2, <4>1 DEF Ordered
      <4>3. s[m] \in Nat /\ s[m + 1] \in Nat
        BY <1>1, <4>1
      <4> QED
        BY <4>1, <4>2, <4>3
    <3> QED
      BY <1>5, <3>1
  <2> QED
    BY <2>1, <2>2
<1>6. Mild(t)
  BY <1>4, <1>5 DEF Mild
<1> QED
  BY <1>1, <1>2, <1>6 DEF t

\* What waits for a viewer is behind what it has.
LEMMA QueueIsBehind ==
  ASSUME NEW s \in Seq(Nat), NEW q \in Seq(Nat), NEW x \in Nat
  PROVE  /\ Append(q, x) \in Seq(Nat) /\ s \o q \in Seq(Nat)
         /\ s \o Append(q, x) = Append(s \o q, x)
<1>1. /\ Append(q, x) \in Seq(Nat) /\ s \o q \in Seq(Nat)
      /\ s \o Append(q, x) \in Seq(Nat) /\ Append(s \o q, x) \in Seq(Nat)
  OBVIOUS
<1>2. Len(s \o Append(q, x)) = Len(Append(s \o q, x))
  OBVIOUS
<1>3. \A i \in 1 .. Len(Append(s \o q, x)) : (s \o Append(q, x))[i] = Append(s \o q, x)[i]
  OBVIOUS
<1> QED
  BY <1>1, <1>2, <1>3

\* An event that goes from the queue to the client stays where it is in line.
LEMMA EventMoves ==
  ASSUME NEW s \in Seq(Nat), NEW q \in Seq(Nat), q # << >>
  PROVE  /\ Append(s, Head(q)) \o Tail(q) = s \o q
         /\ Append(s, Head(q)) \in Seq(Nat) /\ Tail(q) \in Seq(Nat)
  OBVIOUS

\* The replay is in order, and has nothing that was not emitted.
LEMMA ReplayInOrder ==
  ASSUME emitted \in Nat
  PROVE  Replay \in Seq(Nat) /\ Ordered(Replay) /\ UpTo(Replay, emitted)
<1> DEFINE n == emitted
           first == IF n > ReplayCap THEN n - ReplayCap ELSE 0
<1>1. n \in Nat /\ first \in Nat /\ first <= n /\ n - first \in Nat
  BY TaskConstants
<1>2. Replay = [i \in 1 .. n - first |-> first + i]
  BY DEF Replay
<1> HIDE DEF n, first
<1>3. /\ Replay \in Seq(Nat) /\ Len(Replay) = n - first
      /\ \A i \in 1 .. n - first : Replay[i] = first + i
  BY <1>1, <1>2
<1> DEFINE rp == Replay
<1>4. rp \in Seq(Nat) /\ Len(rp) = n - first /\ \A i \in 1 .. n - first : rp[i] = first + i
  BY <1>3
<1> HIDE DEF rp
<1>5. Ordered(rp)
  <2> SUFFICES ASSUME NEW i \in 1 .. Len(rp) - 1 PROVE rp[i] < rp[i + 1]
    BY DEF Ordered
  <2>1. i \in 1 .. n - first /\ i + 1 \in 1 .. n - first /\ i \in Nat
    BY <1>1, <1>4
  <2>2. rp[i] = first + i /\ rp[i + 1] = first + (i + 1)
    BY <1>4, <2>1
  <2> QED
    BY <1>1, <2>1, <2>2
<1>6. UpTo(rp, n)
  <2> SUFFICES ASSUME NEW i \in 1 .. Len(rp) PROVE rp[i] <= n
    BY DEF UpTo
  <2>1. i \in 1 .. n - first /\ i \in Nat /\ rp[i] = first + i
    BY <1>1, <1>4
  <2> QED
    BY <1>1, <2>1
<1> QED
  BY <1>4, <1>5, <1>6 DEF rp, n

\* The types by what they are about: the runs, and the viewers.
RunShape ==
  /\ stage \in [Run -> {"none", "admitted", "watched", "exited", "finished", "over"}]
  /\ process \in [Run -> {"none", "runs", "exiting", "gone"}]
  /\ output \in [Run -> Nat] /\ sent \in [Run -> Nat]
  /\ signals \in [Run -> Nat] /\ cancel \in [Run -> 0 .. 2] /\ grace \in [Run -> BOOLEAN]
  /\ \A r \in Run : /\ output[r] <= MaxOutput[r] /\ signals[r] <= sent[r] /\ sent[r] <= MaxCancels[r]
                    /\ grace[r] => cancel[r] = 1
EventShape ==
  /\ emitted \in Nat /\ told \in Nat /\ due \in Nat /\ ended \in Nat
  /\ ended <= emitted + due /\ told <= emitted /\ emitted <= told + 1
KnownShape ==
  /\ runs \subseteq {r \in Run : stage[r] \notin {"none", "admitted"}}
  /\ ActiveKept /\ EndedLast
ViewShape ==
  /\ viewer \in [Viewer -> [at : {"new", "replayed", "open", "live", "closed"},
                            seen : Seq(Nat), queue : Seq(Nat)]]
  /\ SeenInOrder /\ ViewerInv

LEMMA TaskParts == TaskIInv <=> RunShape /\ EventShape /\ KnownShape /\ ViewShape
  BY DEF TaskIInv, TaskInv, TaskTypeOK, RunShape, EventShape, KnownShape, ViewShape

\* What is known of one viewer, and that this is all there is to know.
LEMMA OneView ==
  ASSUME ViewShape, NEW v \in Viewer
  PROVE  /\ viewer[v] \in [at : {"new", "replayed", "open", "live", "closed"}, seen : Seq(Nat), queue : Seq(Nat)]
         /\ viewer[v].seen \in Seq(Nat) /\ viewer[v].queue \in Seq(Nat)
         /\ viewer[v].seen \o viewer[v].queue \in Seq(Nat)
         /\ Mild(viewer[v].seen \o viewer[v].queue)
         /\ UpTo(viewer[v].seen \o viewer[v].queue, emitted)
         /\ viewer[v].at \in {"new", "replayed", "open"}
              => viewer[v].queue = << >> /\ Ordered(viewer[v].seen \o viewer[v].queue)
         /\ viewer[v].at = "live"
              => \/ UpTo(viewer[v].seen \o viewer[v].queue, told)
                 \/ Ordered(viewer[v].seen \o viewer[v].queue)
<1>1. /\ viewer[v] \in [at : {"new", "replayed", "open", "live", "closed"}, seen : Seq(Nat), queue : Seq(Nat)]
      /\ ViewerInv
  BY DEF ViewShape
<1>2. viewer[v].seen \in Seq(Nat) /\ viewer[v].queue \in Seq(Nat)
  BY <1>1
<1>3. viewer[v].seen \o viewer[v].queue \in Seq(Nat)
  BY <1>2
<1>4. Mild(viewer[v].seen \o viewer[v].queue)
  BY DEF ViewShape, SeenInOrder, Mild
<1> QED
  BY <1>1, <1>2, <1>3, <1>4 DEF ViewerInv

\* A bound that grows stays one.
LEMMA BoundGrows ==
  ASSUME NEW s \in Seq(Nat), NEW n \in Nat, NEW m \in Nat, n <= m, UpTo(s, n)
  PROVE  UpTo(s, m)
<1>1. \A i \in 1 .. Len(s) : s[i] \in Nat /\ s[i] <= n
  BY DEF UpTo
<1>2. \A i \in 1 .. Len(s) : s[i] <= m
  BY <1>1
<1> QED
  BY <1>2 DEF UpTo

\* What the viewers have is in order as long as they have it.
LEMMA SeenStays ==
  ASSUME SeenInOrder, UNCHANGED viewer
  PROVE  SeenInOrder'
<1>1. \A v \in Viewer : Mild(viewer[v].seen \o viewer[v].queue)
  BY DEF SeenInOrder, Mild
<1>2. \A v \in Viewer : Mild(viewer'[v].seen \o viewer'[v].queue)
  BY <1>1
<1> QED
  BY <1>2 DEF SeenInOrder, Mild

LEMMA ViewStays ==
  ASSUME ViewShape, UNCHANGED <<emitted, told, viewer>>
  PROVE  ViewShape'
<1>1. ViewerInv'
  BY DEF ViewShape, ViewerInv, UpTo, Ordered
<1> QED
  BY <1>1, SeenStays DEF ViewShape

\* TaskRun::emit, first step: nobody has seen the event yet.
LEMMA PushKeeps ==
  ASSUME EventShape, ViewShape, Push
  PROVE  EventShape' /\ ViewShape'
<1>1. /\ due > 0 /\ told = emitted /\ emitted' = emitted + 1 /\ due' = due - 1
      /\ UNCHANGED <<told, ended, viewer>>
  BY DEF Push
<1>2. EventShape'
  BY <1>1 DEF EventShape
<1>3. ASSUME NEW v \in Viewer PROVE UpTo(viewer[v].seen \o viewer[v].queue, emitted')
  <2> DEFINE got == viewer[v].seen \o viewer[v].queue
  <2>1. got \in Seq(Nat) /\ UpTo(got, emitted)
    BY OneView
  <2>2. emitted \in Nat /\ emitted' \in Nat /\ emitted <= emitted'
    BY <1>1 DEF EventShape
  <2> HIDE DEF got
  <2>3. UpTo(got, emitted')
    BY <2>1, <2>2, BoundGrows
  <2> QED
    BY <2>3 DEF got
<1>4. ViewerInv'
  BY <1>1, <1>3 DEF ViewShape, ViewerInv, UpTo, Ordered
<1> QED
  BY <1>1, <1>2, <1>4, SeenStays DEF ViewShape

\* TaskRun::emit, second step: whoever has subscribed gets the event behind all
\* others.
LEMMA BroadcastKeeps ==
  ASSUME EventShape, ViewShape, Broadcast
  PROVE  EventShape' /\ ViewShape'
<1>1. /\ told < emitted /\ told' = told + 1 /\ UNCHANGED <<emitted, due, ended>>
      /\ emitted = told + 1
  BY DEF Broadcast, EventShape
<1>2. EventShape'
  BY <1>1 DEF EventShape
<1> DEFINE VT == [at : {"new", "replayed", "open", "live", "closed"}, seen : Seq(Nat), queue : Seq(Nat)]
<1>3. ASSUME NEW v \in Viewer
      PROVE  /\ viewer'[v] \in VT
             /\ Mild(viewer'[v].seen \o viewer'[v].queue)
             /\ UpTo(viewer'[v].seen \o viewer'[v].queue, emitted')
             /\ viewer'[v].at \in {"new", "replayed", "open"}
                  => viewer'[v].queue = << >> /\ Ordered(viewer'[v].seen \o viewer'[v].queue)
             /\ viewer'[v].at = "live" => UpTo(viewer'[v].seen \o viewer'[v].queue, told')
  <2> DEFINE s == viewer[v].seen
             q == viewer[v].queue
             n == told
  <2>1. /\ viewer[v] \in VT /\ s \in Seq(Nat) /\ q \in Seq(Nat) /\ s \o q \in Seq(Nat)
        /\ Mild(s \o q) /\ UpTo(s \o q, n + 1) /\ n \in Nat
    BY <1>1, OneView DEF EventShape
  <2>2. CASE viewer[v].at = "live"
    <3>1. viewer'[v] = [viewer[v] EXCEPT !.queue = Append(q, n + 1)]
      BY <2>2 DEF Broadcast
    <3>2. /\ Append(q, n + 1) \in Seq(Nat) /\ s \o Append(q, n + 1) = Append(s \o q, n + 1)
      <4>1. s \in Seq(Nat) /\ q \in Seq(Nat) /\ n + 1 \in Nat
        BY <2>1
      <4> HIDE DEF s, q, n
      <4> QED
        BY <4>1, QueueIsBehind
    <3>3. UpTo(s \o q, n) \/ Ordered(s \o q)
      BY <2>2, OneView
    <3>4. Mild(Append(s \o q, n + 1)) /\ UpTo(Append(s \o q, n + 1), n + 1)
      BY <2>1, <3>3, OneFollows
    <3>5. /\ viewer'[v] \in VT /\ viewer'[v].seen = s /\ viewer'[v].queue = Append(q, n + 1)
          /\ viewer'[v].at = "live"
      BY <2>1, <2>2, <3>1, <3>2
    <3>6. told' = n + 1 /\ emitted' = n + 1
      BY <1>1
    <3> HIDE DEF s, q, n, VT
    <3> QED
      BY <3>2, <3>4, <3>5, <3>6
  <2>3. CASE viewer[v].at # "live"
    <3>1. viewer'[v] = viewer[v]
      BY <2>3 DEF Broadcast
    <3> QED
      BY <1>1, <2>1, <2>3, <3>1, OneView
  <2> QED
    BY <2>2, <2>3
<1>4. viewer' = [v \in Viewer |-> viewer'[v]]
  BY DEF Broadcast
<1> HIDE DEF VT
<1>5. viewer' \in [Viewer -> VT]
  BY <1>3, <1>4
<1>6. SeenInOrder'
  BY <1>3 DEF SeenInOrder, Mild
<1>7. ViewerInv'
  BY <1>3 DEF ViewerInv, UpTo, Ordered
<1> QED
  BY <1>2, <1>5, <1>6, <1>7 DEF ViewShape, VT

\* A viewer's own step: it has what it had, in order.
LEMMA ViewerKeeps ==
  ASSUME ViewShape, NEW v \in Viewer, UNCHANGED <<emitted, told>>,
         NEW u \in [at : {"new", "replayed", "open", "live", "closed"}, seen : Seq(Nat), queue : Seq(Nat)],
         viewer' = [viewer EXCEPT ![v] = u], Mild(u.seen \o u.queue),
         UpTo(u.seen \o u.queue, emitted),
         u.at \in {"new", "replayed", "open"} => u.queue = << >> /\ Ordered(u.seen \o u.queue),
         u.at = "live" => UpTo(u.seen \o u.queue, told) \/ Ordered(u.seen \o u.queue)
  PROVE  ViewShape'
<1> DEFINE VT == [at : {"new", "replayed", "open", "live", "closed"}, seen : Seq(Nat), queue : Seq(Nat)]
<1>1. viewer \in [Viewer -> VT]
  BY DEF ViewShape
<1> HIDE DEF VT
<1>2. viewer' \in [Viewer -> VT] /\ viewer'[v] = u /\ \A w \in Viewer : w # v => viewer'[w] = viewer[w]
  BY <1>1 DEF VT
<1>3. ASSUME NEW w \in Viewer PROVE Mild(viewer'[w].seen \o viewer'[w].queue)
  <2>1. CASE w = v
    BY <1>2, <2>1
  <2>2. CASE w # v
    <3>1. viewer'[w] = viewer[w]
      BY <1>2, <2>2
    <3> QED
      BY <3>1, OneView
  <2> QED
    BY <2>1, <2>2
<1>4. SeenInOrder'
  BY <1>3 DEF SeenInOrder, Mild
<1>5. ViewerInv'
  BY <1>2 DEF ViewShape, ViewerInv, UpTo, Ordered
<1> QED
  BY <1>2, <1>4, <1>5 DEF ViewShape, VT

\* At the start there are no runs and no viewers.
LEMMA TaskIInvInit == TaskInit => TaskIInv
<1> SUFFICES ASSUME TaskInit PROVE RunShape /\ EventShape /\ KnownShape /\ ViewShape
  BY TaskParts
<1>1. RunShape /\ EventShape
  BY TaskConstants DEF TaskInit, RunShape, EventShape
<1>2. KnownShape
  BY DEF TaskInit, KnownShape, ActiveKept, EndedLast
<1>3. ViewShape
  <2>1. NewViewer \in [at : {"new", "replayed", "open", "live", "closed"}, seen : Seq(Nat), queue : Seq(Nat)]
    BY DEF NewViewer
  <2>2. /\ viewer \in [Viewer -> [at : {"new", "replayed", "open", "live", "closed"}, seen : Seq(Nat), queue : Seq(Nat)]]
        /\ \A v \in Viewer : viewer[v].queue = << >> /\ viewer[v].seen = << >>
    BY <2>1 DEF TaskInit, NewViewer
  <2>3. << >> \o << >> = << >> /\ Len(<< >>) = 0
    OBVIOUS
  <2> DEFINE none == << >> \o << >>
  <2>4. \A v \in Viewer : viewer[v].seen \o viewer[v].queue = none
    BY <2>2
  <2>5. 1 .. Len(none) - 1 = {} /\ 1 .. Len(none) = {}
    BY <2>3
  <2> HIDE DEF none
  <2>6. SeenInOrder
    BY <2>4, <2>5 DEF SeenInOrder
  <2>7. ViewerInv
    BY <2>2, <2>4, <2>5 DEF ViewerInv, UpTo, Ordered
  <2> QED
    BY <2>2, <2>6, <2>7 DEF ViewShape
<1> QED
  BY <1>1, <1>2, <1>3

\* What a run emits next leaves what was emitted as it is.
LEMMA EmitKeeps ==
  ASSUME EventShape, ViewShape, NEW r \in Run, NEW n \in Nat, Emit(r, n), UNCHANGED <<ended, viewer>>,
         r = WatchedRun => ended <= emitted
  PROVE  EventShape' /\ ViewShape'
<1>1. due' = (IF r = WatchedRun THEN n ELSE due) /\ UNCHANGED <<emitted, told>>
  BY DEF Emit
<1>2. EventShape'
  BY <1>1 DEF EventShape
<1>3. ViewShape'
  BY <1>1, ViewStays
<1> QED
  BY <1>2, <1>3

\* Every step of a request, a process, the watching task and a viewer.
LEMMA TaskInductive ==
  ASSUME RunShape, EventShape, KnownShape, ViewShape, [TaskNext]_taskVars
  PROVE  RunShape' /\ EventShape' /\ KnownShape' /\ ViewShape'
<1> USE TaskConstants
<1> DEFINE Parts == RunShape /\ EventShape /\ KnownShape /\ ViewShape
<1>1. ASSUME UNCHANGED <<events, ended, viewer>> PROVE EventShape' /\ ViewShape'
  <2>1. UNCHANGED <<emitted, told, due>>
    BY <1>1 DEF events
  <2>2. EventShape'
    BY <1>1, <2>1 DEF EventShape
  <2> QED
    BY <1>1, <2>1, <2>2, ViewStays
<1>2. ASSUME NEW r \in Run, Admit(r) \/ SpawnFails(r) PROVE Parts'
  BY <1>1, <1>2 DEF Admit, SpawnFails, RunShape, KnownShape, ActiveKept, EndedLast
<1>3. ASSUME NEW r \in Run, SpawnTask(r) PROVE Parts'
  <2>1. /\ stage[r] = "admitted" /\ stage' = [stage EXCEPT ![r] = "watched"]
        /\ process' = [process EXCEPT ![r] = "runs"] /\ Emit(r, 2)
        /\ UNCHANGED <<output, signals, sent, cancel, grace, ended, viewer>>
    BY <1>3 DEF SpawnTask
  <2>2. RunShape'
    BY <2>1 DEF RunShape
  <2>3. r = WatchedRun => ended = 0
    BY <2>1 DEF KnownShape, EndedLast
  <2>4. r = WatchedRun => ended <= emitted
    BY <2>3 DEF EventShape
  <2>5. EventShape' /\ ViewShape'
    BY <2>1, <2>4, EmitKeeps
  <2>6. PICK kept \in Kept : runs' = kept \cup {r}
    BY <1>3 DEF SpawnTask
  <2>7. kept \subseteq runs /\ \A q \in runs : ~IsFinished(q) => q \in kept
    BY <2>6 DEF Kept
  <2>8. EndedLast'
    BY <2>1, <2>3 DEF KnownShape, EndedLast, RunShape
  <2>9. KnownShape'
    BY <2>1, <2>6, <2>7, <2>8 DEF KnownShape, ActiveKept, IsFinished, RunShape
  <2> QED
    BY <2>2, <2>5, <2>9
<1>4. ASSUME NEW r \in Run, ProcessExits(r) PROVE Parts'
  BY <1>1, <1>4 DEF ProcessExits, RunShape, KnownShape, ActiveKept, EndedLast
<1>5. ASSUME NEW r \in Run, CancelTask(r) PROVE Parts'
  <2>1. /\ sent[r] < MaxCancels[r] /\ sent' = [sent EXCEPT ![r] = @ + 1] /\ signals' = [signals EXCEPT ![r] = @ + 1]
        /\ UNCHANGED <<stage, process, output, cancel, grace, events, ended, runs, viewer>>
    BY <1>5 DEF CancelTask
  <2>2. RunShape'
    BY <2>1 DEF RunShape
  <2>3. KnownShape'
    BY <2>1 DEF KnownShape, ActiveKept, EndedLast
  <2> QED
    BY <1>1, <2>1, <2>2, <2>3
<1>6. ASSUME NEW r \in Run, Output(r) PROVE Parts'
  <2>1. /\ output[r] < MaxOutput[r] /\ output' = [output EXCEPT ![r] = @ + 1] /\ Emit(r, 1) /\ Settled(r)
        /\ UNCHANGED <<stage, process, signals, sent, cancel, grace, ended, runs, viewer>>
    BY <1>6 DEF Output
  <2>2. RunShape'
    BY <2>1 DEF RunShape
  <2>3. r = WatchedRun => ended <= emitted
    BY <2>1 DEF Settled, EventShape
  <2>4. EventShape' /\ ViewShape'
    BY <2>1, <2>3, EmitKeeps
  <2>5. KnownShape'
    BY <2>1 DEF KnownShape, ActiveKept, EndedLast
  <2> QED
    BY <2>2, <2>4, <2>5
<1>7. ASSUME NEW r \in Run, TakeSignal(r) \/ GraceOver(r) PROVE Parts'
  <2>1. UNCHANGED <<stage, output, sent, events, ended, runs, viewer>>
    BY <1>7 DEF TakeSignal, GraceOver
  <2>2. RunShape'
    <3>1. CASE TakeSignal(r)
      <4>1. signals' \in [Run -> Nat] /\ \A q \in Run : signals'[q] <= sent'[q]
        BY <3>1, <2>1 DEF TakeSignal, RunShape
      <4>2. /\ process' \in [Run -> {"none", "runs", "exiting", "gone"}] /\ cancel' \in [Run -> 0 .. 2]
        BY <3>1 DEF TakeSignal, RunShape, Killed
      <4>3. grace' \in [Run -> BOOLEAN] /\ \A q \in Run : grace'[q] => cancel'[q] = 1
        BY <3>1 DEF TakeSignal, RunShape
      <4> QED
        BY <2>1, <4>1, <4>2, <4>3 DEF RunShape
    <3>2. CASE GraceOver(r)
      BY <2>1, <3>2 DEF GraceOver, RunShape, Killed
    <3> QED
      BY <1>7, <3>1, <3>2
  <2>3. KnownShape'
    BY <2>1 DEF KnownShape, ActiveKept, EndedLast
  <2> QED
    BY <1>1, <2>1, <2>2, <2>3
<1>8. ASSUME NEW r \in Run, SeeExit(r) \/ WaitFails(r) \/ Finish(r) PROVE Parts'
  <2>1. /\ UNCHANGED <<process, output, signals, sent, cancel, grace, events, ended, runs, viewer>>
        /\ \/ stage[r] = "watched" /\ stage' = [stage EXCEPT ![r] = "exited"]
           \/ stage[r] = "exited" /\ stage' = [stage EXCEPT ![r] = "finished"]
    BY <1>8 DEF SeeExit, WaitFails, Finish
  <2>2. RunShape'
    BY <2>1 DEF RunShape
  <2>3. KnownShape'
    BY <2>1 DEF RunShape, KnownShape, ActiveKept, EndedLast
  <2> QED
    BY <1>1, <2>1, <2>2, <2>3
<1>9. ASSUME NEW r \in Run, EmitEnded(r) PROVE Parts'
  <2>1. /\ stage[r] = "finished" /\ stage' = [stage EXCEPT ![r] = "over"]
        /\ ended' = (IF r = WatchedRun THEN emitted + 1 ELSE ended) /\ Emit(r, 2)
        /\ UNCHANGED <<process, output, signals, sent, cancel, grace, runs, viewer>>
    BY <1>9 DEF EmitEnded
  <2>2. RunShape' /\ KnownShape'
    BY <2>1 DEF RunShape, KnownShape, ActiveKept, EndedLast
  <2>3. due' = (IF r = WatchedRun THEN 2 ELSE due) /\ UNCHANGED <<emitted, told>>
    BY <2>1 DEF Emit
  <2>4. EventShape'
    BY <2>1, <2>3 DEF EventShape
  <2>5. ViewShape'
    BY <2>1, <2>3, ViewStays
  <2> QED
    BY <2>2, <2>4, <2>5
<1>10. ASSUME NEW v \in Viewer, Open(v) \/ CheckFinished(v) \/ Subscribe(v) \/ Forward(v) PROVE Parts'
  <2>1. /\ UNCHANGED <<stage, process, output, signals, sent, cancel, grace, emitted, told, due, ended, runs>>
    BY <1>10 DEF Open, CheckFinished, Subscribe, Forward, events
  <2>2. RunShape' /\ EventShape' /\ KnownShape'
    BY <2>1 DEF RunShape, EventShape, KnownShape, ActiveKept, EndedLast
  <2> DEFINE VT == [at : {"new", "replayed", "open", "live", "closed"}, seen : Seq(Nat), queue : Seq(Nat)]
             s == viewer[v].seen
             q == viewer[v].queue
  <2>3. /\ viewer \in [Viewer -> VT] /\ viewer[v] \in VT /\ s \in Seq(Nat) /\ q \in Seq(Nat)
        /\ Mild(s \o q) /\ UpTo(s \o q, emitted)
        /\ viewer[v].at \in {"new", "replayed", "open"} => q = << >> /\ Ordered(s \o q)
        /\ viewer[v].at = "live" => UpTo(s \o q, told) \/ Ordered(s \o q)
    <3>1. viewer \in [Viewer -> VT]
      BY DEF ViewShape
    <3> HIDE DEF VT
    <3>2. viewer[v] \in VT
      BY <3>1
    <3> QED
      BY <3>1, <3>2, OneView
  <2>4. CASE Open(v)
    <3> DEFINE u == [viewer[v] EXCEPT !.at = "replayed", !.seen = Replay]
    <3>1. Replay \in Seq(Nat) /\ Ordered(Replay) /\ UpTo(Replay, emitted)
      BY ReplayInOrder DEF EventShape
    <3>2. viewer' = [viewer EXCEPT ![v] = u] /\ q = << >>
      BY <2>3, <2>4 DEF Open
    <3>3. u \in VT /\ u.seen = Replay /\ u.queue = << >> /\ u.at = "replayed"
      BY <2>3, <3>1, <3>2
    <3>4. u.seen \o u.queue = Replay
      BY <3>1, <3>3
    <3>5. Mild(Replay)
      BY <3>1, OrderedIsMild
    <3> HIDE DEF u
    <3>6. ViewShape'
      BY <2>1, <3>1, <3>2, <3>3, <3>4, <3>5, ViewerKeeps
    <3> QED
      BY <2>2, <3>6
  <2>5. CASE CheckFinished(v) \/ Subscribe(v)
    <3>1. PICK x \in {"closed", "open", "live"} : viewer' = [viewer EXCEPT ![v] = [viewer[v] EXCEPT !.at = x]]
      BY <2>5 DEF CheckFinished, Subscribe
    <3>2. q = << >> /\ Ordered(s \o q)
      BY <2>3, <2>5 DEF CheckFinished, Subscribe
    <3> DEFINE u == [viewer[v] EXCEPT !.at = x]
    <3>3. u \in VT /\ u.seen = s /\ u.queue = q
      BY <2>3
    <3>4. viewer' = [viewer EXCEPT ![v] = u]
      BY <3>1
    <3> HIDE DEF u
    <3>5. ViewShape'
      BY <2>1, <2>3, <3>2, <3>3, <3>4, ViewerKeeps
    <3> QED
      BY <2>2, <3>5
  <2>6. CASE Forward(v)
    <3> DEFINE e == Head(q)
               x == IF e = ended THEN "closed" ELSE "live"
               u == [viewer[v] EXCEPT !.seen = Append(s, e), !.queue = Tail(q), !.at = x]
    <3>1. /\ q # << >> /\ viewer' = [viewer EXCEPT ![v] = u] /\ x \in {"closed", "live"}
          /\ viewer[v].at = "live"
      BY <2>3, <2>6 DEF Forward
    <3>2. Append(s, e) \o Tail(q) = s \o q /\ Append(s, e) \in Seq(Nat) /\ Tail(q) \in Seq(Nat)
      BY <2>3, <3>1, EventMoves
    <3> HIDE DEF e, x
    <3>3. u \in VT /\ u.seen = Append(s, e) /\ u.queue = Tail(q) /\ u.at = x
      BY <2>3, <3>1, <3>2
    <3> HIDE DEF u
    <3>4. u.seen \o u.queue = s \o q /\ u.at \in {"closed", "live"}
      BY <3>1, <3>2, <3>3
    <3>5. ViewShape'
      BY <2>1, <2>3, <3>1, <3>3, <3>4, ViewerKeeps
    <3> QED
      BY <2>2, <3>5
  <2> QED
    BY <1>10, <2>4, <2>5, <2>6
<1>11. ASSUME Push \/ Broadcast PROVE Parts'
  <2>1. UNCHANGED <<stage, process, output, signals, sent, cancel, grace, ended, runs>>
    BY <1>11 DEF Push, Broadcast
  <2>2. RunShape' /\ KnownShape'
    BY <2>1 DEF RunShape, KnownShape, ActiveKept, EndedLast
  <2> QED
    BY <1>11, <2>2, PushKeeps, BroadcastKeeps
<1>12. CASE UNCHANGED taskVars
  BY <1>1, <1>12 DEF taskVars, RunShape, KnownShape, ActiveKept, EndedLast
<1> QED
  BY <1>2, <1>3, <1>4, <1>5, <1>6, <1>7, <1>8, <1>9, <1>10, <1>11, <1>12 DEF TaskNext

\* A run whose process may be alive can be found and cancelled
\* (TaskManager::register makes room by taking finished ones only), and every
\* viewer sees events in order and at most one of them twice (handle_stream),
\* however push and broadcast of an event fall between its replay, its look at
\* the state and its subscription.
THEOREM TaskRunsAreTracked == TaskSpec => []TaskInv
<1>1. TaskIInv <=> RunShape /\ EventShape /\ KnownShape /\ ViewShape
  BY TaskParts
<1>2. TaskIInv => TaskInv
  BY DEF TaskIInv
<1>3. RunShape /\ EventShape /\ KnownShape /\ ViewShape /\ [TaskNext]_taskVars
        => RunShape' /\ EventShape' /\ KnownShape' /\ ViewShape'
  BY TaskInductive
<1> QED
  BY TaskIInvInit, <1>1, <1>2, <1>3, PTL DEF TaskSpec

-----------------------------------------------------------------------------
(* Checkpoints *)

\* A writer with a snapshot that is not on the stack yet.
Busy(a) == a \in {"captured", "wrote", "journalled"}

\* What a snapshot x that nobody has disturbed is worth to a writer at a, with
\* the blobs bs and the files d: its content can be found, and it is what the
\* write replaces or has replaced.
Fit(x, a, bs, d) ==
  Busy(a) /\ ~x.clash =>
    /\ x.was \in bs \cup {Gone}
    /\ a = "captured" => x.was = d[x.path]
    /\ a # "captured" => x.was = x.replaced

\* The types that the properties rest on.
DiskShape ==
  /\ disk \in [Path -> Content \cup {Gone}] /\ blobs \subseteq Content
  /\ journalled \subseteq [path : Path, was : Content \cup {Gone}]
  /\ given \in Nat /\ steps \in 0 .. UndoSteps
SnapShape ==
  /\ at \in [Writer -> {"idle", "captured", "wrote", "journalled", "restored"}]
  /\ snap \in [Writer -> Snapshot \cup {NoSnapshot}]
  /\ \A w \in Writer : Busy(at[w]) => snap[w] \in Snapshot

\* The lock is held by the one writer that changes the stack.
LockInv ==
  /\ holder \in Writer \cup {Nobody}
  /\ \A w \in Writer : at[w] \in {"journalled", "restored"} <=> holder = w
  /\ \A w \in Writer : at[w] = "restored" => stack # << >>

\* The sequence numbers grow towards the top: NextSeq finds the greatest there.
StackShape ==
  /\ stack \in Seq(Entry) /\ Len(stack) <= StackDepth
  /\ \A i, j \in DOMAIN stack : i < j => stack[i].seq < stack[j].seq

\* What is known of a snapshot x of a writer at a: only a commit gives it a line.
LineOf(x, a, js) ==
  /\ a = "journalled" /\ x.lined => [path |-> x.path, was |-> x.was] \in js
  /\ a \in {"captured", "wrote"} => ~x.lined

SnapInv ==
  \A w \in Writer : Fit(snap[w], at[w], blobs, disk) /\ LineOf(snap[w], at[w], journalled)

CheckpointIInv ==
  /\ DiskShape /\ SnapShape /\ LockInv /\ StackShape
  /\ SnapInv /\ EntryRestores /\ StackJournalled

LEMMA CheckpointIInvIsEnough == CheckpointIInv => CheckpointInv
<1> SUFFICES ASSUME CheckpointIInv PROVE CheckpointTypeOK
  BY DEF CheckpointIInv, CheckpointInv
<1> QED
  BY DEF CheckpointIInv, CheckpointTypeOK, DiskShape, SnapShape, LockInv, StackShape, Busy

LEMMA CheckpointIInvInit == CheckpointInit => CheckpointIInv
<1> SUFFICES ASSUME CheckpointInit PROVE CheckpointIInv
  OBVIOUS
<1>1. /\ disk \in [Path -> Content \cup {Gone}] /\ blobs = {} /\ stack = << >> /\ journalled = {}
      /\ at = [w \in Writer |-> "idle"] /\ snap = [w \in Writer |-> NoSnapshot]
      /\ holder = Nobody /\ given = 0 /\ steps = 0
  BY DEF CheckpointInit
<1>2. DiskShape /\ SnapShape /\ LockInv
  BY <1>1, CheckpointAssumption DEF DiskShape, SnapShape, LockInv, Busy
<1>3. << >> \in Seq(Entry) /\ Len(<< >>) = 0
  OBVIOUS
<1>4. StackShape
  BY <1>1, <1>3, CheckpointAssumption DEF StackShape
<1>5. SnapInv
  BY <1>1 DEF SnapInv, Fit, LineOf, Busy
<1> QED
  BY <1>1, <1>2, <1>4, <1>5 DEF CheckpointIInv, EntryRestores, StackJournalled

\* Another writer's change of p, or the loss of blobs, spoils what it spoils
\* and nothing else.
LEMMA DisturbSpares ==
  ASSUME SnapShape, SnapInv, NEW me, NEW p, NEW bs, NEW d,
         \A q \in Path : q # p => d[q] = disk[q]
  PROVE  /\ Disturb(me, p, bs) \in [Writer -> Snapshot \cup {NoSnapshot}]
         /\ \A w \in Writer :
              /\ w = me => Disturb(me, p, bs)[w] = snap[w]
              /\ Busy(at[w]) => /\ Disturb(me, p, bs)[w] \in Snapshot
                                /\ Disturb(me, p, bs)[w].path = snap[w].path
                                /\ Disturb(me, p, bs)[w].was = snap[w].was
                                /\ Disturb(me, p, bs)[w].lined = snap[w].lined
                                /\ w # me => Fit(Disturb(me, p, bs)[w], at[w], bs, d)
<1> DEFINE D == Disturb(me, p, bs)
<1> SUFFICES ASSUME NEW w \in Writer
             PROVE  /\ D[w] \in Snapshot \cup {NoSnapshot}
                    /\ w = me => D[w] = snap[w]
                    /\ Busy(at[w]) => /\ D[w] \in Snapshot
                                      /\ D[w].path = snap[w].path
                                      /\ D[w].was = snap[w].was
                                      /\ D[w].lined = snap[w].lined
                                      /\ w # me => Fit(D[w], at[w], bs, d)
  BY DEF Disturb
<1>1. snap[w] \in Snapshot \cup {NoSnapshot} /\ (Busy(at[w]) => snap[w] \in Snapshot)
      /\ Fit(snap[w], at[w], blobs, disk)
  BY DEF SnapShape, SnapInv
<1>2. CASE w # me /\ Busy(at[w]) /\ (snap[w].path = p \/ snap[w].was \notin bs \cup {Gone})
  <2>1. D[w] = [snap[w] EXCEPT !.clash = TRUE]
    BY <1>2 DEF Disturb, Busy
  <2>2. snap[w] \in Snapshot
    BY <1>1, <1>2
  <2>3. D[w] \in Snapshot /\ D[w].path = snap[w].path /\ D[w].was = snap[w].was /\ D[w].clash
        /\ D[w].lined = snap[w].lined
    BY <2>1, <2>2 DEF Snapshot
  <2> QED
    BY <1>2, <2>3 DEF Fit
<1>3. CASE ~(w # me /\ Busy(at[w]) /\ (snap[w].path = p \/ snap[w].was \notin bs \cup {Gone}))
  <2>1. D[w] = snap[w]
    BY <1>3 DEF Disturb, Busy
  <2>2. ASSUME w # me, Busy(at[w]) PROVE Fit(snap[w], at[w], bs, d)
    <3>1. snap[w].path \in Path /\ snap[w].path # p /\ snap[w].was \in bs \cup {Gone}
      BY <1>1, <1>3, <2>2 DEF Snapshot
    <3> QED
      BY <1>1, <2>2, <3>1 DEF Fit
  <2> QED
    BY <1>1, <2>1, <2>2
<1> QED
  BY <1>2, <1>3

\* The greatest number on the stack is at its top.
LEMMA NextSeqIsNew ==
  ASSUME StackShape
  PROVE  NextSeq(stack) \in Nat /\ \A i \in DOMAIN stack : stack[i].seq < NextSeq(stack)
<1> DEFINE S == Seqs(stack) \cup {0}
<1>1. \A i \in DOMAIN stack : stack[i].seq \in Nat
  <2>1. \A i \in DOMAIN stack : stack[i] \in Entry
    BY DEF StackShape
  <2> QED
    BY <2>1 DEF Entry
<1>2. S \subseteq Nat
  BY <1>1 DEF Seqs
<1>3. \E n \in S : \A m \in Seqs(stack) : m <= n
  <2>1. CASE stack = << >>
    BY <2>1 DEF Seqs
  <2>2. CASE stack # << >>
    <3>1. Len(stack) \in DOMAIN stack /\ \A i \in DOMAIN stack : i <= Len(stack)
      BY <2>2 DEF StackShape
    <3>2. \A i \in DOMAIN stack : stack[i].seq <= stack[Len(stack)].seq
      BY <1>1, <3>1 DEF StackShape
    <3> QED
      BY <3>1, <3>2 DEF Seqs
  <2> QED
    BY <2>1, <2>2
<1>4. PICK n \in S : n = (CHOOSE k \in S : \A m \in Seqs(stack) : m <= k) /\ \A m \in Seqs(stack) : m <= n
  BY <1>3
<1>5. NextSeq(stack) = 1 + n /\ n \in Nat
  BY <1>2, <1>4 DEF NextSeq
<1>6. ASSUME NEW i \in DOMAIN stack PROVE stack[i].seq < NextSeq(stack)
  <2>1. stack[i].seq \in Seqs(stack)
    BY DEF Seqs
  <2>2. stack[i].seq <= n /\ stack[i].seq \in Nat
    BY <1>1, <1>4, <2>1
  <2> QED
    BY <1>5, <2>2
<1> QED
  BY <1>5, <1>6

\* What enforce_caps_locked leaves is the top of what there was.
LEMMA CappedIsTop ==
  ASSUME NEW es \in Seq(Entry), Len(es) <= StackDepth + 1
  PROVE  /\ Capped(es) \in Seq(Entry) /\ Len(Capped(es)) <= StackDepth
         /\ \E k \in {0, 1} : \A i \in DOMAIN Capped(es) :
              i + k \in DOMAIN es /\ Capped(es)[i] = es[i + k]
<1>1. StackDepth \in Nat \ {0} /\ Len(es) \in Nat
  BY CheckpointAssumption
<1>2. CASE Len(es) > StackDepth
  <2>1. Len(es) = StackDepth + 1 /\ Capped(es) = SubSeq(es, 2, Len(es))
    BY <1>1, <1>2 DEF Capped
  <2>2. /\ SubSeq(es, 2, Len(es)) \in Seq(Entry) /\ Len(SubSeq(es, 2, Len(es))) = StackDepth
        /\ \A i \in 1 .. StackDepth : SubSeq(es, 2, Len(es))[i] = es[i + 1]
    BY <1>1, <2>1
  <2> QED
    BY <1>1, <2>1, <2>2
<1>3. CASE ~(Len(es) > StackDepth)
  <2>1. Capped(es) = es
    BY <1>1, <1>3 DEF Capped
  <2> QED
    BY <1>1, <1>3, <2>1
<1> QED
  BY <1>2, <1>3

\* A snapshot that can be undone with the blobs bs and is accounted for.
Sound(x, bs) ==
  /\ ~x.clash => x.was \in bs \cup {Gone} /\ x.was = x.replaced
  /\ x.lined => [path |-> x.path, was |-> x.was] \in journalled

LEMMA StackIsSound ==
  EntryRestores /\ StackJournalled <=> \A i \in DOMAIN stack : Sound(stack[i].s, blobs)
BY DEF EntryRestores, StackJournalled, Restorable, Sound

\* A blob that an entry refers to survives the reclaiming.
LEMMA ReclaimSpares ==
  ASSUME NEW es, \A i \in DOMAIN es : Sound(es[i].s, blobs)
  PROVE  \A i \in DOMAIN es : Sound(es[i].s, Reclaim(es))
<1> SUFFICES ASSUME NEW i \in DOMAIN es PROVE Sound(es[i].s, Reclaim(es))
  OBVIOUS
<1>1. Sound(es[i].s, blobs) /\ es[i].s.was \in Referred(es) \cup {Gone}
  BY DEF Referred
<1> QED
  BY <1>1 DEF Sound, Reclaim

\* Snapshots and their writers go on when one writer's snapshot becomes x at a.
LEMMA SnapMoves ==
  ASSUME SnapShape, SnapInv, NEW w \in Writer, NEW p, NEW x, NEW a,
         x \in Snapshot \cup {NoSnapshot}, Busy(a) => x \in Snapshot,
         a \in {"idle", "captured", "wrote", "journalled", "restored"},
         \A q \in Path : q # p => disk'[q] = disk[q],
         \/ snap' = [Disturb(w, p, blobs') EXCEPT ![w] = x]
         \/ blobs \subseteq blobs' /\ disk' = disk /\ snap' = [snap EXCEPT ![w] = x],
         at' = [at EXCEPT ![w] = a],
         Fit(x, a, blobs', disk'), journalled \subseteq journalled',
         LineOf(x, a, journalled')
  PROVE  SnapShape' /\ SnapInv'
<1> DEFINE D == Disturb(w, p, blobs')
<1>1. at' \in [Writer -> {"idle", "captured", "wrote", "journalled", "restored"}]
      /\ at'[w] = a /\ \A v \in Writer : v # w => at'[v] = at[v]
  BY DEF SnapShape
<1>2. /\ snap' \in [Writer -> Snapshot \cup {NoSnapshot}] /\ snap'[w] = x
      /\ \A v \in Writer : v # w /\ Busy(at[v]) =>
           /\ snap'[v] \in Snapshot
           /\ snap'[v].path = snap[v].path /\ snap'[v].was = snap[v].was
           /\ snap'[v].lined = snap[v].lined
           /\ Fit(snap'[v], at[v], blobs', disk')
  <2>1. CASE snap' = [D EXCEPT ![w] = x]
    <3>1. /\ D \in [Writer -> Snapshot \cup {NoSnapshot}]
          /\ \A v \in Writer : Busy(at[v]) =>
               /\ D[v] \in Snapshot
               /\ D[v].path = snap[v].path /\ D[v].was = snap[v].was
               /\ D[v].lined = snap[v].lined
               /\ v # w => Fit(D[v], at[v], blobs', disk')
      BY DisturbSpares
    <3> HIDE DEF D
    <3>2. snap' \in [Writer -> Snapshot \cup {NoSnapshot}] /\ snap'[w] = x
          /\ \A v \in Writer : v # w => snap'[v] = D[v]
      BY <2>1, <3>1
    <3> QED
      BY <3>1, <3>2
  <2>2. CASE blobs \subseteq blobs' /\ disk' = disk /\ snap' = [snap EXCEPT ![w] = x]
    <3>1. snap' \in [Writer -> Snapshot \cup {NoSnapshot}] /\ snap'[w] = x
          /\ \A v \in Writer : v # w => snap'[v] = snap[v]
      BY <2>2 DEF SnapShape
    <3> QED
      BY <2>2, <3>1 DEF SnapShape, SnapInv, Fit
  <2> QED
    BY <2>1, <2>2
<1>3. SnapShape'
  BY <1>1, <1>2 DEF SnapShape
<1>4. ASSUME NEW v \in Writer
      PROVE  Fit(snap'[v], at'[v], blobs', disk') /\ LineOf(snap'[v], at'[v], journalled')
  <2>1. CASE v = w
    BY <1>1, <1>2, <2>1
  <2>2. CASE v # w /\ Busy(at[v])
    BY <1>1, <1>2, <2>2 DEF SnapInv, LineOf
  <2>3. CASE v # w /\ ~Busy(at[v])
    BY <1>1, <2>3 DEF Fit, LineOf, Busy
  <2> QED
    BY <2>1, <2>2, <2>3
<1> QED
  BY <1>3, <1>4 DEF SnapInv

\* The stack is left as it is, and its blobs are kept.
LEMMA StackStays ==
  ASSUME StackShape, EntryRestores, StackJournalled,
         stack' = stack, blobs \subseteq blobs', journalled \subseteq journalled'
  PROVE  StackShape' /\ EntryRestores' /\ StackJournalled'
<1>1. \A i \in DOMAIN stack : Sound(stack[i].s, blobs)
  BY StackIsSound
<1>2. StackShape'
  BY DEF StackShape
<1>3. EntryRestores' /\ StackJournalled'
  BY <1>1 DEF EntryRestores, StackJournalled, Restorable, Sound
<1> QED
  BY <1>2, <1>3

LEMMA CheckpointInductive == CheckpointIInv /\ [CheckpointNext]_checkpointVars => CheckpointIInv'
<1> SUFFICES ASSUME CheckpointIInv, [CheckpointNext]_checkpointVars PROVE CheckpointIInv'
  OBVIOUS
<1> USE CheckpointAssumption
<1> DEFINE Five == {"idle", "captured", "wrote", "journalled", "restored"}
<1>1. /\ DiskShape /\ SnapShape /\ LockInv /\ StackShape /\ SnapInv
      /\ EntryRestores /\ StackJournalled
  BY DEF CheckpointIInv
<1>2. NoSnapshot \in Snapshot \cup {NoSnapshot} /\ ~Busy("idle") /\ ~Busy("restored")
      /\ Fit(NoSnapshot, "idle", blobs', disk') /\ "idle" \in Five
      /\ \A x : LineOf(x, "idle", journalled') /\ LineOf(x, "restored", journalled')
  BY DEF Busy, Fit, LineOf
<1>3. ASSUME NEW w \in Writer, NEW p \in Path, PreCapture(w, p) PROVE CheckpointIInv'
  <2> DEFINE x == [path |-> p, was |-> disk[p], lined |-> FALSE, replaced |-> disk[p], clash |-> FALSE]
  <2>1. /\ at[w] = "idle" /\ holder = Nobody /\ steps' = steps + 1 /\ steps < UndoSteps
        /\ snap' = [snap EXCEPT ![w] = x] /\ blobs' = blobs \cup ({disk[p]} \ {Gone})
        /\ at' = [at EXCEPT ![w] = "captured"]
        /\ UNCHANGED <<disk, stack, journalled, holder, given>>
    BY <1>3 DEF PreCapture, Counted
  <2>2. DiskShape'
    BY <1>1, <2>1 DEF DiskShape
  <2>3. disk[p] \in Content \cup {Gone}
    BY <1>1 DEF DiskShape
  <2>4. x \in Snapshot
    BY <2>3 DEF Snapshot
  <2>5. Fit(x, "captured", blobs', disk') /\ LineOf(x, "captured", journalled')
    BY <2>1 DEF Fit, LineOf
  <2> HIDE DEF x
  <2>6. SnapShape' /\ SnapInv'
    BY <1>1, <2>1, <2>4, <2>5, SnapMoves
  <2>7. LockInv'
    BY <1>1, <2>1 DEF LockInv, SnapShape
  <2>8. StackShape' /\ EntryRestores' /\ StackJournalled'
    BY <1>1, <2>1, StackStays
  <2> QED
    BY <2>2, <2>6, <2>7, <2>8 DEF CheckpointIInv
<1>4. ASSUME NEW w \in Writer, Execute(w) PROVE CheckpointIInv'
  <2> DEFINE D == Disturb(w, snap[w].path, blobs)
             x == [D[w] EXCEPT !.replaced = disk[snap[w].path]]
  <2>1. PICK c \in Content : /\ disk' = [disk EXCEPT ![snap[w].path] = c]
                             /\ snap' = [D EXCEPT ![w].replaced = disk[snap[w].path]]
    BY <1>4 DEF Execute
  <2>2. /\ at[w] = "captured" /\ at' = [at EXCEPT ![w] = "wrote"]
        /\ UNCHANGED <<blobs, stack, journalled, holder, given, steps>>
    BY <1>4 DEF Execute
  <2>3. snap[w] \in Snapshot /\ snap[w].path \in Path /\ Fit(snap[w], "captured", blobs, disk)
        /\ ~snap[w].lined
    BY <1>1, <2>2 DEF SnapShape, SnapInv, LineOf, Busy, Snapshot
  <2>4. DiskShape'
    BY <1>1, <2>1, <2>2, <2>3 DEF DiskShape
  <2>5. \A q \in Path : q # snap[w].path => disk'[q] = disk[q]
    BY <1>1, <2>1, <2>3 DEF DiskShape
  <2>6. D \in [Writer -> Snapshot \cup {NoSnapshot}] /\ D[w] = snap[w]
    BY <1>1, <2>5, DisturbSpares
  <2>7. disk[snap[w].path] \in Content \cup {Gone}
    BY <1>1, <2>3 DEF DiskShape
  <2>8. x = [snap[w] EXCEPT !.replaced = disk[snap[w].path]] /\ snap' = [D EXCEPT ![w] = x]
    BY <2>1, <2>6
  <2>9. x \in Snapshot /\ x.was = snap[w].was /\ x.clash = snap[w].clash
        /\ x.replaced = disk[snap[w].path] /\ ~x.lined
    BY <2>3, <2>7, <2>8 DEF Snapshot
  <2>10. Fit(x, "wrote", blobs', disk') /\ LineOf(x, "wrote", journalled')
    BY <2>2, <2>3, <2>9 DEF Fit, LineOf, Busy
  <2> HIDE DEF x
  <2>11. SnapShape' /\ SnapInv'
    <3>1. snap' = [Disturb(w, snap[w].path, blobs') EXCEPT ![w] = x]
      BY <2>2, <2>8
    <3> QED
      BY <1>1, <2>2, <2>5, <2>9, <2>10, <3>1, SnapMoves
  <2>12. LockInv'
    BY <1>1, <2>2 DEF LockInv, SnapShape
  <2>13. StackShape' /\ EntryRestores' /\ StackJournalled'
    BY <1>1, <2>2, StackStays
  <2> QED
    BY <2>4, <2>11, <2>12, <2>13 DEF CheckpointIInv
<1>5. ASSUME NEW w \in Writer, at[w] \notin {"journalled", "restored"},
             at' = [at EXCEPT ![w] = "idle"], snap' = [snap EXCEPT ![w] = NoSnapshot],
             UNCHANGED <<disk, blobs, stack, journalled, holder, given, steps>>
      PROVE  CheckpointIInv'
  <2>1. SnapShape' /\ SnapInv'
    BY <1>1, <1>2, <1>5, SnapMoves
  <2>2. DiskShape' /\ LockInv'
    BY <1>1, <1>5 DEF DiskShape, LockInv, SnapShape
  <2>3. StackShape' /\ EntryRestores' /\ StackJournalled'
    BY <1>1, <1>5, StackStays
  <2> QED
    BY <2>1, <2>2, <2>3 DEF CheckpointIInv
<1>6. ASSUME NEW w \in Writer, CommitJournal(w) PROVE CheckpointIInv'
  <2>1. /\ at[w] = "wrote" /\ holder = Nobody /\ UNCHANGED <<disk, blobs, stack, given, steps>>
        /\ \/ /\ journalled' = journalled \cup {[path |-> snap[w].path, was |-> snap[w].was]}
              /\ snap' = [snap EXCEPT ![w].lined = TRUE]
              /\ at' = [at EXCEPT ![w] = "journalled"] /\ holder' = w
           \/ /\ at' = [at EXCEPT ![w] = "journalled"] /\ holder' = w
              /\ UNCHANGED <<journalled, snap>>
           \/ /\ at' = [at EXCEPT ![w] = "idle"] /\ snap' = [snap EXCEPT ![w] = NoSnapshot]
              /\ UNCHANGED <<journalled, holder>>
    BY <1>6 DEF CommitJournal
  <2>2. /\ snap[w] \in Snapshot /\ snap[w].path \in Path /\ snap[w].was \in Content \cup {Gone}
        /\ Fit(snap[w], "wrote", blobs, disk) /\ ~snap[w].lined
    BY <1>1, <2>1 DEF SnapShape, SnapInv, LineOf, Busy, Snapshot
  <2>3. ASSUME NEW x \in Snapshot, x.was = snap[w].was, x.replaced = snap[w].replaced,
               x.clash = snap[w].clash, x.path = snap[w].path, snap' = [snap EXCEPT ![w] = x],
               journalled \subseteq journalled', DiskShape',
               x.lined => [path |-> x.path, was |-> x.was] \in journalled',
               at' = [at EXCEPT ![w] = "journalled"], holder' = w
        PROVE  CheckpointIInv'
    <3>1. Fit(x, "journalled", blobs', disk') /\ LineOf(x, "journalled", journalled')
      BY <2>1, <2>2, <2>3 DEF Fit, LineOf, Busy
    <3>2. SnapShape' /\ SnapInv'
      BY <1>1, <2>1, <2>3, <3>1, SnapMoves
    <3>3. LockInv'
      BY <1>1, <2>1, <2>3 DEF LockInv, SnapShape
    <3>4. StackShape' /\ EntryRestores' /\ StackJournalled'
      BY <1>1, <2>1, <2>3, StackStays
    <3> QED
      BY <2>3, <3>2, <3>3, <3>4 DEF CheckpointIInv
  <2>4. CASE /\ journalled' = journalled \cup {[path |-> snap[w].path, was |-> snap[w].was]}
             /\ snap' = [snap EXCEPT ![w].lined = TRUE]
             /\ at' = [at EXCEPT ![w] = "journalled"] /\ holder' = w
    <3> DEFINE x == [snap[w] EXCEPT !.lined = TRUE]
    <3>1. x \in Snapshot /\ x.was = snap[w].was /\ x.replaced = snap[w].replaced
          /\ x.clash = snap[w].clash /\ x.path = snap[w].path
      BY <2>2 DEF Snapshot
    <3>2. snap' = [snap EXCEPT ![w] = x]
      BY <2>4
    <3> HIDE DEF x
    <3>3. [path |-> x.path, was |-> x.was] \in journalled'
      BY <2>4, <3>1
    <3>4. DiskShape'
      BY <1>1, <2>1, <2>2, <2>4 DEF DiskShape
    <3> QED
      BY <2>3, <2>4, <3>1, <3>2, <3>3, <3>4
  <2>5. CASE /\ at' = [at EXCEPT ![w] = "journalled"] /\ holder' = w
             /\ UNCHANGED <<journalled, snap>>
    <3>1. snap' = [snap EXCEPT ![w] = snap[w]]
      BY <1>1, <2>5 DEF SnapShape
    <3>2. DiskShape'
      BY <1>1, <2>1, <2>5 DEF DiskShape
    <3> QED
      BY <2>2, <2>3, <2>5, <3>1, <3>2
  <2> QED
    BY <1>5, <2>1, <2>4, <2>5
<1>7. ASSUME NEW w \in Writer, CommitManifest(w) PROVE CheckpointIInv'
  <2> DEFINE e == [seq |-> NextSeq(stack), s |-> snap[w]]
             es == Capped(Append(stack, e))
  <2>1. /\ at[w] = "journalled" /\ stack' = es
        /\ given' = IF NextSeq(stack) > given THEN NextSeq(stack) ELSE given
        /\ blobs' = Reclaim(es) /\ snap' = [Disturb(w, Nobody, Reclaim(es)) EXCEPT ![w] = NoSnapshot]
        /\ at' = [at EXCEPT ![w] = "idle"] /\ holder' = Nobody
        /\ UNCHANGED <<disk, journalled, steps>>
    BY <1>7 DEF CommitManifest
  <2>2. NextSeq(stack) \in Nat /\ \A i \in DOMAIN stack : stack[i].seq < NextSeq(stack)
    BY <1>1, NextSeqIsNew
  <2>3. snap[w] \in Snapshot /\ Sound(snap[w], blobs)
    BY <1>1, <2>1 DEF SnapShape, SnapInv, LineOf, Busy, Fit, Sound
  <2>4. e \in Entry /\ e.s = snap[w] /\ e.seq = NextSeq(stack)
    BY <2>2, <2>3 DEF Entry
  <2> HIDE DEF e
  <2> DEFINE a == Append(stack, e)
  <2>5. /\ a \in Seq(Entry) /\ Len(a) = Len(stack) + 1 /\ Len(a) <= StackDepth + 1
        /\ a[Len(stack) + 1] = e /\ \A i \in DOMAIN stack : a[i] = stack[i]
        /\ DOMAIN a = 1 .. Len(stack) + 1 /\ DOMAIN stack = 1 .. Len(stack) /\ Len(stack) \in Nat
    BY <1>1, <2>4 DEF StackShape
  <2>6. \A i \in DOMAIN a : Sound(a[i].s, blobs)
    BY <1>1, <2>3, <2>4, <2>5, StackIsSound
  <2>7. \A i, j \in DOMAIN a : i < j => a[i].seq < a[j].seq
    BY <1>1, <2>2, <2>4, <2>5 DEF StackShape
  <2> HIDE DEF a
  <2>8. PICK k \in {0, 1} : \A i \in DOMAIN Capped(a) : i + k \in DOMAIN a /\ Capped(a)[i] = a[i + k]
    BY <2>5, CappedIsTop
  <2>9. es = Capped(a) /\ es \in Seq(Entry) /\ Len(es) <= StackDepth
    BY <2>5, CappedIsTop DEF a
  <2> HIDE DEF es
  <2>10. \A i \in DOMAIN es : i \in Nat
    BY <2>9
  <2>11. \A i, j \in DOMAIN es : i < j => es[i].seq < es[j].seq
    BY <2>7, <2>8, <2>9, <2>10
  <2>12. StackShape'
    BY <2>1, <2>9, <2>11 DEF StackShape
  <2>13. \A i \in DOMAIN es : Sound(es[i].s, blobs)
    BY <2>6, <2>8, <2>9
  <2>14. \A i \in DOMAIN es : Sound(es[i].s, Reclaim(es))
    BY <2>13, ReclaimSpares
  <2>15. EntryRestores' /\ StackJournalled'
    BY <2>1, <2>14 DEF EntryRestores, StackJournalled, Restorable, Sound
  <2>16. SnapShape' /\ SnapInv'
    <3>1. \A q \in Path : q # Nobody => disk'[q] = disk[q]
      BY <2>1
    <3>2. snap' = [Disturb(w, Nobody, blobs') EXCEPT ![w] = NoSnapshot]
      BY <2>1
    <3> QED
      BY <1>1, <1>2, <2>1, <3>1, <3>2, SnapMoves
  <2>17. DiskShape'
    BY <1>1, <2>1, <2>2 DEF DiskShape, Reclaim
  <2>18. LockInv'
    BY <1>1, <2>1 DEF LockInv, SnapShape
  <2> QED
    BY <2>12, <2>15, <2>16, <2>17, <2>18 DEF CheckpointIInv
<1>8. ASSUME NEW w \in Writer, UndoRestore(w) PROVE CheckpointIInv'
  <2>1. /\ at[w] = "idle" /\ holder = Nobody /\ stack # << >> /\ steps' = steps + 1 /\ steps < UndoSteps
        /\ disk' = [disk EXCEPT ![Top.s.path] = Top.s.was]
        /\ snap' = Disturb(w, Top.s.path, blobs)
        /\ at' = [at EXCEPT ![w] = "restored"] /\ holder' = w
        /\ UNCHANGED <<blobs, stack, journalled, given>>
    BY <1>8 DEF UndoRestore, Counted
  <2>2. Top \in Entry
    BY <1>1, <2>1 DEF Top, StackShape
  <2>3. Top.s.path \in Path /\ Top.s.was \in Content \cup {Gone}
    BY <2>2 DEF Entry, Snapshot
  <2>4. \A q \in Path : q # Top.s.path => disk'[q] = disk[q]
    BY <1>1, <2>1, <2>3 DEF DiskShape
  <2>5. /\ Disturb(w, Top.s.path, blobs) \in [Writer -> Snapshot \cup {NoSnapshot}]
        /\ Disturb(w, Top.s.path, blobs)[w] = snap[w]
    BY <1>1, <2>4, DisturbSpares
  <2>6. snap' = [Disturb(w, Top.s.path, blobs') EXCEPT ![w] = snap[w]]
    BY <2>1, <2>5
  <2>7. snap[w] \in Snapshot \cup {NoSnapshot} /\ Fit(snap[w], "restored", blobs', disk')
    BY <1>1, <1>2 DEF SnapShape, Fit
  <2>8. SnapShape' /\ SnapInv'
    BY <1>1, <1>2, <2>1, <2>4, <2>6, <2>7, SnapMoves
  <2>9. DiskShape'
    BY <1>1, <2>1, <2>3 DEF DiskShape
  <2>10. LockInv'
    BY <1>1, <2>1 DEF LockInv, SnapShape
  <2>11. StackShape' /\ EntryRestores' /\ StackJournalled'
    BY <1>1, <2>1, StackStays
  <2> QED
    BY <2>8, <2>9, <2>10, <2>11 DEF CheckpointIInv
<1>9. ASSUME NEW w \in Writer, UndoPop(w) PROVE CheckpointIInv'
  <2> DEFINE es == SubSeq(stack, 1, Len(stack) - 1)
  <2>1. /\ at[w] = "restored" /\ at' = [at EXCEPT ![w] = "idle"] /\ holder' = Nobody
        /\ UNCHANGED <<disk, journalled, given, steps>>
        /\ \/ stack' = es /\ blobs' = Reclaim(es) /\ snap' = Disturb(w, Nobody, Reclaim(es))
           \/ UNCHANGED <<stack, blobs, snap>>
    BY <1>9 DEF UndoPop
  <2>2. LockInv'
    BY <1>1, <2>1 DEF LockInv, SnapShape
  <2>3. snap[w] \in Snapshot \cup {NoSnapshot} /\ Fit(snap[w], "idle", blobs', disk')
    BY <1>1, <1>2 DEF SnapShape, Fit
  <2>4. CASE stack' = es /\ blobs' = Reclaim(es) /\ snap' = Disturb(w, Nobody, Reclaim(es))
    <3>1. stack # << >> /\ stack \in Seq(Entry)
      BY <1>1, <2>1 DEF LockInv, StackShape
    <3>2. /\ es \in Seq(Entry) /\ Len(es) = Len(stack) - 1 /\ Len(es) <= StackDepth
          /\ \A i \in DOMAIN es : i \in DOMAIN stack /\ es[i] = stack[i]
      <4>1. Len(stack) \in Nat \ {0} /\ DOMAIN stack = 1 .. Len(stack) /\ Len(stack) <= StackDepth
        BY <1>1, <3>1 DEF StackShape
      <4>2. es \in Seq(Entry) /\ Len(es) = Len(stack) - 1
        BY <3>1, <4>1
      <4>3. \A i \in 1 .. Len(stack) - 1 : es[i] = stack[i]
        BY <3>1, <4>1
      <4> HIDE DEF es
      <4>4. DOMAIN es = 1 .. Len(stack) - 1
        BY <4>1, <4>2
      <4> QED
        BY <4>1, <4>2, <4>3, <4>4
    <3> HIDE DEF es
    <3>3. StackShape'
      BY <1>1, <2>4, <3>2 DEF StackShape
    <3>4. \A i \in DOMAIN es : Sound(es[i].s, Reclaim(es))
      BY <1>1, <3>2, StackIsSound, ReclaimSpares
    <3>5. EntryRestores' /\ StackJournalled'
      BY <2>1, <2>4, <3>4 DEF EntryRestores, StackJournalled, Restorable, Sound
    <3>6. \A q \in Path : q # Nobody => disk'[q] = disk[q]
      BY <2>1
    <3>7. /\ Disturb(w, Nobody, blobs') \in [Writer -> Snapshot \cup {NoSnapshot}]
          /\ Disturb(w, Nobody, blobs')[w] = snap[w]
      BY <1>1, <3>6, DisturbSpares
    <3>8. snap' = [Disturb(w, Nobody, blobs') EXCEPT ![w] = snap[w]]
      BY <2>4, <3>7
    <3>9. SnapShape' /\ SnapInv'
      BY <1>1, <1>2, <2>1, <2>3, <3>6, <3>8, SnapMoves
    <3>10. DiskShape'
      BY <1>1, <2>1, <2>4 DEF DiskShape, Reclaim
    <3> QED
      BY <2>2, <3>3, <3>5, <3>9, <3>10 DEF CheckpointIInv
  <2>5. CASE UNCHANGED <<stack, blobs, snap>>
    <3>1. snap' = [snap EXCEPT ![w] = snap[w]]
      BY <1>1, <2>5 DEF SnapShape
    <3>2. SnapShape' /\ SnapInv'
      BY <1>1, <1>2, <2>1, <2>3, <2>5, <3>1, SnapMoves
    <3>3. DiskShape'
      BY <1>1, <2>1, <2>5 DEF DiskShape
    <3>4. StackShape' /\ EntryRestores' /\ StackJournalled'
      BY <1>1, <2>1, <2>5, StackStays
    <3> QED
      BY <2>2, <3>2, <3>3, <3>4 DEF CheckpointIInv
  <2> QED
    BY <2>1, <2>4, <2>5
<1>10. ASSUME NEW p \in Path, NEW c \in Content \cup {Gone}, Outside(p, c) PROVE CheckpointIInv'
  <2>1. /\ steps' = steps + 1 /\ steps < UndoSteps /\ disk' = [disk EXCEPT ![p] = c]
        /\ snap' = Disturb(Nobody, p, blobs)
        /\ UNCHANGED <<blobs, stack, journalled, at, holder, given>>
    BY <1>10 DEF Outside, Counted
  <2>2. \A q \in Path : q # p => disk'[q] = disk[q]
    BY <1>1, <2>1 DEF DiskShape
  <2>3. /\ snap' \in [Writer -> Snapshot \cup {NoSnapshot}]
        /\ \A w \in Writer : Busy(at[w]) =>
             /\ snap'[w] \in Snapshot
             /\ snap'[w].path = snap[w].path /\ snap'[w].was = snap[w].was
             /\ snap'[w].lined = snap[w].lined
             /\ w # Nobody => Fit(snap'[w], at[w], blobs, disk')
    <3> DEFINE D == Disturb(Nobody, p, blobs)
    <3>1. /\ D \in [Writer -> Snapshot \cup {NoSnapshot}]
          /\ \A w \in Writer : Busy(at[w]) =>
               /\ D[w] \in Snapshot
               /\ D[w].path = snap[w].path /\ D[w].was = snap[w].was
               /\ D[w].lined = snap[w].lined
               /\ w # Nobody => Fit(D[w], at[w], blobs, disk')
      BY <1>1, <2>2, DisturbSpares
    <3> QED
      BY <2>1, <3>1
  <2>4. SnapShape'
    BY <1>1, <2>1, <2>3 DEF SnapShape
  <2>5. SnapInv'
    <3> SUFFICES ASSUME NEW w \in Writer
                 PROVE  Fit(snap'[w], at'[w], blobs', disk') /\ LineOf(snap'[w], at'[w], journalled')
      BY DEF SnapInv
    <3>1. CASE Busy(at[w])
      BY <1>1, <2>1, <2>3, <3>1 DEF SnapInv, LineOf
    <3>2. CASE ~Busy(at[w])
      BY <2>1, <3>2 DEF Fit, LineOf, Busy
    <3> QED
      BY <3>1, <3>2
  <2>6. DiskShape' /\ LockInv'
    BY <1>1, <2>1 DEF DiskShape, LockInv
  <2>7. StackShape' /\ EntryRestores' /\ StackJournalled'
    BY <1>1, <2>1, StackStays
  <2> QED
    BY <2>4, <2>5, <2>6, <2>7 DEF CheckpointIInv
<1>11. CASE Crash
  <2>1. /\ steps' = steps + 1 /\ steps < UndoSteps
        /\ at' = [w \in Writer |-> "idle"] /\ snap' = [w \in Writer |-> NoSnapshot] /\ holder' = Nobody
        /\ UNCHANGED <<disk, blobs, stack, journalled, given>>
    BY <1>11 DEF Crash, Counted
  <2>2. DiskShape' /\ SnapShape' /\ LockInv'
    BY <1>1, <2>1 DEF DiskShape, SnapShape, LockInv, Busy
  <2>3. SnapInv'
    BY <2>1 DEF SnapInv, Fit, LineOf, Busy
  <2>4. StackShape' /\ EntryRestores' /\ StackJournalled'
    BY <1>1, <2>1, StackStays
  <2> QED
    BY <2>2, <2>3, <2>4 DEF CheckpointIInv
<1>12. CASE UNCHANGED checkpointVars
  <2>1. UNCHANGED <<disk, blobs, stack, journalled, at, snap, holder, given, steps>>
    BY <1>12 DEF checkpointVars
  <2>2. StackShape' /\ EntryRestores' /\ StackJournalled'
    BY <1>1, <2>1, StackStays
  <2> QED
    BY <1>1, <2>1, <2>2 DEF CheckpointIInv, DiskShape, SnapShape, LockInv, SnapInv
<1>13. ASSUME NEW w \in Writer, Discard(w) PROVE CheckpointIInv'
  BY <1>5, <1>13 DEF Discard
<1> QED
  BY <1>3, <1>4, <1>6, <1>7, <1>8, <1>9, <1>10, <1>11, <1>12, <1>13 DEF CheckpointNext

\* An entry of the undo stack that nobody interfered with between its capture
\* and its commit can be undone and brings back what the write replaced, and
\* every entry that names a line of the journal (all but those of calls without
\* a journal) has that line (pre_capture, commit, undo,
\* reclaim_unreferenced_blobs): for any writers, paths and contents, whatever
\* is pushed, popped, evicted or lost in a crash.
THEOREM EntriesCanBeUndone == CheckpointSpec => []CheckpointInv
<1> QED
  BY CheckpointIInvInit, CheckpointInductive, CheckpointIInvIsEnough, PTL DEF CheckpointSpec

-----------------------------------------------------------------------------
(* EventTrack *)

\* The types by what they are about: facts, sessions, the process, the counters.
\* What is still to be written of the event in hand has room in the facts.
Due == IF pc \in {"ensure", "write"} THEN 2 ELSE IF pc = "link" THEN 1 ELSE 0
FactShape ==
  /\ facts \in Seq(Fact) /\ Len(facts) + Due <= 2 * made
  /\ made \in 0 .. MaxEvents
  /\ \A i \in DOMAIN facts : facts[i].e <= made /\ facts[i].s <= minted
SessionShape ==
  /\ owner \in {"mcp", "runner"}
  /\ minted \in Nat /\ minted <= MaxStarts + MaxFaults /\ live \subseteq 1 .. minted
  /\ file \in 0 .. minted /\ sid \in 0 .. minted
ProcessShape ==
  /\ cache \in [EventId -> Cached \cup {Absent}] /\ mapped \in [FactId -> {0} \cup EventId]
  /\ \A f \in FactId : mapped[f] <= made
  /\ seq \in 0 .. made /\ prev \in Nat /\ armed \in BOOLEAN
  /\ pc \in {"start", "idle", "ensure", "write", "link"}
  /\ event \in [e : 0 .. made, body : 0 .. made, cause : {0} \cup FactId]
  /\ pc \in {"ensure", "write", "link"} => event.e # 0
  /\ pc \in {"ensure", "write"} => event.body = made /\ made # 0
  /\ pc # "link" => event.cause = 0
  /\ pc = "start" => /\ sid = 0 /\ prev = 0 /\ seq = 0 /\ ~armed
                     /\ cache = [e \in EventId |-> Absent] /\ mapped = [f \in FactId |-> 0]
QuotaShape ==
  /\ written \in 0 .. TurnQuota /\ dropped \in Nat /\ turn \in 0 .. MaxTurns
  /\ tally \in [tools : 0 .. MaxTools, admitted : Nat, journalled : Nat]
  /\ faults \in 0 .. MaxFaults /\ starts \in 1 .. MaxStarts /\ torn \in BOOLEAN
  /\ DropsAccounted

\* A cause c that the store may give an event: none, or a fact of its session.
Here(c) == c # 0 => c \in DOMAIN facts /\ facts[c].s = sid

\* So may the event that is changed when c is a cause.
Sourced(c) == Here(c) /\ (c # 0 /\ mapped[c] # 0 => Here(cache[mapped[c]].cause))

\* The causes in hand are of the session of the store, and so are those of the
\* events that the store would change as their sources.  It never comes back
\* to a session it has left.
CausesInv ==
  /\ CauseIsEarlier
  /\ \A c \in {prev, event.cause} : Sourced(c)
  /\ pc = "link" => event.cause # 0
  /\ sid = 0 => \A e \in EventId : cache[e].cause = 0
  /\ owner = "mcp" /\ sid # 0 => file = sid \/ file \notin live

\* Every build has a body of its own.  The cache is never behind the facts of
\* the session, and a fact never behind another one with its body.
BodiesInv ==
  /\ \A i \in DOMAIN facts :
       LET f == facts[i]
           v == Latest(facts, f.s, f.e)
       IN /\ f.v.body <= made /\ (pc \in {"ensure", "write"} => f.v.body # made)
          /\ f.v.body = v.body => f.v.effects \subseteq v.effects
          /\ f.v.body = cache[f.e].body =>
               sid # 0 /\ (f.s = sid => f.v.effects \subseteq cache[f.e].effects)
  /\ \A e \in EventId :
       cache[e].body <= made /\ (pc \in {"ensure", "write"} => cache[e].body # made)

\* Nothing has gone wrong so far: what BothWays is about.
Calm == faults = 0 /\ ~torn /\ (owner = "mcp" \/ starts = 1)

\* Then there is one session.
OneSession ==
  /\ minted <= 1 /\ live = 1 .. minted /\ ~armed /\ pc # "ensure"
  /\ owner = "mcp" => file = minted
  /\ minted = 0 => facts = << >>
  /\ IF pc = "start" THEN owner = "runner" => minted = 0 ELSE minted = 1 /\ sid = 1

\* Fact p is one of event k, and the store knows it as it is in the engine.
Cursor(p, k) ==
  IF k = 0 THEN p = 0
  ELSE /\ p \in DOMAIN facts /\ facts[p].e = k
       /\ mapped[p] = k /\ cache[k] = Latest(facts, 1, k)

\* Events 1 to n are in the engine, each caused by the one before and, but for
\* a source that is still to be written, among its effects.  The process goes
\* on at the last event or, after a restart, at the last but one.
Chained(n) ==
  /\ \A i \in DOMAIN facts :
       /\ facts[i].s = 1 /\ facts[i].e \in 1 .. n
       /\ facts[i].v.cause # 0 => facts[facts[i].v.cause].e + 1 = facts[i].e
  /\ \A e \in 1 .. n : Versions(facts, 1, e) # {}
  /\ \A e \in 1 .. n : e + 1 \in 1 .. n =>
       e + 1 \in Latest(facts, 1, e).effects \/ (pc = "link" /\ e + 1 = event.e)
  /\ facts # << >> => facts[Len(facts)].e \in {n - 1, n}
  /\ pc = "idle" => Cursor(prev, seq) /\ seq \in {n - 1, n}
  /\ pc = "write" => Cursor(prev, event.e - 1) /\ seq = event.e /\ event.e \in {n, n + 1}
  /\ pc = "link" =>
       /\ event.e = n /\ n > 1 /\ seq = n
       /\ Cursor(prev, n) /\ Cursor(event.cause, n - 1)

WalkInv == Calm => OneSession /\ \E n \in Nat : Chained(n)

\* What the quota of a turn has no part in, and all.
RecordsInv == FactShape /\ SessionShape /\ ProcessShape /\ CausesInv /\ BodiesInv /\ WalkInv
TrackIInv == RecordsInv /\ QuotaShape

\* What the search for the session of the track comes to: nothing new, another
\* session without an event to go on from, or the last event of the session.
KeptTrack == UNCHANGED <<sid, seq, prev, cache, mapped>>
MovedTrack ==
  /\ sid' # sid /\ sid' # 0 /\ (sid # 0 => OfSession(facts, sid') = {})
  /\ prev' = 0 /\ seq' \in {0, seq} /\ UNCHANGED <<cache, mapped>>
FoundTrack ==
  /\ sid = 0 /\ sid' # 0 /\ prev' = Max(OfSession(facts, sid'))
  /\ prev' \in DOMAIN facts /\ facts[prev'].s = sid' /\ facts[prev'].e = seq'
  /\ mapped' \in [FactId -> {0} \cup EventId] /\ mapped'[prev'] = seq'
  /\ \A f \in FactId : mapped'[f] \in {mapped[f], seq'}
  /\ cache[seq'] = Absent /\ ~(faults' = faults + 1) => cache'[seq'] = Latest(facts, sid', seq')
  /\ \/ UNCHANGED cache
     \/ cache[seq'] = Absent /\ cache' = [cache EXCEPT ![seq'] = Latest(facts, sid', seq')]

\* Versions of an event, and the first and the last of them.
LEMMA ExtremesExist ==
  ASSUME NEW n \in Nat, NEW S \in SUBSET (1 .. n), S # {}
  PROVE  /\ Min(S) \in S /\ \A j \in S : Min(S) <= j
         /\ Max(S) \in S /\ \A j \in S : j <= Max(S)
<1>1. S \subseteq Nat /\ \A i \in S : n - i \in Nat
  OBVIOUS
<1>2. \E i \in S : \A j \in S : i <= j
  <2>1. PICK i \in S : \A j \in S : ~ (<<j, i>> \in OpToRel(<, Nat))
    BY <1>1, NatLessThanWellFounded, WFMin, Zenon
  <2>2. \A j \in S : ~ (j < i)
    BY <1>1, <2>1 DEF OpToRel
  <2> QED
    BY <1>1, <2>2
<1>3. \E i \in S : \A j \in S : j <= i
  <2> DEFINE T == {n - i : i \in S}
  <2>1. T \subseteq Nat /\ T # {}
    BY <1>1
  <2>2. PICK x \in T : \A y \in T : ~ (<<y, x>> \in OpToRel(<, Nat))
    BY <2>1, NatLessThanWellFounded, WFMin, Zenon
  <2>3. \A y \in T : ~ (y < x)
    BY <2>1, <2>2 DEF OpToRel
  <2>4. PICK i \in S : x = n - i
    BY <2>2
  <2>5. ASSUME NEW j \in S PROVE j <= i
    <3>1. ~ (n - j < n - i)
      BY <2>3, <2>4
    <3> QED
      BY <1>1, <3>1
  <2> QED
    BY <2>5
<1>4. Min(S) = CHOOSE x \in S : \A y \in S : x <= y
  BY DEF Min
<1>5. Max(S) = CHOOSE x \in S : \A y \in S : x >= y
  BY DEF Max
<1>6. \E i \in S : \A j \in S : i >= j
  BY <1>1, <1>3
<1>7. Min(S) \in S /\ \A j \in S : Min(S) <= j
  BY <1>2, <1>4, Zenon
<1>8. Max(S) \in S /\ \A j \in S : Max(S) >= j
  BY <1>5, <1>6, Zenon
<1> QED
  BY <1>1, <1>7, <1>8

LEMMA VersionsShape ==
  ASSUME NEW fs \in Seq(Fact), NEW s, NEW e, Versions(fs, s, e) # {}
  PROVE  /\ Max(Versions(fs, s, e)) \in DOMAIN fs /\ Min(Versions(fs, s, e)) \in DOMAIN fs
         /\ fs[Max(Versions(fs, s, e))].s = s /\ fs[Max(Versions(fs, s, e))].e = e
         /\ fs[Min(Versions(fs, s, e))].s = s /\ fs[Min(Versions(fs, s, e))].e = e
         /\ Latest(fs, s, e) = fs[Max(Versions(fs, s, e))].v /\ Latest(fs, s, e) \in Cached
<1> DEFINE S == Versions(fs, s, e)
<1>1. Len(fs) \in Nat /\ DOMAIN fs = 1 .. Len(fs) /\ \A i \in DOMAIN fs : fs[i] \in Fact
  OBVIOUS
<1>2. S \in SUBSET (1 .. Len(fs)) /\ \A i \in S : fs[i].s = s /\ fs[i].e = e
  BY <1>1 DEF Versions
<1>3. Min(S) \in S /\ Max(S) \in S
  BY <1>1, <1>2, ExtremesExist
<1>4. \A f \in Fact : f.v \in Cached
  BY DEF Fact
<1> QED
  BY <1>1, <1>2, <1>3, <1>4 DEF Latest

\* A new fact is the latest version of its event and of no other.
LEMMA PostedIsLatest ==
  ASSUME NEW fs \in Seq(Fact), NEW x \in Fact
  PROVE  LET gs == Append(fs, x)
         IN /\ gs \in Seq(Fact) /\ Len(gs) = Len(fs) + 1
            /\ \A i \in DOMAIN fs : i \in DOMAIN gs /\ gs[i] = fs[i]
            /\ gs[Len(gs)] = x /\ \A i \in DOMAIN gs : i \in DOMAIN fs \/ i = Len(gs)
            /\ Latest(gs, x.s, x.e) = x.v
            /\ Len(gs) \in Versions(gs, x.s, x.e)
            /\ \A s, e : Versions(fs, s, e) \subseteq Versions(gs, s, e)
            /\ \A s, e : Versions(fs, s, e) # {} /\ ~(s = x.s /\ e = x.e) =>
                 Latest(gs, s, e) = Latest(fs, s, e)
<1> DEFINE gs == Append(fs, x)
           n == Len(fs)
<1>1. n \in Nat /\ DOMAIN fs = 1 .. n
  OBVIOUS
<1>2. gs \in Seq(Fact) /\ Len(gs) = n + 1 /\ DOMAIN gs = 1 .. n + 1 /\ gs[n + 1] = x
  OBVIOUS
<1>3. \A i \in 1 .. n : gs[i] = fs[i]
  OBVIOUS
<1> HIDE DEF gs, n
<1>4. \A i \in 1 .. n + 1 : i \in 1 .. n \/ i = n + 1
  BY <1>1
<1>5. 1 .. n \subseteq 1 .. n + 1 /\ n + 1 \in 1 .. n + 1
  BY <1>1
<1>6. \A s, e : Versions(fs, s, e) \subseteq Versions(gs, s, e)
  BY <1>1, <1>2, <1>3, <1>5 DEF Versions
<1>7. \A s, e : ~(s = x.s /\ e = x.e) => Versions(gs, s, e) = Versions(fs, s, e)
  BY <1>1, <1>2, <1>3, <1>4, <1>5 DEF Versions
<1>8. n + 1 \in Versions(gs, x.s, x.e)
  BY <1>2, <1>5 DEF Versions
<1>9. Latest(gs, x.s, x.e) = x.v
  <2> DEFINE S == Versions(gs, x.s, x.e)
  <2>1. S \in SUBSET (1 .. n + 1) /\ n + 1 \in Nat
    BY <1>1, <1>2 DEF Versions
  <2>2. Max(S) \in S /\ \A j \in S : j <= Max(S)
    BY <1>8, <2>1, ExtremesExist
  <2>3. Max(S) = n + 1
    BY <1>1, <1>8, <2>1, <2>2
  <2> QED
    BY <1>2, <2>3 DEF Latest
<1>10. ASSUME NEW s, NEW e, Versions(fs, s, e) # {}, ~(s = x.s /\ e = x.e)
       PROVE  Latest(gs, s, e) = Latest(fs, s, e)
  <2>1. Versions(gs, s, e) = Versions(fs, s, e)
    BY <1>7, <1>10
  <2>2. Max(Versions(fs, s, e)) \in 1 .. n
    BY <1>1, <1>10, VersionsShape
  <2> QED
    BY <1>3, <2>1, <2>2 DEF Latest
<1> QED
  BY <1>1, <1>2, <1>3, <1>4, <1>5, <1>6, <1>8, <1>9, <1>10 DEF gs, n

LEMMA FactsAreTyped ==
  ASSUME FactShape, SessionShape
  PROVE  /\ made \in Nat /\ made <= MaxEvents /\ DOMAIN facts = 1 .. Len(facts) /\ Len(facts) \in Nat
         /\ \A i \in DOMAIN facts :
              /\ i \in FactId /\ i \in Nat /\ i # 0 /\ facts[i] \in Fact
              /\ facts[i].s \in 1 .. minted /\ facts[i].e \in EventId /\ facts[i].e \in 1 .. made
              /\ facts[i].v \in Cached /\ i \in Versions(facts, facts[i].s, facts[i].e)
<1> USE TrackAssumption
<1>1. made \in Nat /\ made <= MaxEvents /\ DOMAIN facts = 1 .. Len(facts) /\ Len(facts) \in Nat
  BY DEF FactShape
<1>2. Due \in Nat
  BY DEF Due
<1>3. Len(facts) <= 2 * MaxEvents
  BY <1>1, <1>2 DEF FactShape
<1>4. \A i \in DOMAIN facts : facts[i] \in Fact /\ facts[i].e <= made /\ facts[i].s <= minted
  BY DEF FactShape
<1>5. \A f \in Fact : f.s \in Session /\ f.e \in EventId /\ f.v \in Cached
  BY DEF Fact
<1>6. ASSUME NEW i \in DOMAIN facts
      PROVE  facts[i].s \in 1 .. minted /\ facts[i].e \in 1 .. made
  <2>1. facts[i].s \in Session /\ facts[i].e \in EventId /\ facts[i].e <= made /\ facts[i].s <= minted
    BY <1>4, <1>5
  <2> QED
    BY <1>1, <2>1 DEF Session, EventId, SessionShape
<1>7. \A i \in DOMAIN facts : i \in FactId /\ i \in Nat /\ i # 0
  BY <1>1, <1>3 DEF FactId
<1>8. \A i \in DOMAIN facts : i \in Versions(facts, facts[i].s, facts[i].e)
  BY DEF Versions
<1> QED
  BY <1>1, <1>4, <1>5, <1>6, <1>7, <1>8

LEMMA FetchingFinds ==
  ASSUME FactShape, SessionShape, ProcessShape, NEW s \in Nat, s # 0, sid = 0, sid' = s,
         OfSession(facts, s) # {}, FetchChainTail(s), faults \in Nat
  PROVE  FoundTrack /\ (faults' = faults \/ Fault)
<1> DEFINE tail == Max(OfSession(facts, s))
           e == facts[tail].e
           known == Min(Versions(facts, s, e))
<1>1. OfSession(facts, s) \in SUBSET (1 .. Len(facts)) /\ DOMAIN facts = 1 .. Len(facts)
  BY FactsAreTyped DEF OfSession
<1>2. tail \in OfSession(facts, s)
  BY <1>1, ExtremesExist, FactsAreTyped
<1>3. tail \in DOMAIN facts /\ facts[tail].s = s /\ tail \in FactId /\ e \in EventId
  BY <1>2, FactsAreTyped DEF OfSession
<1>4. Versions(facts, s, e) # {} /\ facts \in Seq(Fact)
  BY <1>3, FactsAreTyped DEF FactShape
<1>5. known \in DOMAIN facts /\ Latest(facts, s, e) \in Cached
      /\ Latest(facts, s, e) = facts[Max(Versions(facts, s, e))].v
  BY <1>4, VersionsShape
<1>6. seq' = e /\ prev' = tail
  BY DEF FetchChainTail
<1>10. prev' = Max(OfSession(facts, sid')) /\ prev' \in DOMAIN facts /\ facts[prev'].s = sid'
      /\ facts[prev'].e = seq' /\ sid' # 0 /\ sid = 0
  BY <1>3, <1>6
<1>7. cache \in [EventId -> Cached \cup {Absent}] /\ mapped \in [FactId -> {0} \cup EventId]
  BY DEF ProcessShape
<1> HIDE DEF tail, e, known
<1>8. CASE /\ cache' = [cache EXCEPT ![e] = ReadEvent(s, e)]
           /\ mapped' = [mapped EXCEPT ![known] = IF cache[e] = Absent THEN e ELSE @, ![tail] = e]
           /\ NoFault
  <2>1. /\ mapped' \in [FactId -> {0} \cup EventId] /\ mapped'[tail] = e
        /\ \A f \in FactId : mapped'[f] \in {mapped[f], e}
    BY <1>3, <1>7, <1>8
  <2>2. CASE cache[e] # Absent
    <3>1. cache' = cache
      BY <1>3, <1>7, <1>8, <2>2 DEF ReadEvent
    <3> QED
      BY <1>10, <1>6, <1>8, <2>1, <2>2, <3>1 DEF FoundTrack, NoFault
  <2>3. CASE cache[e] = Absent
    <3>1. cache' = [cache EXCEPT ![e] = Latest(facts, s, e)]
      BY <1>5, <1>8, <2>3 DEF ReadEvent
    <3>2. cache'[e] = Latest(facts, s, e)
      BY <1>3, <1>7, <3>1
    <3> QED
      BY <1>10, <1>6, <1>8, <2>1, <2>3, <3>1, <3>2 DEF FoundTrack, NoFault
  <2> QED
    BY <2>2, <2>3
<1>9. CASE /\ cache[e] = Absent /\ Fault
           /\ mapped' = [mapped EXCEPT ![tail] = e] /\ UNCHANGED cache
  <2>1. /\ mapped' \in [FactId -> {0} \cup EventId] /\ mapped'[tail] = e
        /\ \A f \in FactId : mapped'[f] \in {mapped[f], e}
    BY <1>3, <1>7, <1>9
  <2> QED
    BY <1>10, <1>6, <1>9, <2>1 DEF FoundTrack, Fault
<1> QED
  BY <1>8, <1>9 DEF FetchChainTail, tail, e, known

\* ensure_gov_session, for the track of the /mcp endpoint and of a runner.
LEMMA EnsuringFinds ==
  ASSUME FactShape, SessionShape, ProcessShape, CausesInv, faults \in Nat, EnsureGovSession
  PROVE  /\ KeptTrack \/ MovedTrack \/ FoundTrack
         /\ minted' \in Nat /\ minted' <= MaxStarts + MaxFaults /\ minted <= minted'
         /\ live' \subseteq 1 .. minted' /\ file' \in 0 .. minted' /\ sid' \in 0 .. minted'
         /\ owner = "mcp" /\ sid' # 0 => file' = sid' \/ file' \notin live'
         /\ armed' = FALSE /\ (faults' = faults \/ Fault)
<1> USE TrackAssumption
<1>1. armed' = FALSE
  BY DEF EnsureGovSession
<1>2. minted \in Nat /\ minted <= MaxStarts + MaxFaults /\ live \subseteq 1 .. minted
      /\ file \in 0 .. minted /\ sid \in 0 .. minted
  BY DEF SessionShape
<1>3. owner = "mcp" /\ sid # 0 => file = sid \/ file \notin live
  BY DEF CausesInv
<1>4. CASE owner = "mcp" /\ Reuse
  <2>1. file \in live /\ file # 0 /\ Inject(file) /\ UNCHANGED <<live, minted, file>> /\ sid' = file
    BY <1>2, <1>4 DEF Reuse, Inject
  <2>2. file # sid => sid = 0
    BY <1>3, <1>4, <2>1
  <2>3. CASE sid = file
    BY <1>1, <1>2, <2>1, <2>3 DEF Inject, NoFault, KeptTrack
  <2>4. CASE sid # file
    <3>1. CASE prev = 0 /\ OfSession(facts, file) # {} /\ FetchChainTail(file)
      <4>1. FoundTrack /\ (faults' = faults \/ Fault)
        BY <1>2, <2>1, <2>2, <2>4, <3>1, FetchingFinds
      <4> QED
        BY <1>1, <1>2, <2>1, <4>1
    <3>2. CASE /\ UNCHANGED <<cache, mapped>> /\ (faults' = faults \/ Fault)
               /\ prev' = 0 /\ seq' \in {0, seq}
      BY <1>1, <1>2, <2>1, <2>2, <2>4, <3>2 DEF MovedTrack
    <3> QED
      BY <2>1, <2>4, <3>1, <3>2 DEF Inject, NoFault
  <2> QED
    BY <2>3, <2>4
<1>5. CASE owner = "mcp" /\ Provision
  <2> DEFINE m == minted + 1
  <2>1. /\ file \notin live /\ minted < MaxStarts + MaxFaults /\ minted' = m
        /\ live' = live \cup {m} /\ sid' = m
    BY <1>5 DEF Provision, Inject
  <2>2. OfSession(facts, m) = {}
    BY <1>2, FactsAreTyped DEF OfSession
  <2>3. m # sid /\ m # 0 /\ file # m
    BY <1>2
  <2>4. MovedTrack /\ (faults' = faults \/ Fault)
    <3>1. prev' = 0 /\ seq' \in {0, seq} /\ UNCHANGED <<cache, mapped>> /\ (faults' = faults \/ Fault)
      BY <1>5, <2>2, <2>3 DEF Provision, Inject, NoFault
    <3> QED
      BY <2>1, <2>2, <2>3, <3>1 DEF MovedTrack
  <2>5. file' = m \/ file' = file
    BY <1>5 DEF Provision
  <2>6. minted' \in Nat /\ minted' <= MaxStarts + MaxFaults /\ minted <= minted'
        /\ live' \subseteq 1 .. minted' /\ file' \in 0 .. minted' /\ sid' \in 0 .. minted'
    BY <1>2, <2>1, <2>5
  <2>7. file' = sid' \/ file' \notin live'
    BY <2>1, <2>3, <2>5
  <2> QED
    BY <1>1, <2>4, <2>6, <2>7
<1>6. CASE owner = "mcp" /\ Unreachable
  BY <1>1, <1>2, <1>3, <1>6 DEF Unreachable, KeptTrack
<1>7. CASE owner = "runner" /\ NoFault /\ UNCHANGED <<live, minted, file, sid, seq, prev, cache, mapped>>
  BY <1>1, <1>2, <1>7 DEF NoFault, KeptTrack
<1> QED
  BY <1>4, <1>5, <1>6, <1>7 DEF EnsureGovSession

LEMMA RecordsStay ==
  RecordsInv /\ UNCHANGED <<owner, engineVars, file, storeVars, seq, prev, armed, event, pc, made, faults, starts, torn>>
    => RecordsInv'
<1> SUFFICES ASSUME RecordsInv,
                    UNCHANGED <<owner, facts, live, minted, file, sid, cache, mapped, seq, prev, armed,
                                event, pc, made, faults, starts, torn>>
             PROVE  RecordsInv'
  BY DEF engineVars, storeVars
<1>1. FactShape' /\ SessionShape' /\ ProcessShape'
  BY DEF RecordsInv, FactShape, Due, SessionShape, ProcessShape
<1>2. CausesInv' /\ BodiesInv'
  BY DEF RecordsInv, CausesInv, CauseIsEarlier, Sourced, Here, BodiesInv, Latest, Versions
<1>3. WalkInv'
  <2>1. /\ \A s, e : Latest(facts, s, e)' = Latest(facts, s, e)
        /\ \A s, e : Versions(facts, s, e)' = Versions(facts, s, e)
    BY DEF Latest, Versions
  <2>2. \A p, k : Cursor(p, k)' <=> Cursor(p, k)
    BY <2>1 DEF Cursor
  <2>3. ASSUME NEW n, Chained(n) PROVE Chained(n)'
    <3>1. (pc = "idle" => Cursor(prev, seq)') /\ (pc = "write" => Cursor(prev, event.e - 1)')
          /\ (pc = "link" => Cursor(prev, n)' /\ Cursor(event.cause, n - 1)')
      BY <2>2, <2>3 DEF Chained
    <3> QED
      BY <2>1, <2>3, <3>1 DEF Chained
  <2> QED
    BY <2>3 DEF RecordsInv, WalkInv, Calm, OneSession
<1> QED
  BY <1>1, <1>2, <1>3 DEF RecordsInv

\* next_seq and the construction of an event.
LEMMA BuildKeeps ==
  ASSUME RecordsInv, pc = "idle", Build, Same
  PROVE  RecordsInv'
<1> USE TrackAssumption
<1>1. /\ made' = made + 1 /\ made < MaxEvents /\ made \in Nat
      /\ seq' = seq + 1 /\ seq \in 0 .. made
      /\ event' = [e |-> seq + 1, body |-> made + 1, cause |-> 0]
      /\ pc' \in {"ensure", "write"} /\ (~armed => pc' = "write")
  BY DEF RecordsInv, Build, ProcessShape, FactShape
<1>2. UNCHANGED <<owner, facts, live, minted, file, sid, cache, mapped, prev, armed, faults, starts, torn>>
  BY DEF Same, engineVars, storeVars
<1>3. FactShape'
  <2>1. Due = 0 /\ Due' = 2
    BY <1>1 DEF Due
  <2>2. Len(facts) \in Nat /\ Len(facts) + 2 <= 2 * (made + 1)
    BY <1>1, <2>1 DEF RecordsInv, FactShape
  <2>3. \A i \in DOMAIN facts : facts[i].e <= made + 1 /\ facts[i].s <= minted
    BY <1>1, FactsAreTyped DEF RecordsInv, FactShape
  <2> QED
    BY <1>1, <1>2, <2>1, <2>2, <2>3 DEF RecordsInv, FactShape
<1>4. SessionShape'
  BY <1>2 DEF RecordsInv, SessionShape
<1>5. ProcessShape'
  <2>1. \A f \in FactId : mapped[f] \in Nat /\ mapped[f] <= made
    BY DEF RecordsInv, ProcessShape, EventId
  <2>2. \A f \in FactId : mapped[f] <= made + 1
    BY <1>1, <2>1
  <2> QED
    BY <1>1, <1>2, <2>2 DEF RecordsInv, ProcessShape
<1>6. CausesInv'
  <2>1. CauseIsEarlier'
    BY <1>2 DEF RecordsInv, CausesInv, CauseIsEarlier
  <2>2. \A c : (Here(c)' <=> Here(c)) /\ (Sourced(c)' <=> Sourced(c))
    BY <1>2 DEF Here, Sourced
  <2>3. event'.cause = 0
    BY <1>1
  <2> QED
    BY <1>1, <1>2, <2>1, <2>2, <2>3 DEF RecordsInv, CausesInv, Sourced, Here
<1>7. BodiesInv'
  <2>1. \A s, e : Latest(facts, s, e)' = Latest(facts, s, e)
    BY <1>2 DEF Latest, Versions
  <2>2. \A i \in DOMAIN facts : facts[i].v.body \in Nat /\ facts[i].v.body <= made
    BY FactsAreTyped DEF RecordsInv, BodiesInv, Cached
  <2>3. \A e \in EventId : cache[e].body \in Nat /\ cache[e].body <= made
    BY DEF RecordsInv, ProcessShape, BodiesInv, Cached, Absent
  <2>4. \A b \in Nat : b <= made => b <= made + 1 /\ b # made + 1
    BY <1>1
  <2>5. \A i \in DOMAIN facts : facts[i].v.body <= made' /\ facts[i].v.body # made'
    BY <1>1, <2>2, <2>4
  <2>6. \A e \in EventId : cache[e].body <= made' /\ cache[e].body # made'
    BY <1>1, <2>3, <2>4
  <2> QED
    BY <1>2, <2>1, <2>5, <2>6 DEF RecordsInv, BodiesInv
<1>8. ASSUME Calm' PROVE OneSession' /\ \E n \in Nat : Chained(n)'
  <2>1. Calm /\ OneSession
    BY <1>2, <1>8 DEF RecordsInv, Calm, WalkInv
  <2>2. PICK n \in Nat : Chained(n)
    BY <2>1 DEF RecordsInv, WalkInv
  <2>3. pc' = "write"
    BY <1>1, <2>1 DEF OneSession
  <2>4. OneSession'
    BY <1>2, <2>1, <2>3 DEF OneSession
  <2>5. \A s, e : Latest(facts, s, e)' = Latest(facts, s, e) /\ Versions(facts, s, e)' = Versions(facts, s, e)
    BY <1>2 DEF Latest, Versions
  <2>6. event'.e = seq + 1 /\ event'.e - 1 = seq
    BY <1>1
  <2>7. Cursor(prev, event.e - 1)'
    BY <1>2, <2>2, <2>5, <2>6 DEF Chained, Cursor
  <2>8. seq' = event'.e /\ event'.e \in {n, n + 1}
    BY <1>1, <2>2, <2>6 DEF Chained
  <2>9. Chained(n)'
    BY <1>2, <2>2, <2>3, <2>5, <2>7, <2>8 DEF Chained
  <2> QED
    BY <2>4, <2>9
<1> QED
  BY <1>3, <1>4, <1>5, <1>6, <1>7, <1>8 DEF RecordsInv, WalkInv

LEMMA RecordToolKeeps == TrackIInv /\ RecordTool => TrackIInv'
<1> SUFFICES ASSUME TrackIInv, RecordTool PROVE TrackIInv'
  OBVIOUS
<1> USE TrackAssumption
<1>1. pc = "idle" /\ tally.tools < MaxTools /\ UNCHANGED turn /\ Same
  BY DEF RecordTool
<1>2. UNCHANGED <<faults, starts, torn>>
  BY <1>1 DEF Same
<1>3. CASE /\ written < TurnQuota /\ written' = written + 1
           /\ tally' = [tally EXCEPT !.tools = @ + 1, !.admitted = @ + 1]
           /\ Build /\ UNCHANGED dropped
  <2>1. RecordsInv'
    BY <1>1, <1>3, BuildKeeps DEF TrackIInv
  <2>2. tally' \in [tools : 0 .. MaxTools, admitted : Nat, journalled : Nat] /\ DropsAccounted'
    <3>1. tally \in [tools : 0 .. MaxTools, admitted : Nat, journalled : Nat] /\ dropped \in Nat
          /\ tally.tools = tally.admitted + tally.journalled + dropped
      BY DEF TrackIInv, QuotaShape, DropsAccounted
    <3>2. /\ tally'.tools = tally.tools + 1 /\ tally'.admitted = tally.admitted + 1
          /\ tally'.journalled = tally.journalled
      BY <1>3, <3>1
    <3>3. tally' \in [tools : 0 .. MaxTools, admitted : Nat, journalled : Nat]
      <4>1. \A k \in 0 .. MaxTools : k < MaxTools => k + 1 \in 0 .. MaxTools
        OBVIOUS
      <4>2. tally.tools + 1 \in 0 .. MaxTools /\ tally.admitted + 1 \in Nat
        BY <1>1, <3>1, <4>1
      <4>3. tally' = [tools |-> tally.tools + 1, admitted |-> tally.admitted + 1,
                      journalled |-> tally.journalled]
        BY <1>3, <3>1
      <4> QED
        BY <3>1, <4>2, <4>3
    <3>4. tally'.tools = tally'.admitted + tally'.journalled + dropped'
      BY <1>3, <3>1, <3>2
    <3> QED
      BY <3>3, <3>4 DEF DropsAccounted
  <2>3. written' \in 0 .. TurnQuota
    BY <1>3 DEF TrackIInv, QuotaShape
  <2>4. QuotaShape'
    BY <1>1, <1>2, <1>3, <2>2, <2>3 DEF TrackIInv, QuotaShape
  <2> QED
    BY <2>1, <2>4 DEF TrackIInv
<1>4. CASE /\ dropped' = dropped + 1
           /\ tally' = [tally EXCEPT !.tools = @ + 1]
           /\ UNCHANGED <<written, made, seq, event, pc>>
  <2>1. RecordsInv'
    BY <1>1, <1>4, RecordsStay DEF TrackIInv, Same
  <2>2. QuotaShape'
    BY <1>1, <1>2, <1>4 DEF TrackIInv, QuotaShape, DropsAccounted
  <2> QED
    BY <2>1, <2>2 DEF TrackIInv
<1> QED
  BY <1>3, <1>4 DEF RecordTool

\* The other records, and what a turn journals of what was dropped.
LEMMA RecordKeeps == TrackIInv /\ (RecordApproval \/ BeginTurn \/ SessionEnd) => TrackIInv'
<1> SUFFICES ASSUME TrackIInv, RecordApproval \/ BeginTurn \/ SessionEnd PROVE TrackIInv'
  OBVIOUS
<1> USE TrackAssumption
<1>1. pc = "idle" /\ Same /\ (Build \/ UNCHANGED <<made, seq, event, pc>>)
  BY DEF RecordApproval, BeginTurn, SessionEnd
<1>2. RecordsInv'
  <2>1. CASE Build
    BY <1>1, <2>1, BuildKeeps DEF TrackIInv
  <2>2. CASE UNCHANGED <<made, seq, event, pc>>
    BY <1>1, <2>2, RecordsStay DEF TrackIInv, Same
  <2> QED
    BY <1>1, <2>1, <2>2
<1>3. UNCHANGED <<faults, starts, torn>>
  BY <1>1 DEF Same
<1>4. TakeElided => tally' \in [tools : 0 .. MaxTools, admitted : Nat, journalled : Nat] /\ DropsAccounted'
                    /\ dropped' \in Nat
  BY DEF TrackIInv, QuotaShape, TakeElided, DropsAccounted
<1>5. QuotaShape'
  <2>1. CASE RecordApproval
    BY <1>3, <2>1 DEF RecordApproval, quotaVars, TrackIInv, QuotaShape, DropsAccounted
  <2>2. CASE BeginTurn
    BY <1>3, <1>4, <2>2 DEF BeginTurn, TrackIInv, QuotaShape
  <2>3. CASE SessionEnd
    BY <1>3, <1>4, <2>3 DEF SessionEnd, TrackIInv, QuotaShape
  <2> QED
    BY <2>1, <2>2, <2>3
<1> QED
  BY <1>2, <1>5 DEF TrackIInv

LEMMA LatestIsTyped ==
  ASSUME FactShape, SessionShape, CausesInv, NEW i \in DOMAIN facts
  PROVE  LET v == Latest(facts, facts[i].s, facts[i].e)
         IN /\ v \in Cached /\ \E k \in DOMAIN facts : facts[k].v = v /\ facts[k].s = facts[i].s
            /\ v.cause # 0 => v.cause \in DOMAIN facts /\ facts[v.cause].s = facts[i].s
<1> DEFINE v == Latest(facts, facts[i].s, facts[i].e)
           k == Max(Versions(facts, facts[i].s, facts[i].e))
<1>1. Versions(facts, facts[i].s, facts[i].e) # {} /\ facts \in Seq(Fact)
  BY FactsAreTyped DEF FactShape
<1>2. k \in DOMAIN facts /\ facts[k].s = facts[i].s /\ v = facts[k].v /\ v \in Cached
  BY <1>1, VersionsShape
<1> HIDE DEF k, v
<1>3. v.cause # 0 => v.cause < k /\ facts[v.cause].s = facts[k].s
  BY <1>2 DEF CausesInv, CauseIsEarlier
<1>4. v.cause \in {0} \cup FactId
  BY <1>2 DEF Cached
<1>5. v.cause # 0 => v.cause \in DOMAIN facts
  BY <1>2, <1>3, <1>4, FactsAreTyped DEF FactId
<1> QED
  BY <1>2, <1>3, <1>5 DEF v

\* Whatever session is found, all but the walk over the events is kept.
LEMMA SessionKeeps ==
  ASSUME RecordsInv, KeptTrack \/ MovedTrack \/ FoundTrack,
         minted' \in Nat, minted' <= MaxStarts + MaxFaults, minted <= minted',
         live' \subseteq 1 .. minted', file' \in 0 .. minted', sid' \in 0 .. minted',
         owner = "mcp" /\ sid' # 0 => file' = sid' \/ file' \notin live',
         armed' \in BOOLEAN,
         UNCHANGED <<facts, event, made, owner>>,
         \/ pc = "start" /\ pc' = "idle"
         \/ pc = "ensure" /\ pc' = "write"
  PROVE  FactShape' /\ SessionShape' /\ ProcessShape' /\ CausesInv' /\ BodiesInv'
<1> USE TrackAssumption DEF RecordsInv
<1>1. FactShape'
  <2>1. Due' = Due
    BY DEF Due
  <2>2. \A i \in DOMAIN facts : facts[i].s <= minted'
    <3>1. \A i \in DOMAIN facts : facts[i].s \in Nat /\ facts[i].s <= minted
      BY FactsAreTyped
    <3> QED
      BY <3>1 DEF SessionShape
  <2> QED
    BY <2>1, <2>2 DEF FactShape
<1>2. SessionShape'
  BY DEF SessionShape
<1>3. FoundTrack => seq' \in EventId /\ seq' \in 0 .. made
                    /\ Latest(facts, sid', seq') \in Cached /\ prev' \in Nat /\ prev' \in FactId
                    /\ Latest(facts, sid', seq').body <= made
                    /\ (pc = "ensure" => Latest(facts, sid', seq').body # made)
                    /\ (Latest(facts, sid', seq').cause # 0 =>
                          Latest(facts, sid', seq').cause \in DOMAIN facts
                          /\ facts[Latest(facts, sid', seq').cause].s = sid')
  <2> SUFFICES ASSUME FoundTrack
               PROVE  /\ seq' \in EventId /\ seq' \in 0 .. made
                      /\ Latest(facts, sid', seq') \in Cached /\ prev' \in Nat /\ prev' \in FactId
                      /\ Latest(facts, sid', seq').body <= made
                      /\ (pc = "ensure" => Latest(facts, sid', seq').body # made)
                      /\ (Latest(facts, sid', seq').cause # 0 =>
                            Latest(facts, sid', seq').cause \in DOMAIN facts
                            /\ facts[Latest(facts, sid', seq').cause].s = sid')
    OBVIOUS
  <2>1. prev' \in DOMAIN facts /\ facts[prev'].s = sid' /\ facts[prev'].e = seq'
    BY DEF FoundTrack
  <2>2. seq' \in EventId /\ seq' \in 1 .. made /\ prev' \in Nat /\ prev' \in FactId /\ made \in Nat
    BY <2>1, FactsAreTyped
  <2>3. PICK v \in Cached : v = Latest(facts, sid', seq')
                            /\ (\E k \in DOMAIN facts : facts[k].v = v)
                            /\ (v.cause # 0 => v.cause \in DOMAIN facts /\ facts[v.cause].s = sid')
    BY <2>1, LatestIsTyped
  <2>4. v.body <= made /\ (pc = "ensure" => v.body # made)
    BY <2>3 DEF BodiesInv
  <2> QED
    BY <2>2, <2>3, <2>4
<1>4. /\ cache' \in [EventId -> Cached \cup {Absent}] /\ mapped' \in [FactId -> {0} \cup EventId]
      /\ seq' \in 0 .. made /\ prev' \in Nat
      /\ \A f \in FactId : mapped'[f] <= made
  <2>1. /\ cache \in [EventId -> Cached \cup {Absent}] /\ mapped \in [FactId -> {0} \cup EventId]
        /\ seq \in 0 .. made /\ prev \in Nat /\ made \in Nat
        /\ \A f \in FactId : mapped[f] <= made
    BY DEF ProcessShape, FactShape
  <2>2. CASE KeptTrack
    BY <2>1, <2>2 DEF KeptTrack
  <2>3. CASE MovedTrack
    BY <2>1, <2>3 DEF MovedTrack
  <2>4. CASE FoundTrack
    BY <1>3, <2>1, <2>4 DEF FoundTrack
  <2> QED
    BY <2>2, <2>3, <2>4
<1>5. ProcessShape'
  BY <1>4 DEF ProcessShape
<1>6. CausesInv'
  <2>1. CauseIsEarlier'
    BY DEF CausesInv, CauseIsEarlier
  <2>2. event'.cause = 0 /\ pc' # "link"
    BY DEF ProcessShape
  <2>3. \A c : Here(c)' <=> (c # 0 => c \in DOMAIN facts /\ facts[c].s = sid')
    BY DEF Here
  <2>4. Here(0)' /\ Sourced(0)'
    BY DEF Here, Sourced
  <2>5. CASE KeptTrack
    <3>1. \A c : Sourced(c)' <=> Sourced(c)
      BY <2>5 DEF Here, Sourced, KeptTrack
    <3>2. Sourced(prev)
      BY DEF CausesInv
    <3>3. sid = 0 => \A e \in EventId : cache[e].cause = 0
      BY DEF CausesInv
    <3> QED
      BY <2>1, <2>2, <2>4, <2>5, <3>1, <3>2, <3>3 DEF CausesInv, KeptTrack
  <2>6. CASE MovedTrack
    BY <2>1, <2>2, <2>4, <2>6 DEF CausesInv, MovedTrack
  <2>7. CASE FoundTrack
    <3>1. Here(prev)' /\ sid' # 0 /\ mapped'[prev'] = seq' /\ sid = 0
      BY <2>3, <2>7 DEF FoundTrack
    <3>2. \A e \in EventId : cache[e].cause = 0
      BY <2>7 DEF CausesInv, FoundTrack
    <3>3. Here(cache[seq].cause)'
      <4>1. CASE UNCHANGED cache
        BY <1>3, <2>4, <2>7, <3>2, <4>1
      <4>2. CASE cache' = [cache EXCEPT ![seq'] = Latest(facts, sid', seq')]
        <5>1. cache'[seq'] = Latest(facts, sid', seq')
          BY <1>3, <2>7, <4>2 DEF ProcessShape
        <5> QED
          BY <1>3, <2>3, <2>7, <5>1
      <4> QED
        BY <2>7, <4>1, <4>2 DEF FoundTrack
    <3>4. Sourced(prev)'
      BY <3>1, <3>3 DEF Sourced
    <3> QED
      BY <2>1, <2>2, <2>4, <3>1, <3>4 DEF CausesInv
  <2> QED
    BY <2>5, <2>6, <2>7
<1>7. BodiesInv'
  <2>1. \A s, e : Latest(facts, s, e)' = Latest(facts, s, e)
    BY DEF Latest, Versions
  <2>2. \A i \in DOMAIN facts :
          /\ facts[i].v.body <= made /\ (pc' = "write" => facts[i].v.body # made)
          /\ facts[i].v.body = Latest(facts, facts[i].s, facts[i].e).body =>
               facts[i].v.effects \subseteq Latest(facts, facts[i].s, facts[i].e).effects
    BY DEF BodiesInv
  <2>3. ASSUME NEW i \in DOMAIN facts, facts[i].v.body = cache'[facts[i].e].body
        PROVE  sid' # 0 /\ (facts[i].s = sid' => facts[i].v.effects \subseteq cache'[facts[i].e].effects)
    <3>1. facts[i].v.body = cache[facts[i].e].body =>
            sid # 0 /\ (facts[i].s = sid => facts[i].v.effects \subseteq cache[facts[i].e].effects)
      BY DEF BodiesInv
    <3>2. CASE KeptTrack
      BY <2>3, <3>1, <3>2 DEF KeptTrack
    <3>3. CASE MovedTrack
      BY <2>3, <3>1, <3>3 DEF MovedTrack, OfSession
    <3>4. CASE FoundTrack /\ UNCHANGED cache
      BY <2>3, <3>1, <3>4 DEF FoundTrack
    <3>5. CASE FoundTrack /\ cache' = [cache EXCEPT ![seq'] = Latest(facts, sid', seq')]
      <4>1. sid = 0 /\ sid' # 0
        BY <3>5 DEF FoundTrack
      <4>2. facts[i].e \in EventId
        BY FactsAreTyped
      <4>3. facts[i].e = seq'
        BY <2>3, <3>1, <3>5, <4>1, <4>2 DEF ProcessShape
      <4>4. cache'[facts[i].e] = Latest(facts, sid', facts[i].e)
        BY <3>5, <4>2, <4>3 DEF ProcessShape
      <4> QED
        BY <2>2, <2>3, <4>1, <4>4
    <3> QED
      BY <3>2, <3>3, <3>4, <3>5 DEF FoundTrack
  <2>4. ASSUME NEW e \in EventId
        PROVE  cache'[e].body <= made /\ (pc' = "write" => cache'[e].body # made)
    <3>1. cache[e].body <= made /\ (pc' = "write" => cache[e].body # made)
      BY DEF BodiesInv
    <3>2. cache' = cache \/ (FoundTrack /\ cache' = [cache EXCEPT ![seq'] = Latest(facts, sid', seq')])
      BY DEF KeptTrack, MovedTrack, FoundTrack
    <3> QED
      BY <1>3, <3>1, <3>2 DEF ProcessShape
  <2> QED
    BY <2>1, <2>2, <2>3, <2>4 DEF BodiesInv
<1> QED
  BY <1>1, <1>2, <1>5, <1>6, <1>7

\* A process that starts finds the end of the chain, or the last event but one.
LEMMA WalkStarts ==
  ASSUME RecordsInv, faults \in Nat, Calm', pc = "start", pc' = "idle", armed' = FALSE,
         faults' = faults \/ Fault,
         UNCHANGED <<facts, event, owner, starts, torn>>,
         \/ owner = "mcp" /\ (Reuse \/ Provision)
         \/ /\ owner = "runner"
            /\ \/ sid' \in live /\ UNCHANGED <<live, minted>>
               \/ minted' = minted + 1 /\ live' = live \cup {minted + 1} /\ sid' = minted + 1
            /\ UNCHANGED <<file, seq, prev, cache, mapped>>
  PROVE  OneSession' /\ \E n \in Nat : Chained(n)'
<1> USE DEF RecordsInv
<1>1. faults' = faults /\ ~Fault /\ Calm
  BY DEF Calm, Fault
<1>2. OneSession /\ minted \in {0, 1} /\ live = 1 .. minted /\ ~armed
  BY <1>1 DEF WalkInv, OneSession, SessionShape
<1>3. PICK n \in Nat : Chained(n)
  BY <1>1 DEF WalkInv
<1>4. /\ sid = 0 /\ prev = 0 /\ seq = 0
      /\ cache = [e \in EventId |-> Absent]
  BY DEF ProcessShape
<1>5. /\ \A s, e : Latest(facts, s, e)' = Latest(facts, s, e)
      /\ \A s, e : Versions(facts, s, e)' = Versions(facts, s, e)
  BY DEF Latest, Versions
<1>6. ASSUME OneSession', Cursor(prev, seq)', seq' \in {n - 1, n} PROVE Chained(n)'
  BY <1>3, <1>5, <1>6 DEF Chained
<1>7. facts = << >> => n = 0
  <2>1. ASSUME facts = << >>, n # 0 PROVE FALSE
    <3>1. 1 \in 1 .. n
      BY <2>1
    <3>2. Versions(facts, 1, 1) # {}
      BY <1>3, <3>1 DEF Chained
    <3> QED
      BY <2>1, <3>2 DEF Versions
  <2> QED
    BY <2>1
<1>8. ASSUME facts = << >>, prev' = 0, seq' = 0, OneSession'
      PROVE  Chained(n)'
  <2>1. Cursor(prev, seq)'
    BY <1>8 DEF Cursor
  <2>2. seq' \in {n - 1, n}
    BY <1>7, <1>8
  <2> QED
    BY <1>6, <1>8, <2>1, <2>2
<1>9. CASE owner = "mcp" /\ Reuse
  <2>1. file = minted /\ file \in live
    BY <1>2, <1>9 DEF OneSession, Reuse
  <2>2. minted = 1 /\ file = 1
    BY <1>2, <2>1
  <2>3. sid' = 1 /\ UNCHANGED <<live, minted, file>>
    BY <1>9, <2>2 DEF Reuse, Inject
  <2>4. OneSession'
    BY <1>2, <2>1, <2>2, <2>3 DEF OneSession
  <2>5. CASE facts = << >>
    <3>1. OfSession(facts, 1) = {}
      BY <2>5 DEF OfSession
    <3>2. prev' = 0 /\ seq' = 0
      BY <1>1, <1>4, <1>9, <2>2, <3>1 DEF Reuse, Inject
    <3> QED
      BY <1>8, <2>4, <2>5, <3>2
  <2>6. CASE facts # << >>
    <3>1. OfSession(facts, 1) = DOMAIN facts /\ Len(facts) \in DOMAIN facts
      <4>1. \A i \in DOMAIN facts : facts[i].s = 1
        BY <1>3 DEF Chained
      <4>2. OfSession(facts, 1) = DOMAIN facts
        BY <4>1 DEF OfSession
      <4>3. facts \in Seq(Fact)
        BY DEF FactShape
      <4> QED
        BY <2>6, <4>2, <4>3
    <3>2. FetchChainTail(1)
      BY <1>1, <1>4, <1>9, <2>2, <3>1 DEF Reuse, Inject
    <3>3. FoundTrack
      BY <1>4, <2>3, <3>1, <3>2, FetchingFinds
    <3>4. prev' = Len(facts)
      <4>1. prev' = Max(DOMAIN facts)
        BY <2>3, <3>1, <3>3 DEF FoundTrack
      <4>2. DOMAIN facts = 1 .. Len(facts) /\ Len(facts) \in Nat
        BY FactsAreTyped
      <4>3. Max(1 .. Len(facts)) \in 1 .. Len(facts) /\ \A j \in 1 .. Len(facts) : j <= Max(1 .. Len(facts))
        BY <3>1, <4>2, ExtremesExist
      <4> QED
        BY <3>1, <4>1, <4>2, <4>3
    <3>5. seq' \in {n - 1, n} /\ seq' = facts[Len(facts)].e
      BY <1>3, <2>6, <3>3, <3>4 DEF FoundTrack, Chained
    <3>6. seq' \in EventId /\ seq' # 0
      BY <3>1, <3>5, FactsAreTyped DEF EventId
    <3>7. cache'[seq'] = Latest(facts, 1, seq')
      <4>1. cache[seq'] = Absent
        BY <1>4, <3>6
      <4>2. ~(faults' = faults + 1)
        BY <1>1
      <4> QED
        BY <2>3, <3>3, <4>1, <4>2 DEF FoundTrack
    <3>8. Cursor(prev, seq)'
      BY <1>5, <3>3, <3>6, <3>7 DEF Cursor, FoundTrack
    <3> QED
      BY <1>6, <2>4, <3>5, <3>8
  <2> QED
    BY <2>4, <2>5, <2>6
<1>10. CASE owner = "mcp" /\ Provision
  <2>1. minted = 0
    <3>1. file = minted /\ file \notin live
      BY <1>2, <1>10 DEF OneSession, Provision
    <3> QED
      BY <1>2, <3>1
  <2>2. facts = << >>
    BY <1>2, <2>1 DEF OneSession
  <2>3. /\ minted' = 1 /\ live' = live \cup {1} /\ file' = 1 /\ sid' = 1
        /\ prev' = 0 /\ seq' = 0
    <3>1. OfSession(facts, 1) = {}
      BY <2>2 DEF OfSession
    <3> QED
      BY <1>1, <1>4, <1>10, <2>1, <3>1 DEF Provision, Inject
  <2>4. OneSession'
    <3>1. 1 .. 1 = {1} /\ 1 .. 0 = {}
      OBVIOUS
    <3> QED
      BY <1>2, <2>1, <2>2, <2>3, <3>1 DEF OneSession
  <2> QED
    BY <1>8, <2>2, <2>3, <2>4
<1>11. CASE /\ owner = "runner"
            /\ \/ sid' \in live /\ UNCHANGED <<live, minted>>
               \/ minted' = minted + 1 /\ live' = live \cup {minted + 1} /\ sid' = minted + 1
            /\ UNCHANGED <<file, seq, prev, cache, mapped>>
  <2>1. minted = 0 /\ facts = << >>
    BY <1>2, <1>11 DEF OneSession
  <2>2. 1 .. 1 = {1} /\ 1 .. 0 = {}
    OBVIOUS
  <2>3. minted' = 1 /\ live' = {1} /\ sid' = 1
    BY <1>2, <1>11, <2>1, <2>2
  <2>4. OneSession'
    BY <1>11, <2>1, <2>2, <2>3 DEF OneSession
  <2> QED
    BY <1>4, <1>8, <1>11, <2>1, <2>4
<1> QED
  BY <1>9, <1>10, <1>11

LEMMA StartKeeps == TrackIInv /\ Start => TrackIInv'
<1> SUFFICES ASSUME TrackIInv, Start PROVE TrackIInv'
  OBVIOUS
<1> USE TrackAssumption DEF TrackIInv
<1>1. /\ pc = "start" /\ pc' = "idle" /\ faults \in Nat /\ armed = FALSE
      /\ UNCHANGED <<facts, event, owner, made, starts, torn, written, dropped, turn, tally>>
  BY DEF Start, quotaVars, runVars, QuotaShape, RecordsInv, ProcessShape
<1>2. FactShape /\ SessionShape /\ ProcessShape /\ CausesInv
  BY DEF RecordsInv
<1>3. CASE owner = "mcp" /\ EnsureGovSession
  <2>1. /\ KeptTrack \/ MovedTrack \/ FoundTrack
        /\ minted' \in Nat /\ minted' <= MaxStarts + MaxFaults /\ minted <= minted'
        /\ live' \subseteq 1 .. minted' /\ file' \in 0 .. minted' /\ sid' \in 0 .. minted'
        /\ owner = "mcp" /\ sid' # 0 => file' = sid' \/ file' \notin live'
        /\ armed' = FALSE /\ (faults' = faults \/ Fault)
    BY <1>1, <1>2, <1>3, EnsuringFinds
  <2>2. FactShape' /\ SessionShape' /\ ProcessShape' /\ CausesInv' /\ BodiesInv'
    BY <1>1, <2>1, SessionKeeps
  <2>3. ASSUME Calm' PROVE OneSession' /\ \E n \in Nat : Chained(n)'
    <3>1. ~Fault
      BY <1>1, <2>3 DEF Calm, Fault
    <3>2. Reuse \/ Provision
      BY <1>3, <3>1 DEF EnsureGovSession, Unreachable
    <3> QED
      BY <1>1, <1>3, <2>1, <2>3, <3>2, WalkStarts
  <2>4. QuotaShape'
    BY <1>1, <2>1 DEF QuotaShape, DropsAccounted, Fault
  <2> QED
    BY <2>2, <2>3, <2>4 DEF RecordsInv, WalkInv
<1>4. CASE /\ owner = "runner"
           /\ \/ sid' \in live /\ UNCHANGED <<live, minted>>
              \/ /\ minted < MaxStarts /\ minted' = minted + 1
                 /\ live' = live \cup {minted + 1} /\ sid' = minted + 1
           /\ NoFault /\ UNCHANGED <<file, seq, prev, cache, mapped, armed>>
  <2>1. /\ sid = 0 /\ prev = 0 /\ seq = 0
        /\ minted \in Nat /\ minted <= MaxStarts + MaxFaults /\ live \subseteq 1 .. minted /\ file \in 0 .. minted
    BY <1>1, <1>2 DEF ProcessShape, SessionShape
  <2>2. /\ minted' \in Nat /\ minted' <= MaxStarts + MaxFaults /\ minted <= minted'
        /\ live' \subseteq 1 .. minted' /\ file' \in 0 .. minted' /\ sid' \in 0 .. minted' /\ sid' # 0
        /\ armed' = FALSE /\ faults' = faults
    <3>1. armed' = FALSE /\ faults' = faults /\ file' = file
      BY <1>1, <1>4 DEF NoFault
    <3>2. CASE sid' \in live /\ UNCHANGED <<live, minted>>
      BY <2>1, <3>1, <3>2
    <3>3. CASE minted < MaxStarts /\ minted' = minted + 1 /\ live' = live \cup {minted + 1} /\ sid' = minted + 1
      BY <2>1, <3>1, <3>3
    <3> QED
      BY <1>4, <3>2, <3>3
  <2>3. MovedTrack
    BY <1>4, <2>1, <2>2 DEF MovedTrack
  <2>4. FactShape' /\ SessionShape' /\ ProcessShape' /\ CausesInv' /\ BodiesInv'
    BY <1>1, <1>4, <2>2, <2>3, SessionKeeps
  <2>5. ASSUME Calm' PROVE OneSession' /\ \E n \in Nat : Chained(n)'
    BY <1>1, <1>4, <2>2, <2>5, WalkStarts
  <2>6. QuotaShape'
    BY <1>1, <2>2 DEF QuotaShape, DropsAccounted
  <2> QED
    BY <2>4, <2>5, <2>6 DEF RecordsInv, WalkInv
<1> QED
  BY <1>3, <1>4 DEF Start

LEMMA EnsureKeeps == TrackIInv /\ Ensure => TrackIInv'
<1> SUFFICES ASSUME TrackIInv, Ensure PROVE TrackIInv'
  OBVIOUS
<1> USE TrackAssumption DEF TrackIInv
<1>1. /\ pc = "ensure" /\ pc' = "write" /\ faults \in Nat /\ EnsureGovSession
      /\ UNCHANGED <<facts, event, owner, made, starts, torn, written, dropped, turn, tally>>
  BY DEF Ensure, quotaVars, runVars, QuotaShape
<1>2. FactShape /\ SessionShape /\ ProcessShape /\ CausesInv
  BY DEF RecordsInv
<1>3. /\ KeptTrack \/ MovedTrack \/ FoundTrack
      /\ minted' \in Nat /\ minted' <= MaxStarts + MaxFaults /\ minted <= minted'
      /\ live' \subseteq 1 .. minted' /\ file' \in 0 .. minted' /\ sid' \in 0 .. minted'
      /\ owner = "mcp" /\ sid' # 0 => file' = sid' \/ file' \notin live'
      /\ armed' = FALSE /\ (faults' = faults \/ Fault)
  BY <1>1, <1>2, EnsuringFinds
<1>4. FactShape' /\ SessionShape' /\ ProcessShape' /\ CausesInv' /\ BodiesInv'
  BY <1>1, <1>3, SessionKeeps
<1>5. ~Calm'
  <2>1. ~Calm
    BY <1>1 DEF RecordsInv, WalkInv, OneSession
  <2> QED
    BY <1>1, <1>3, <2>1 DEF Calm, Fault
<1>6. QuotaShape'
  BY <1>1, <1>3 DEF QuotaShape, DropsAccounted, Fault
<1> QED
  BY <1>4, <1>5, <1>6 DEF RecordsInv, WalkInv

LEMMA WriteKeeps == TrackIInv /\ Write => TrackIInv'
<1> SUFFICES ASSUME TrackIInv, Write PROVE TrackIInv'
  OBVIOUS
<1> USE TrackAssumption
<1> DEFINE e == event.e
           v == [body |-> event.body, cause |-> prev, effects |-> {}]
           x == [s |-> sid, e |-> e, v |-> v]
           gs == Append(facts, x)
           fid == Min(Versions(gs, sid, e))
<1>1. /\ pc = "write" /\ cache' = [cache EXCEPT ![e] = v]
      /\ IF prev # 0 THEN pc' = "link" /\ event' = [event EXCEPT !.cause = prev]
                     ELSE pc' = "idle" /\ event' = NoEvent
      /\ UNCHANGED <<live, minted, file, sid, seq, written, dropped, turn, tally, owner, made, starts, torn>>
  BY DEF Write, quotaVars, runVars
<1>2. \/ /\ sid \in live /\ facts' = gs
         /\ mapped' = [mapped EXCEPT ![fid] = e] /\ prev' = fid
         /\ \/ NoFault /\ UNCHANGED armed
            \/ Fault /\ armed' = TRUE
      \/ /\ facts' = facts \/ (sid \in live /\ facts' = gs)
         /\ armed' = TRUE /\ UNCHANGED <<mapped, prev>>
         /\ (sid \notin live /\ NoFault) \/ Fault
  BY DEF Write, Landed, Missed, Post, Identity
<1>3. FactShape /\ SessionShape /\ ProcessShape /\ CausesInv /\ BodiesInv /\ WalkInv /\ QuotaShape
  BY DEF TrackIInv, RecordsInv
<1>4. /\ e \in EventId /\ e \in 1 .. made /\ event.body = made /\ made \in 1 .. MaxEvents
      /\ event \in [e : 0 .. made, body : 0 .. made, cause : {0} \cup FactId]
  BY <1>1, <1>3 DEF ProcessShape, FactShape, EventId
<1>5. Here(prev)
  BY <1>3 DEF CausesInv, Sourced
<1>6. prev # 0 => prev \in FactId /\ prev \in DOMAIN facts /\ facts[prev].s = sid /\ sid # 0
  <2>1. minted \in Nat
    BY <1>3 DEF SessionShape
  <2> QED
    BY <1>3, <1>5, <2>1, FactsAreTyped DEF Here
<1>7. v \in Cached /\ v.body = made /\ v.cause = prev /\ v.effects = {}
  <2>1. prev \in {0} \cup FactId
    BY <1>6
  <2> QED
    BY <1>4, <2>1 DEF Cached
<1>8. sid \in live => x \in Fact /\ sid # 0 /\ x.s = sid /\ x.e = e /\ x.v = v
  <2>1. sid \in live => sid \in Session /\ sid # 0
    BY <1>3 DEF SessionShape, Session
  <2> QED
    BY <1>4, <1>7, <2>1 DEF Fact
<1>9. /\ DOMAIN facts = 1 .. Len(facts) /\ Len(facts) \in Nat
      /\ \A i \in DOMAIN facts : i \in FactId /\ facts[i].e \in EventId /\ facts[i].s # 0
                                 /\ i \in Versions(facts, facts[i].s, facts[i].e)
                                 /\ facts[i].e <= made /\ facts[i].s <= minted
  <2>1. minted \in Nat /\ made \in Nat
    BY <1>3 DEF SessionShape, FactShape
  <2> QED
    BY <1>3, <2>1, FactsAreTyped
<1> HIDE DEF e, v, x
<1>10. ASSUME sid \in live
       PROVE  /\ gs \in Seq(Fact) /\ Len(gs) = Len(facts) + 1
              /\ \A i \in DOMAIN facts : i \in DOMAIN gs /\ gs[i] = facts[i]
              /\ gs[Len(gs)] = x /\ \A i \in DOMAIN gs : i \in DOMAIN facts \/ i = Len(gs)
              /\ Latest(gs, sid, e) = v
              /\ Len(gs) \in Versions(gs, sid, e)
              /\ \A s, k : Versions(facts, s, k) \subseteq Versions(gs, s, k)
              /\ \A s, k : Versions(facts, s, k) # {} /\ ~(s = sid /\ k = e) =>
                   Latest(gs, s, k) = Latest(facts, s, k)
              /\ fid \in DOMAIN gs /\ gs[fid].s = sid /\ gs[fid].e = e
              /\ \A i \in DOMAIN gs : i \in FactId
  <2>1. facts \in Seq(Fact) /\ x \in Fact
    BY <1>3, <1>8, <1>10 DEF FactShape
  <2>2. /\ gs \in Seq(Fact) /\ Len(gs) = Len(facts) + 1
        /\ \A i \in DOMAIN facts : i \in DOMAIN gs /\ gs[i] = facts[i]
        /\ gs[Len(gs)] = x /\ \A i \in DOMAIN gs : i \in DOMAIN facts \/ i = Len(gs)
        /\ Latest(gs, x.s, x.e) = x.v
        /\ Len(gs) \in Versions(gs, x.s, x.e)
        /\ \A s, k : Versions(facts, s, k) \subseteq Versions(gs, s, k)
        /\ \A s, k : Versions(facts, s, k) # {} /\ ~(s = x.s /\ k = x.e) =>
             Latest(gs, s, k) = Latest(facts, s, k)
    BY <2>1, PostedIsLatest, Zenon
  <2>3. fid \in DOMAIN gs /\ gs[fid].s = sid /\ gs[fid].e = e
    <3> HIDE DEF gs
    <3>1. Versions(gs, sid, e) # {}
      BY <1>8, <1>10, <2>2
    <3> QED
      BY <2>2, <3>1, VersionsShape
  <2>4. Len(facts) + 1 \in FactId
    BY <1>1, <1>3, <1>4, <1>9 DEF FactShape, Due, FactId
  <2>5. \A i \in DOMAIN gs : i \in FactId
    BY <1>9, <2>2, <2>4
  <2> QED
    BY <1>8, <1>10, <2>2, <2>3, <2>5
<1> HIDE DEF gs, fid
<1>11. sid \notin live => facts' = facts /\ UNCHANGED <<mapped, prev>>
  BY <1>2
<1>12. /\ \A i \in DOMAIN facts : i \in DOMAIN facts' /\ facts'[i] = facts[i]
       /\ \A i \in DOMAIN facts' : i \in DOMAIN facts \/ (sid \in live /\ facts' = gs /\ i = Len(gs))
  BY <1>2, <1>10
<1>13. FactShape'
  <2>1. Due = 2 /\ Due' \in {0, 1} /\ made' = made
    BY <1>1 DEF Due
  <2>2. facts' \in Seq(Fact) /\ (Len(facts') = Len(facts) \/ Len(facts') = Len(facts) + 1)
    BY <1>2, <1>3, <1>10 DEF FactShape
  <2>3. Len(facts') + Due' <= 2 * made
    BY <1>3, <1>4, <1>9, <2>1, <2>2 DEF FactShape
  <2>4. \A i \in DOMAIN facts' : facts'[i].e <= made /\ facts'[i].s <= minted
    <3>1. sid \in live => x.e <= made /\ x.s <= minted
      BY <1>3, <1>4, <1>8 DEF SessionShape
    <3> QED
      BY <1>9, <1>10, <1>12, <3>1
  <2> QED
    BY <1>1, <1>3, <2>2, <2>3, <2>4 DEF FactShape
<1>14. SessionShape'
  BY <1>1, <1>3 DEF SessionShape
<1>15. ProcessShape'
  <2>1. cache' \in [EventId -> Cached \cup {Absent}]
    BY <1>1, <1>3, <1>7 DEF ProcessShape
  <2>2. mapped' \in [FactId -> {0} \cup EventId] /\ \A f \in FactId : mapped'[f] <= made
    <3>1. mapped \in [FactId -> {0} \cup EventId] /\ \A f \in FactId : mapped[f] <= made
      BY <1>3 DEF ProcessShape
    <3>2. e <= made
      BY <1>4
    <3> QED
      BY <1>2, <1>4, <3>1, <3>2
  <2>3. prev' \in Nat
    <3>1. sid \in live => fid \in Nat
      BY <1>10 DEF FactId
    <3> QED
      BY <1>2, <1>3, <3>1 DEF ProcessShape
  <2>4. event' \in [e : 0 .. made, body : 0 .. made, cause : {0} \cup FactId]
        /\ (pc' = "link" => event'.e # 0) /\ (pc' # "link" => event'.cause = 0)
    BY <1>1, <1>4, <1>6 DEF NoEvent, e
  <2>5. armed' \in BOOLEAN /\ pc' \in {"idle", "link"}
    BY <1>1, <1>2, <1>3 DEF ProcessShape
  <2> QED
    BY <1>1, <1>3, <2>1, <2>2, <2>3, <2>4, <2>5 DEF ProcessShape
<1>16. QuotaShape'
  <2>1. faults' \in 0 .. MaxFaults
    BY <1>2, <1>3 DEF QuotaShape, NoFault, Fault
  <2> QED
    BY <1>1, <1>3, <2>1 DEF QuotaShape, DropsAccounted
<1>17. CausesInv'
  <2>1. \A c : Here(c) => Here(c)'
    BY <1>1, <1>12 DEF Here
  <2>2. CauseIsEarlier'
    <3>1. ASSUME NEW i \in DOMAIN facts', facts'[i].v.cause # 0
          PROVE  facts'[i].v.cause < i /\ facts'[facts'[i].v.cause].s = facts'[i].s
      <4>1. CASE i \in DOMAIN facts
        <5>1. facts'[i] = facts[i]
          BY <1>12, <4>1
        <5>2. facts[i].v.cause < i /\ facts[facts[i].v.cause].s = facts[i].s
          BY <1>3, <3>1, <4>1, <5>1 DEF CausesInv, CauseIsEarlier
        <5>3. facts[i].v.cause \in {0} \cup FactId
          BY <1>3, <4>1, FactsAreTyped DEF Cached
        <5>4. facts[i].v.cause \in DOMAIN facts
          BY <1>9, <3>1, <4>1, <5>1, <5>2, <5>3 DEF FactId
        <5> QED
          BY <1>12, <5>1, <5>2, <5>4
      <4>2. CASE sid \in live /\ facts' = gs /\ i = Len(gs)
        <5>1. facts'[i].v.cause = prev /\ facts'[i].s = sid /\ i = Len(facts) + 1
          BY <1>7, <1>8, <1>10, <4>2
        <5>2. prev \in DOMAIN facts /\ facts'[prev].s = sid
          BY <1>6, <1>12, <3>1, <5>1
        <5> QED
          BY <1>9, <5>1, <5>2
      <4> QED
        BY <1>12, <4>1, <4>2
    <3> QED
      BY <3>1 DEF CauseIsEarlier
  <2>3. ASSUME NEW m \in EventId, Here(cache[m].cause) \/ m = e
        PROVE  Here(cache[m].cause)'
    <3>1. cache'[m] = IF m = e THEN v ELSE cache[m]
      BY <1>1, <1>3, <1>4 DEF ProcessShape
    <3> QED
      BY <1>5, <1>7, <2>1, <2>3, <3>1
  <2>4. Sourced(prev)
    BY <1>3 DEF CausesInv
  <2>5. ASSUME NEW c \in FactId, sid \in live PROVE [mapped EXCEPT ![fid] = e][c] \in {mapped[c], e}
    BY <1>3, <2>5 DEF ProcessShape
  <2>6. ASSUME NEW c, c = prev PROVE Sourced(c)'
    <3>1. Here(c)'
      BY <1>5, <2>1, <2>6
    <3>2. CASE c = 0
      BY <3>1, <3>2 DEF Sourced
    <3>3. CASE c # 0 /\ mapped'[c] # 0
      <4>1. c \in FactId /\ mapped'[c] \in {mapped[c], e}
        BY <1>2, <1>6, <2>5, <2>6, <3>3
      <4>2. mapped'[c] \in EventId
        BY <1>3, <1>4, <3>3, <4>1 DEF ProcessShape
      <4>3. PICK m \in EventId : m = mapped'[c]
        BY <4>2
      <4>4. Here(cache[m].cause) \/ m = e
        BY <2>4, <2>6, <3>3, <4>1, <4>3 DEF Sourced
      <4>5. Here(cache[m].cause)'
        BY <2>3, <4>4
      <4> QED
        BY <3>1, <4>3, <4>5 DEF Sourced
    <3> QED
      BY <3>1, <3>2, <3>3 DEF Sourced
  <2>7. ASSUME NEW c, c = prev' PROVE Sourced(c)'
    <3>1. CASE prev' = prev
      BY <2>6, <2>7, <3>1
    <3>2. CASE sid \in live /\ facts' = gs /\ mapped' = [mapped EXCEPT ![fid] = e] /\ prev' = fid
      <4>1. fid \in FactId /\ mapped'[fid] = e
        BY <1>3, <1>10, <3>2 DEF ProcessShape
      <4>2. Here(c)'
        BY <1>1, <1>10, <2>7, <3>2 DEF Here
      <4>3. PICK m \in EventId : m = e
        BY <1>4
      <4>4. Here(cache[m].cause)'
        BY <2>3, <4>3
      <4>5. mapped'[c] = m
        BY <2>7, <3>2, <4>1, <4>3
      <4> QED
        BY <4>2, <4>4, <4>5 DEF Sourced
    <3> QED
      BY <1>2, <3>1, <3>2
  <2>8. event'.cause \in {0, prev} /\ (pc' = "link" => event'.cause # 0)
    BY <1>1, <1>4 DEF NoEvent
  <2>9. sid = 0 => \A m \in EventId : cache'[m].cause = 0
    <3>1. sid = 0 => v.cause = 0
      BY <1>6, <1>7
    <3> QED
      BY <1>1, <1>3, <3>1 DEF CausesInv, ProcessShape
  <2>10. \A c \in {0, prev, prev'} : Sourced(c)'
    <3>1. Sourced(0)'
      BY DEF Sourced, Here
    <3> QED
      BY <2>6, <2>7, <3>1
  <2> QED
    BY <1>1, <1>3, <2>2, <2>8, <2>9, <2>10 DEF CausesInv

<1>18. BodiesInv'
  <2>1. /\ \A i \in DOMAIN facts : facts[i].v.body <= made /\ facts[i].v.body # made
        /\ \A k \in EventId : cache[k].body <= made /\ cache[k].body # made
    BY <1>1, <1>3 DEF BodiesInv
  <2>2. \A k \in EventId : cache'[k] = IF k = e THEN v ELSE cache[k]
    BY <1>1, <1>3, <1>4 DEF ProcessShape
  <2>3. ASSUME NEW i \in DOMAIN facts
        PROVE  LET f == facts[i]
                   u == Latest(facts', f.s, f.e)
               IN /\ f.v.body = u.body => f.v.effects \subseteq u.effects
                  /\ f.v.body = cache'[f.e].body =>
                       sid # 0 /\ (f.s = sid => f.v.effects \subseteq cache'[f.e].effects)
    <3> DEFINE f == facts[i]
               u == Latest(facts', f.s, f.e)
    <3>1. /\ f.v.body = Latest(facts, f.s, f.e).body => f.v.effects \subseteq Latest(facts, f.s, f.e).effects
          /\ f.v.body = cache[f.e].body => sid # 0 /\ (f.s = sid => f.v.effects \subseteq cache[f.e].effects)
      BY <1>3 DEF BodiesInv
    <3>2. f.v.body # made /\ f.e \in EventId /\ Versions(facts, f.s, f.e) # {}
      BY <1>9, <2>1
    <3>3. u = Latest(facts, f.s, f.e) \/ u.body = made
      <4>1. CASE facts' = facts
        BY <4>1
      <4>2. CASE sid \in live /\ facts' = gs
        BY <1>7, <1>10, <3>2, <4>2
      <4> QED
        BY <1>2, <4>1, <4>2
    <3>4. cache'[f.e] = cache[f.e] \/ cache'[f.e].body = made
      BY <1>7, <2>2, <3>2
    <3> QED
      BY <3>1, <3>2, <3>3, <3>4
  <2>4. ASSUME NEW i \in DOMAIN facts'
        PROVE  LET f == facts'[i]
                   u == Latest(facts', f.s, f.e)
               IN /\ f.v.body <= made
                  /\ f.v.body = u.body => f.v.effects \subseteq u.effects
                  /\ f.v.body = cache'[f.e].body =>
                       sid # 0 /\ (f.s = sid => f.v.effects \subseteq cache'[f.e].effects)
    <3>1. CASE i \in DOMAIN facts
      <4>1. facts'[i] = facts[i]
        BY <1>12, <3>1
      <4> QED
        BY <2>1, <2>3, <3>1, <4>1
    <3>2. CASE sid \in live /\ facts' = gs /\ i = Len(gs)
      <4>1. facts'[i] = x /\ x.s = sid /\ x.e = e /\ x.v = v /\ sid # 0
        BY <1>8, <1>10, <3>2
      <4>2. Latest(facts', sid, e) = v
        BY <1>10, <3>2
      <4>3. cache'[e] = v /\ v.body <= made
        BY <1>4, <1>7, <2>2
      <4> QED
        BY <4>1, <4>2, <4>3
    <3> QED
      BY <1>12, <3>1, <3>2
  <2>5. ASSUME NEW k \in EventId PROVE cache'[k].body <= made
    <3>1. v.body <= made
      BY <1>4, <1>7
    <3> QED
      BY <2>1, <2>2, <3>1
  <2>6. made' = made /\ sid' = sid /\ pc' \notin {"ensure", "write"}
    BY <1>1
  <2>7. \A s, k : Latest(facts, s, k)' = Latest(facts', s, k)
    BY DEF Latest, Versions
  <2> QED
    BY <2>4, <2>5, <2>6, <2>7 DEF BodiesInv
<1>19. ASSUME Calm' PROVE OneSession' /\ \E n \in Nat : Chained(n)'
  <2>1. ~Fault /\ Calm
    BY <1>1, <1>2, <1>3, <1>19 DEF Calm, Fault, NoFault, QuotaShape
  <2>2. OneSession /\ sid = 1 /\ sid \in live
    <3>1. OneSession /\ minted = 1 /\ sid = 1 /\ live = 1 .. 1
      BY <1>1, <1>3, <2>1 DEF WalkInv, OneSession
    <3> QED
      BY <3>1
  <2>3. PICK n \in Nat : Chained(n)
    BY <1>3, <2>1 DEF WalkInv
  <2>4. facts' = gs /\ mapped' = [mapped EXCEPT ![fid] = e] /\ prev' = fid /\ UNCHANGED armed
    BY <1>2, <2>1, <2>2
  <2>5. OneSession'
    <3>1. minted # 0 /\ pc' # "ensure" /\ pc' # "start"
      BY <1>1, <2>2 DEF OneSession
    <3> QED
      BY <1>1, <2>2, <2>4, <3>1 DEF OneSession
  <2>6. /\ Cursor(prev, e - 1) /\ seq = e /\ e \in {n, n + 1} /\ e \in Nat /\ e # 0
        /\ prev # 0 => /\ prev \in DOMAIN facts /\ facts[prev].e = e - 1 /\ mapped[prev] = e - 1 /\ e - 1 # 0
                        /\ cache[e - 1] = Latest(facts, 1, e - 1)
        /\ prev = 0 => e = 1
    <3>1. Cursor(prev, event.e - 1) /\ seq = event.e /\ event.e \in {n, n + 1}
      BY <1>1, <2>3 DEF Chained
    <3>2. event.e \in Nat /\ event.e # 0
      BY <1>4 DEF e
    <3>3. CASE event.e = 1
      BY <1>6, <3>1, <3>2, <3>3 DEF Cursor, e
    <3>4. CASE event.e # 1
      <4>1. event.e - 1 # 0
        BY <3>2, <3>4
      <4>2. prev \in DOMAIN facts /\ prev # 0
        BY <1>9, <3>1, <4>1 DEF Cursor
      <4> QED
        BY <3>1, <3>2, <4>1, <4>2 DEF Cursor, e
    <3> QED
      BY <3>3, <3>4
  <2>7. /\ \A i \in DOMAIN facts :
             /\ facts[i].s = 1 /\ facts[i].e \in 1 .. n
             /\ facts[i].v.cause # 0 => facts[facts[i].v.cause].e + 1 = facts[i].e
        /\ \A k \in 1 .. n : Versions(facts, 1, k) # {}
        /\ \A k \in 1 .. n : k + 1 \in 1 .. n => k + 1 \in Latest(facts, 1, k).effects
    BY <1>1, <2>3 DEF Chained
  <2>8. ASSUME NEW i \in DOMAIN facts'
        PROVE  /\ facts'[i].s = 1 /\ facts'[i].e \in 1 .. e
               /\ facts'[i].v.cause # 0 => facts'[facts'[i].v.cause].e + 1 = facts'[i].e
    <3>1. CASE i \in DOMAIN facts
      <4>1. facts'[i] = facts[i]
        BY <1>12, <3>1
      <4>2. facts[i].v.cause # 0 => facts[i].v.cause \in DOMAIN facts
        <5>1. facts[i].v.cause # 0 => facts[i].v.cause < i /\ facts[i].v.cause \in FactId
          BY <1>3, <3>1, FactsAreTyped DEF CausesInv, CauseIsEarlier, Cached
        <5> QED
          BY <1>9, <3>1, <5>1 DEF FactId
      <4>3. 1 .. n \subseteq 1 .. e
        BY <2>6
      <4> QED
        BY <1>12, <2>7, <3>1, <4>1, <4>2, <4>3
    <3>2. CASE i = Len(gs)
      <4>1. facts'[i].s = 1 /\ facts'[i].e = e /\ facts'[i].v.cause = prev
        BY <1>7, <1>8, <1>10, <2>2, <2>4, <3>2
      <4>2. prev # 0 => facts'[prev].e = e - 1
        BY <1>12, <2>6
      <4> QED
        BY <2>6, <4>1, <4>2
    <3> QED
      BY <1>12, <3>1, <3>2
  <2>9. ASSUME NEW k \in 1 .. e PROVE Versions(facts', 1, k) # {}
    <3>1. CASE k = e
      BY <1>10, <2>2, <2>4, <3>1
    <3>2. CASE k # e
      <4>1. k \in 1 .. n
        BY <2>6, <3>2
      <4> QED
        BY <1>10, <2>2, <2>4, <2>7, <4>1
    <3> QED
      BY <3>1, <3>2
  <2>10. ASSUME NEW k \in 1 .. e, k + 1 \in 1 .. e
         PROVE  k + 1 \in Latest(facts', 1, k).effects \/ (pc' = "link" /\ k + 1 = event'.e)
    <3>1. CASE k + 1 = e
      <4>1. prev # 0
        BY <2>6, <3>1
      <4>2. event'.e = e
        BY <1>1, <1>4, <4>1 DEF e
      <4> QED
        BY <1>1, <3>1, <4>1, <4>2
    <3>2. CASE k + 1 # e
      <4>1. k \in 1 .. n /\ k + 1 \in 1 .. n /\ k # e
        BY <2>6, <2>10, <3>2
      <4>2. Latest(facts', 1, k) = Latest(facts, 1, k)
        BY <1>10, <2>2, <2>4, <2>7, <4>1
      <4> QED
        BY <2>7, <4>1, <4>2
    <3> QED
      BY <3>1, <3>2
  <2>11. facts'[Len(facts')].e \in {e - 1, e}
    BY <1>8, <1>10, <2>2, <2>4
  <2>12. prev' \in DOMAIN facts' /\ facts'[prev'].e = e /\ mapped'[prev'] = e /\ cache'[e] = Latest(facts', 1, e)
    <3>1. fid \in FactId
      BY <1>10, <2>2
    <3>2. mapped'[fid] = e
      BY <1>3, <2>4, <3>1 DEF ProcessShape
    <3>3. cache'[e] = v
      BY <1>1, <1>3, <1>4 DEF ProcessShape
    <3> QED
      BY <1>10, <2>2, <2>4, <3>2, <3>3
  <2>13. ASSUME prev # 0
         PROVE  /\ prev \in DOMAIN facts' /\ facts'[prev].e = e - 1 /\ mapped'[prev] = e - 1 /\ e > 1
                /\ cache'[e - 1] = Latest(facts', 1, e - 1)
    <3>1. prev \in DOMAIN facts' /\ facts'[prev].e = e - 1 /\ e - 1 # e /\ e > 1
      BY <1>12, <2>6, <2>13
    <3>2. prev # fid
      BY <1>10, <2>2, <2>4, <3>1
    <3>3. mapped'[prev] = e - 1
      BY <1>3, <1>6, <2>4, <2>6, <2>13, <3>2 DEF ProcessShape
    <3>4. Latest(facts', 1, e - 1) = Latest(facts, 1, e - 1)
      <4>1. Versions(facts, 1, e - 1) # {}
        BY <1>9, <2>6, <2>7, <2>13
      <4> QED
        BY <1>10, <2>2, <2>4, <3>1, <4>1
    <3>5. cache'[e - 1] = cache[e - 1]
      <4>1. e - 1 \in EventId
        BY <1>9, <2>6, <2>13
      <4> QED
        BY <1>1, <1>3, <3>1, <4>1 DEF ProcessShape
    <3> QED
      BY <2>6, <2>13, <3>1, <3>3, <3>4, <3>5
  <2>14. \A s, k : Latest(facts, s, k)' = Latest(facts', s, k) /\ Versions(facts, s, k)' = Versions(facts', s, k)
    BY DEF Latest, Versions
  <2>15. \A p, k : Cursor(p, k)' <=> IF k = 0 THEN p = 0
                                     ELSE /\ p \in DOMAIN facts' /\ facts'[p].e = k
                                          /\ mapped'[p] = k /\ cache'[k] = Latest(facts', 1, k)
    BY <2>14 DEF Cursor
  <2>16. PICK m \in Nat : m = e
    BY <2>6
  <2>17. \A p : p = prev' => Cursor(p, m)'
    BY <2>6, <2>12, <2>15, <2>16
  <2>18. prev # 0 => \A p, k : p = prev /\ k = m - 1 => Cursor(p, k)'
    BY <2>6, <2>13, <2>15, <2>16
  <2>19. pc' = "idle" => Cursor(prev, seq)' /\ seq' \in {m - 1, m}
    <3>1. seq' = m
      BY <1>1, <2>6, <2>16
    <3>2. Cursor(prev, seq)'
      BY <2>6, <2>12, <2>15, <2>16, <3>1
    <3> QED
      BY <3>1, <3>2
  <2>20. pc' = "link" => /\ event'.e = m /\ m > 1 /\ seq' = m
                         /\ Cursor(prev, m)' /\ Cursor(event.cause, m - 1)'
    <3>1. SUFFICES ASSUME pc' = "link"
                   PROVE  /\ event'.e = m /\ m > 1 /\ seq' = m
                          /\ Cursor(prev, m)' /\ Cursor(event.cause, m - 1)'
      OBVIOUS
    <3>2. prev # 0 /\ event' = [event EXCEPT !.cause = prev]
      BY <1>1, <3>1
    <3>3. event'.e = m /\ event'.cause = prev
      BY <1>4, <2>16, <3>2 DEF e
    <3>4. m > 1 /\ seq' = m
      BY <1>1, <2>6, <2>13, <2>16, <3>2
    <3>5. Cursor(prev, m)'
      BY <2>17
    <3>6. Cursor(event.cause, m - 1)'
      BY <2>6, <2>13, <2>15, <2>16, <3>2, <3>3
    <3> QED
      BY <3>3, <3>4, <3>5, <3>6
  <2>21. Chained(m)'
    <3>1. pc' # "write"
      BY <1>1
    <3> QED
      BY <2>8, <2>9, <2>10, <2>11, <2>14, <2>16, <2>19, <2>20, <3>1 DEF Chained
  <2> QED
    BY <2>5, <2>21
<1> QED
  BY <1>13, <1>14, <1>15, <1>16, <1>17, <1>18, <1>19 DEF TrackIInv, RecordsInv, WalkInv

LEMMA LinkKeeps == TrackIInv /\ Link => TrackIInv'
<1> SUFFICES ASSUME TrackIInv, Link PROVE TrackIInv'
  OBVIOUS
<1> USE TrackAssumption
<1> DEFINE src == mapped[event.cause]
           v == [cache[src] EXCEPT !.effects = @ \cup {event.e}]
           x == [s |-> sid, e |-> src, v |-> v]
           gs == Append(facts, x)
<1>1. /\ pc = "link" /\ pc' = "idle" /\ event' = NoEvent
      /\ UNCHANGED <<live, minted, file, sid, mapped, seq, prev, armed, written, dropped, turn, tally,
                     owner, made, starts, torn>>
  BY DEF Link, quotaVars, runVars
<1>2. \/ /\ src # 0 /\ cache[src] # Absent
         /\ cache' = [cache EXCEPT ![src] = v]
         /\ \/ sid \in live /\ facts' = gs /\ NoFault
            \/ sid \notin live /\ facts' = facts /\ NoFault
            \/ sid \in live /\ facts' = facts /\ Fault
      \/ /\ src = 0 \/ cache[src] = Absent \/ event.e \in cache[src].effects
         /\ NoFault /\ UNCHANGED <<cache, facts>>
  BY DEF Link, Post
<1>3. FactShape /\ SessionShape /\ ProcessShape /\ CausesInv /\ BodiesInv /\ WalkInv /\ QuotaShape
  BY DEF TrackIInv, RecordsInv
<1>4. /\ DOMAIN facts = 1 .. Len(facts) /\ Len(facts) \in Nat /\ made \in Nat /\ made <= MaxEvents
      /\ \A i \in DOMAIN facts : i \in FactId /\ facts[i].e \in EventId /\ facts[i].s # 0
                                 /\ i \in Versions(facts, facts[i].s, facts[i].e)
                                 /\ facts[i].e <= made /\ facts[i].s <= minted
  <2>1. minted \in Nat /\ made \in Nat
    BY <1>3 DEF SessionShape, FactShape
  <2> QED
    BY <1>3, <2>1, FactsAreTyped
<1>5. event.cause # 0 /\ event.cause \in DOMAIN facts /\ facts[event.cause].s = sid /\ sid # 0
      /\ event.cause \in FactId
  BY <1>1, <1>3, <1>4 DEF CausesInv, Sourced, Here
<1>6. /\ src \in {0} \cup EventId /\ src <= made /\ event.e \in EventId /\ event.e # 0
      /\ src # 0 => Here(cache[src].cause)
  BY <1>1, <1>3, <1>4, <1>5 DEF ProcessShape, EventId, CausesInv, Sourced
<1>7. src # 0 /\ cache[src] # Absent =>
        /\ cache[src] \in Cached /\ v \in Cached
        /\ v.body = cache[src].body /\ v.cause = cache[src].cause
        /\ v.effects = cache[src].effects \cup {event.e}
  <2>1. src # 0 /\ cache[src] # Absent => cache[src] \in Cached
    BY <1>3, <1>6 DEF ProcessShape
  <2> QED
    BY <1>6, <2>1 DEF Cached
<1>8. sid \in live /\ src # 0 /\ cache[src] # Absent =>
        x \in Fact /\ x.s = sid /\ x.e = src /\ x.v = v
  <2>1. sid \in live => sid \in Session
    BY <1>3 DEF SessionShape, Session
  <2> QED
    BY <1>6, <1>7, <2>1 DEF Fact
<1> HIDE DEF src, v, x
<1>9. ASSUME sid \in live, src # 0, cache[src] # Absent
      PROVE  /\ gs \in Seq(Fact) /\ Len(gs) = Len(facts) + 1
             /\ \A i \in DOMAIN facts : i \in DOMAIN gs /\ gs[i] = facts[i]
             /\ gs[Len(gs)] = x /\ \A i \in DOMAIN gs : i \in DOMAIN facts \/ i = Len(gs)
             /\ Latest(gs, sid, src) = v
             /\ \A s, k : Versions(facts, s, k) \subseteq Versions(gs, s, k)
             /\ \A s, k : Versions(facts, s, k) # {} /\ ~(s = sid /\ k = src) =>
                  Latest(gs, s, k) = Latest(facts, s, k)
  <2>1. facts \in Seq(Fact) /\ x \in Fact
    BY <1>3, <1>8, <1>9 DEF FactShape
  <2>2. /\ gs \in Seq(Fact) /\ Len(gs) = Len(facts) + 1
        /\ \A i \in DOMAIN facts : i \in DOMAIN gs /\ gs[i] = facts[i]
        /\ gs[Len(gs)] = x /\ \A i \in DOMAIN gs : i \in DOMAIN facts \/ i = Len(gs)
        /\ Latest(gs, x.s, x.e) = x.v
        /\ \A s, k : Versions(facts, s, k) \subseteq Versions(gs, s, k)
        /\ \A s, k : Versions(facts, s, k) # {} /\ ~(s = x.s /\ k = x.e) =>
             Latest(gs, s, k) = Latest(facts, s, k)
    BY <2>1, PostedIsLatest, Zenon
  <2> QED
    BY <1>8, <1>9, <2>2
<1> HIDE DEF gs
<1> DEFINE posted == sid \in live /\ src # 0 /\ cache[src] # Absent /\ facts' = gs
<1>10. facts' = facts \/ posted
  BY <1>2
<1>11. /\ \A i \in DOMAIN facts : i \in DOMAIN facts' /\ facts'[i] = facts[i]
       /\ \A i \in DOMAIN facts' : i \in DOMAIN facts \/ (posted /\ i = Len(gs))
  BY <1>9, <1>10
<1>12. \A k \in EventId :
         \/ cache'[k] = cache[k]
         \/ k = src /\ src # 0 /\ cache[src] # Absent /\ cache'[k] = v
  BY <1>2, <1>3 DEF ProcessShape
<1>13. FactShape'
  <2>1. Due = 1 /\ Due' = 0
    BY <1>1 DEF Due
  <2>2. facts' \in Seq(Fact) /\ (Len(facts') = Len(facts) \/ Len(facts') = Len(facts) + 1)
    BY <1>3, <1>9, <1>10 DEF FactShape
  <2>3. Len(facts') + Due' <= 2 * made
    BY <1>3, <1>4, <2>1, <2>2 DEF FactShape
  <2>4. \A i \in DOMAIN facts' : facts'[i].e <= made /\ facts'[i].s <= minted
    <3>1. posted => x.e <= made /\ x.s <= minted
      BY <1>3, <1>6, <1>8 DEF SessionShape
    <3> QED
      BY <1>4, <1>9, <1>11, <3>1
  <2> QED
    BY <1>1, <1>3, <2>2, <2>3, <2>4 DEF FactShape
<1>14. SessionShape'
  BY <1>1, <1>3 DEF SessionShape
<1>15. ProcessShape'
  <2>1. cache' \in [EventId -> Cached \cup {Absent}]
    BY <1>2, <1>3, <1>7 DEF ProcessShape
  <2>2. event' \in [e : 0 .. made, body : 0 .. made, cause : {0} \cup FactId] /\ event'.cause = 0
    BY <1>1, <1>4 DEF NoEvent
  <2> QED
    BY <1>1, <1>3, <2>1, <2>2 DEF ProcessShape
<1>16. QuotaShape'
  <2>1. faults' \in 0 .. MaxFaults
    BY <1>2, <1>3 DEF QuotaShape, NoFault, Fault
  <2> QED
    BY <1>1, <1>3, <2>1 DEF QuotaShape, DropsAccounted
<1>17. CausesInv'
  <2>1. \A c : Here(c) => Here(c)'
    BY <1>1, <1>11 DEF Here
  <2>2. CauseIsEarlier'
    <3>1. ASSUME NEW i \in DOMAIN facts', facts'[i].v.cause # 0
          PROVE  facts'[i].v.cause < i /\ facts'[facts'[i].v.cause].s = facts'[i].s
      <4>1. CASE i \in DOMAIN facts
        <5>1. facts'[i] = facts[i]
          BY <1>11, <4>1
        <5>2. facts[i].v.cause < i /\ facts[facts[i].v.cause].s = facts[i].s
          BY <1>3, <3>1, <4>1, <5>1 DEF CausesInv, CauseIsEarlier
        <5>3. facts[i].v.cause \in {0} \cup FactId
          BY <1>3, <4>1, FactsAreTyped DEF Cached
        <5>4. facts[i].v.cause \in DOMAIN facts
          BY <1>4, <3>1, <4>1, <5>1, <5>2, <5>3 DEF FactId
        <5> QED
          BY <1>11, <5>1, <5>2, <5>4
      <4>2. CASE posted /\ i = Len(gs)
        <5>1. facts'[i].v.cause = cache[src].cause /\ facts'[i].s = sid /\ i = Len(facts) + 1
          BY <1>7, <1>8, <1>9, <4>2
        <5>2. cache[src].cause \in DOMAIN facts /\ facts[cache[src].cause].s = sid
          BY <1>6, <3>1, <4>2, <5>1 DEF Here
        <5> QED
          BY <1>4, <1>11, <5>1, <5>2
      <4> QED
        BY <1>11, <4>1, <4>2
    <3> QED
      BY <3>1 DEF CauseIsEarlier
  <2>3. \A k \in EventId : cache'[k].cause = cache[k].cause
    BY <1>7, <1>12
  <2>4. ASSUME NEW c, Sourced(c), c = prev PROVE Sourced(c)'
    <3>1. Here(c)'
      BY <2>1, <2>4 DEF Sourced
    <3>2. c # 0 => c \in FactId
      BY <1>4, <2>4 DEF Sourced, Here
    <3>3. CASE c # 0 /\ mapped[c] # 0
      <4>1. PICK k \in EventId : k = mapped[c]
        BY <1>3, <3>2, <3>3 DEF ProcessShape
      <4>2. Here(cache[k].cause)'
        <5>1. PICK d : d = cache[k].cause
          OBVIOUS
        <5>2. Here(d)' /\ cache'[k].cause = d
          BY <2>1, <2>3, <2>4, <3>3, <4>1, <5>1 DEF Sourced
        <5> QED
          BY <5>2 DEF Here
      <4> QED
        BY <1>1, <3>1, <4>1, <4>2 DEF Sourced
    <3> QED
      BY <1>1, <3>1, <3>3 DEF Sourced
  <2>5. \A c \in {prev', event'.cause} : Sourced(c)'
    <3>1. Sourced(prev)
      BY <1>3 DEF CausesInv
    <3>2. \A c : c = 0 => Sourced(c)'
      BY DEF Sourced, Here
    <3>3. event'.cause = 0 /\ prev' = prev
      BY <1>1 DEF NoEvent
    <3> QED
      BY <2>4, <3>1, <3>2, <3>3
  <2> QED
    BY <1>1, <1>3, <1>5, <2>2, <2>5 DEF CausesInv
<1>18. BodiesInv'
  <2>1. /\ \A i \in DOMAIN facts : facts[i].v.body <= made
        /\ \A k \in EventId : cache[k].body <= made /\ cache'[k].body = cache[k].body
    BY <1>3, <1>7, <1>12 DEF BodiesInv
  <2>2. \A k \in EventId : cache[k].effects \subseteq cache'[k].effects
    BY <1>7, <1>12
  <2>3. ASSUME NEW i \in DOMAIN facts
        PROVE  LET f == facts[i]
                   u == Latest(facts', f.s, f.e)
               IN /\ f.v.body = u.body => f.v.effects \subseteq u.effects
                  /\ f.v.body = cache'[f.e].body =>
                       sid # 0 /\ (f.s = sid => f.v.effects \subseteq cache'[f.e].effects)
    <3> DEFINE f == facts[i]
               u == Latest(facts', f.s, f.e)
    <3>1. /\ f.v.body = Latest(facts, f.s, f.e).body => f.v.effects \subseteq Latest(facts, f.s, f.e).effects
          /\ f.v.body = cache[f.e].body => sid # 0 /\ (f.s = sid => f.v.effects \subseteq cache[f.e].effects)
      BY <1>3 DEF BodiesInv
    <3>2. f.e \in EventId /\ Versions(facts, f.s, f.e) # {}
      BY <1>4
    <3>3. u = Latest(facts, f.s, f.e) \/ (posted /\ f.s = sid /\ f.e = src /\ u = v)
      BY <1>9, <1>10, <3>2
    <3>4. posted => v.body = cache[src].body /\ cache[src].effects \subseteq v.effects
      BY <1>7
    <3> HIDE DEF u
    <3>5. f.v.body = u.body => f.v.effects \subseteq u.effects
      BY <3>1, <3>3, <3>4
    <3> QED
      BY <2>1, <2>2, <3>1, <3>2, <3>5 DEF u
  <2>4. ASSUME NEW i \in DOMAIN facts'
        PROVE  LET f == facts'[i]
                   u == Latest(facts', f.s, f.e)
               IN /\ f.v.body <= made
                  /\ f.v.body = u.body => f.v.effects \subseteq u.effects
                  /\ f.v.body = cache'[f.e].body =>
                       sid # 0 /\ (f.s = sid => f.v.effects \subseteq cache'[f.e].effects)
    <3>1. CASE i \in DOMAIN facts
      <4>1. facts'[i] = facts[i]
        BY <1>11, <3>1
      <4> QED
        BY <2>1, <2>3, <3>1, <4>1
    <3>2. CASE posted /\ i = Len(gs)
      <4>1. facts'[i] = x /\ x.s = sid /\ x.e = src /\ x.v = v
        BY <1>8, <1>9, <3>2
      <4>2. Latest(facts', sid, src) = v
        BY <1>9, <3>2
      <4>3. cache'[src] = v \/ (cache'[src] = cache[src] /\ event.e \in cache[src].effects)
        BY <1>2, <1>3, <1>6, <3>2 DEF ProcessShape
      <4>4. v.effects \subseteq cache'[src].effects /\ v.body <= made
        BY <1>6, <1>7, <2>1, <3>2, <4>3
      <4> QED
        BY <1>5, <4>1, <4>2, <4>4
    <3> QED
      BY <1>11, <3>1, <3>2
  <2>5. made' = made /\ sid' = sid /\ pc' \notin {"ensure", "write"}
    BY <1>1
  <2>6. \A s, k : Latest(facts, s, k)' = Latest(facts', s, k)
    BY DEF Latest, Versions
  <2> QED
    BY <2>1, <2>4, <2>5, <2>6 DEF BodiesInv
<1>19. ASSUME Calm' PROVE OneSession' /\ \E n \in Nat : Chained(n)'
  <2>1. ~Fault /\ Calm
    BY <1>1, <1>2, <1>3, <1>19 DEF Calm, Fault, NoFault, QuotaShape
  <2>2. OneSession /\ sid = 1 /\ sid \in live
    <3>1. OneSession /\ minted = 1 /\ sid = 1 /\ live = 1 .. 1
      BY <1>1, <1>3, <2>1 DEF WalkInv, OneSession
    <3> QED
      BY <3>1
  <2>3. OneSession'
    <3>1. minted # 0 /\ pc' # "ensure" /\ pc' # "start"
      BY <1>1, <2>2 DEF OneSession
    <3> QED
      BY <1>1, <2>2, <3>1 DEF OneSession
  <2>4. PICK n \in Nat : Chained(n)
    BY <1>3, <2>1 DEF WalkInv
  <2>5. /\ \A i \in DOMAIN facts :
             /\ facts[i].s = 1 /\ facts[i].e \in 1 .. n
             /\ facts[i].v.cause # 0 => facts[facts[i].v.cause].e + 1 = facts[i].e
        /\ \A k \in 1 .. n : Versions(facts, 1, k) # {}
        /\ \A k \in 1 .. n : k + 1 \in 1 .. n => k + 1 \in Latest(facts, 1, k).effects \/ k + 1 = n
        /\ event.e = n /\ n > 1 /\ seq = n /\ Cursor(prev, n) /\ Cursor(event.cause, n - 1)
    BY <1>1, <2>4 DEF Chained
  <2>6. /\ prev \in DOMAIN facts /\ facts[prev].e = n /\ mapped[prev] = n /\ cache[n] = Latest(facts, 1, n)
        /\ src = n - 1 /\ src # 0 /\ src \in EventId /\ cache[src] = Latest(facts, 1, src)
        /\ src \in 1 .. n /\ src + 1 = n /\ n \in 1 .. n /\ n \in EventId
    <3>1. n # 0 /\ n - 1 # 0 /\ n - 1 \in 1 .. n /\ (n - 1) + 1 = n /\ n \in 1 .. n
      BY <2>5
    <3>2. prev \in DOMAIN facts /\ facts[prev].e = n /\ mapped[prev] = n /\ cache[n] = Latest(facts, 1, n)
      BY <2>5, <3>1 DEF Cursor
    <3>3. src = n - 1 /\ cache[n - 1] = Latest(facts, 1, n - 1)
      BY <2>5, <3>1 DEF Cursor, src
    <3>4. src \in EventId
      BY <1>6, <3>1, <3>3
    <3> QED
      BY <1>4, <3>1, <3>2, <3>3, <3>4
  <2>7. PICK h \in DOMAIN facts : facts[h].e = src /\ facts[h].v = cache[src]
    <3>1. facts \in Seq(Fact) /\ Versions(facts, 1, src) # {}
      BY <1>3, <2>5, <2>6 DEF FactShape
    <3> QED
      BY <2>6, <3>1, VersionsShape
  <2>8. cache[src] # Absent
    <3>1. cache[src].body # 0
      BY <1>3, <2>7, FactsAreTyped DEF Cached
    <3> QED
      BY <3>1 DEF Absent
  <2>9. \/ facts' = gs /\ cache' = [cache EXCEPT ![src] = v]
        \/ facts' = facts /\ cache' = cache /\ n \in cache[src].effects
    BY <1>2, <2>1, <2>2, <2>5, <2>6, <2>8
  <2>10. /\ Latest(facts', 1, src) = cache'[src] /\ n \in cache'[src].effects
         /\ \A k \in 1 .. n : k # src => Latest(facts', 1, k) = Latest(facts, 1, k)
         /\ \A k \in 1 .. n : Versions(facts', 1, k) # {}
         /\ cache'[n] = cache[n]
    <3>1. CASE facts' = gs /\ cache' = [cache EXCEPT ![src] = v]
      <4>1. cache'[src] = v /\ cache'[n] = cache[n]
        BY <1>3, <2>6, <3>1 DEF ProcessShape
      <4>2. n \in v.effects
        BY <1>7, <2>5, <2>6, <2>8
      <4> QED
        BY <1>9, <2>2, <2>5, <2>6, <2>8, <3>1, <4>1, <4>2
    <3>2. CASE facts' = facts /\ cache' = cache /\ n \in cache[src].effects
      BY <2>5, <2>6, <3>2
    <3> QED
      BY <2>9, <3>1, <3>2
  <2>11. ASSUME NEW i \in DOMAIN facts'
         PROVE  /\ facts'[i].s = 1 /\ facts'[i].e \in 1 .. n
                /\ facts'[i].v.cause # 0 => facts'[facts'[i].v.cause].e + 1 = facts'[i].e
    <3>1. ASSUME NEW j \in DOMAIN facts, facts[j].v.cause # 0
          PROVE  facts'[facts[j].v.cause].e + 1 = facts[j].e
      <4>1. facts[j].v.cause < j /\ facts[j].v.cause \in FactId
        BY <1>3, <3>1, FactsAreTyped DEF CausesInv, CauseIsEarlier, Cached
      <4>2. facts[j].v.cause \in DOMAIN facts
        BY <1>4, <4>1 DEF FactId
      <4> QED
        BY <1>11, <2>5, <3>1, <4>2
    <3>2. CASE i \in DOMAIN facts
      BY <1>11, <2>5, <3>1, <3>2
    <3>3. CASE posted /\ i = Len(gs)
      <4>1. facts'[i].s = 1 /\ facts'[i].e = src /\ facts'[i].v.cause = facts[h].v.cause
        BY <1>7, <1>8, <1>9, <2>2, <2>7, <3>3
      <4> QED
        BY <2>6, <2>7, <3>1, <4>1
    <3> QED
      BY <1>11, <3>2, <3>3
  <2>12. ASSUME NEW k \in 1 .. n, k + 1 \in 1 .. n
         PROVE  k + 1 \in Latest(facts', 1, k).effects
    <3>1. CASE k = src
      BY <2>6, <2>10, <3>1
    <3>2. CASE k # src
      <4>1. k + 1 # n
        BY <2>6, <3>2
      <4> QED
        BY <2>5, <2>10, <2>12, <3>2, <4>1
    <3> QED
      BY <3>1, <3>2
  <2>13. facts' # << >> => facts'[Len(facts')].e \in {n - 1, n}
    <3>1. CASE facts' = gs
      BY <1>8, <1>9, <2>2, <2>6, <2>8, <3>1
    <3>2. CASE facts' = facts
      BY <2>4, <3>2 DEF Chained
    <3> QED
      BY <2>9, <3>1, <3>2
  <2>14. \A s, k : Latest(facts, s, k)' = Latest(facts', s, k) /\ Versions(facts, s, k)' = Versions(facts', s, k)
    BY DEF Latest, Versions
  <2>15. Cursor(prev, seq)' /\ seq' \in {n - 1, n}
    <3>1. seq' = n /\ prev' = prev /\ mapped' = mapped
      BY <1>1, <2>5
    <3>2. prev \in DOMAIN facts' /\ facts'[prev].e = n /\ mapped[prev] = n
      BY <1>11, <2>6
    <3>3. cache'[n] = Latest(facts', 1, n)
      <4>1. n # src
        BY <2>6
      <4> QED
        BY <2>6, <2>10, <4>1
    <3>4. \A p, k : Cursor(p, k)' <=> IF k = 0 THEN p = 0
                                      ELSE /\ p \in DOMAIN facts' /\ facts'[p].e = k
                                           /\ mapped'[p] = k /\ cache'[k] = Latest(facts', 1, k)
      BY <2>14 DEF Cursor
    <3>5. \A p, k : p = prev /\ k = n => Cursor(p, k)'
      BY <2>6, <3>1, <3>2, <3>3, <3>4
    <3> QED
      BY <3>1, <3>4, <3>5
  <2>16. Chained(n)'
    <3>1. pc' = "idle"
      BY <1>1
    <3> QED
      BY <2>10, <2>11, <2>12, <2>13, <2>14, <2>15, <3>1 DEF Chained
  <2> QED
    BY <2>3, <2>16
<1> QED
  BY <1>13, <1>14, <1>15, <1>16, <1>17, <1>18, <1>19 DEF TrackIInv, RecordsInv, WalkInv

LEMMA SessionDiesKeeps == TrackIInv /\ SessionDies => TrackIInv'
<1> SUFFICES ASSUME TrackIInv, SessionDies PROVE TrackIInv'
  OBVIOUS
<1> USE TrackAssumption
<1>1. /\ Fault /\ live' \subseteq live
      /\ UNCHANGED <<facts, minted, file, sid, cache, mapped, seq, prev, written, dropped, turn, tally,
                     armed, event, pc, owner, made, starts, torn>>
  BY DEF SessionDies, storeVars, quotaVars, runVars
<1>2. FactShape /\ SessionShape /\ ProcessShape /\ CausesInv /\ BodiesInv /\ WalkInv /\ QuotaShape
  BY DEF TrackIInv, RecordsInv
<1>3. FactShape' /\ SessionShape' /\ ProcessShape'
  BY <1>1, <1>2 DEF FactShape, Due, SessionShape, ProcessShape
<1>4. CausesInv'
  <2>1. \A c : Sourced(c)' <=> Sourced(c)
    BY <1>1 DEF Sourced, Here
  <2>2. CauseIsEarlier'
    BY <1>1, <1>2 DEF CausesInv, CauseIsEarlier
  <2> QED
    BY <1>1, <1>2, <2>1, <2>2 DEF CausesInv
<1>5. BodiesInv'
  <2>1. \A s, e : Latest(facts, s, e)' = Latest(facts, s, e)
    BY <1>1 DEF Latest, Versions
  <2> QED
    BY <1>1, <1>2, <2>1 DEF BodiesInv
<1>6. faults' # 0 /\ QuotaShape'
  BY <1>1, <1>2 DEF QuotaShape, DropsAccounted, Fault
<1>7. WalkInv'
  BY <1>6 DEF WalkInv, Calm
<1> QED
  BY <1>3, <1>4, <1>5, <1>6, <1>7 DEF TrackIInv, RecordsInv

LEMMA RestartKeeps == TrackIInv /\ Restart => TrackIInv'
<1> SUFFICES ASSUME TrackIInv, Restart PROVE TrackIInv'
  OBVIOUS
<1> USE TrackAssumption
<1>1. /\ starts < MaxStarts /\ starts' = starts + 1 /\ torn' = (torn \/ pc \notin {"start", "idle"})
      /\ sid' = 0 /\ cache' = [e \in EventId |-> Absent] /\ mapped' = [f \in FactId |-> 0]
      /\ seq' = 0 /\ prev' = 0 /\ written' = 0 /\ dropped' = 0 /\ turn' = 0 /\ tally' = NoTally
      /\ armed' = FALSE /\ event' = NoEvent /\ pc' = "start"
      /\ UNCHANGED <<facts, live, minted, file, owner, made, faults>>
  BY DEF Restart, Fresh, NoFault, engineVars
<1>2. FactShape /\ SessionShape /\ ProcessShape /\ CausesInv /\ BodiesInv /\ WalkInv /\ QuotaShape
  BY DEF TrackIInv, RecordsInv
<1>3. FactShape' /\ SessionShape'
  <2>1. Due \in Nat /\ Due' = 0 /\ Len(facts) \in Nat /\ made \in Nat
    BY <1>1, <1>2 DEF Due, FactShape
  <2>2. Len(facts) + Due' <= 2 * made
    BY <1>2, <2>1 DEF FactShape
  <2>3. FactShape'
    BY <1>1, <1>2, <2>2 DEF FactShape
  <2>4. SessionShape'
    BY <1>1, <1>2 DEF SessionShape
  <2> QED
    BY <2>3, <2>4
<1>4. ProcessShape'
  <2>1. made \in Nat /\ 0 \in 0 .. made
    BY <1>2 DEF FactShape
  <2>2. /\ cache' \in [EventId -> Cached \cup {Absent}] /\ mapped' \in [FactId -> {0} \cup EventId]
        /\ \A f \in FactId : mapped'[f] <= made
    BY <1>1, <2>1
  <2>3. event' \in [e : 0 .. made, body : 0 .. made, cause : {0} \cup FactId] /\ event'.cause = 0
    BY <1>1, <2>1 DEF NoEvent
  <2> QED
    BY <1>1, <2>1, <2>2, <2>3 DEF ProcessShape
<1>5. QuotaShape'
  BY <1>1, <1>2 DEF QuotaShape, DropsAccounted, NoTally
<1>6. CausesInv'
  <2>1. CauseIsEarlier'
    BY <1>1, <1>2 DEF CausesInv, CauseIsEarlier
  <2>2. \A c : c = 0 => Sourced(c)'
    BY DEF Sourced, Here
  <2>3. \A e \in EventId : cache'[e].cause = 0
    BY <1>1 DEF Absent
  <2> QED
    BY <1>1, <2>1, <2>2, <2>3 DEF CausesInv, NoEvent
<1>7. BodiesInv'
  <2>1. \A i \in DOMAIN facts : facts[i].e \in EventId /\ facts[i].v.body # 0
    BY <1>2, FactsAreTyped DEF Cached
  <2>2. \A e \in EventId : cache'[e].body = 0
    BY <1>1 DEF Absent
  <2>3. \A s, e : Latest(facts, s, e)' = Latest(facts, s, e)
    BY <1>1 DEF Latest, Versions
  <2>4. made \in Nat
    BY <1>2 DEF FactShape
  <2> QED
    BY <1>1, <1>2, <2>1, <2>2, <2>3, <2>4 DEF BodiesInv
<1>8. ASSUME Calm' PROVE OneSession' /\ \E n \in Nat : Chained(n)'
  <2>1. pc \in {"start", "idle"} /\ ~torn /\ faults = 0 /\ owner = "mcp"
    <3>1. starts \in Nat /\ starts # 0 /\ faults' = faults
      BY <1>1, <1>2 DEF QuotaShape
    <3>2. starts' # 1
      BY <1>1, <3>1
    <3> QED
      BY <1>1, <1>8, <3>1, <3>2 DEF Calm
  <2>2. OneSession
    BY <1>2, <2>1 DEF WalkInv, Calm
  <2>3. PICK n \in Nat : Chained(n)
    BY <1>2, <2>1 DEF WalkInv, Calm
  <2>4. OneSession'
    BY <1>1, <2>1, <2>2 DEF OneSession
  <2>5. \A s, e : Latest(facts, s, e)' = Latest(facts, s, e) /\ Versions(facts, s, e)' = Versions(facts, s, e)
    BY <1>1 DEF Latest, Versions
  <2>6. Chained(n)'
    BY <1>1, <2>1, <2>3, <2>5 DEF Chained
  <2> QED
    BY <2>4, <2>6
<1> QED
  BY <1>3, <1>4, <1>5, <1>6, <1>7, <1>8 DEF TrackIInv, RecordsInv, WalkInv

LEMMA TrackIInvInit == TrackInit => TrackIInv
<1> SUFFICES ASSUME TrackInit PROVE TrackIInv
  OBVIOUS
<1> USE TrackAssumption
<1>1. /\ owner \in {"mcp", "runner"} /\ facts = << >> /\ live = {} /\ minted = 0 /\ file = 0
      /\ sid = 0 /\ cache = [e \in EventId |-> Absent] /\ mapped = [f \in FactId |-> 0]
      /\ seq = 0 /\ prev = 0 /\ written = 0 /\ dropped = 0 /\ turn = 0 /\ tally = NoTally
      /\ armed = FALSE /\ event = NoEvent /\ pc = "start"
      /\ made = 0 /\ starts = 1 /\ torn = FALSE /\ faults = 0
  BY DEF TrackInit
<1>2. FactShape /\ SessionShape
  BY <1>1 DEF FactShape, Due, SessionShape
<1>3. ProcessShape
  <2>1. 0 \in 0 .. 0 /\ 0 \in Nat /\ 0 <= 0
    OBVIOUS
  <2>2. /\ cache \in [EventId -> Cached \cup {Absent}] /\ mapped \in [FactId -> {0} \cup EventId]
        /\ \A f \in FactId : mapped[f] <= made
    BY <1>1, <2>1
  <2>3. event \in [e : 0 .. made, body : 0 .. made, cause : {0} \cup FactId] /\ event.cause = 0
    BY <1>1, <2>1 DEF NoEvent
  <2> QED
    BY <1>1, <2>1, <2>2, <2>3 DEF ProcessShape
<1>4. QuotaShape
  <2>1. tally \in [tools : 0 .. MaxTools, admitted : Nat, journalled : Nat] /\ DropsAccounted
    BY <1>1 DEF DropsAccounted, NoTally
  <2>2. written \in 0 .. TurnQuota /\ turn \in 0 .. MaxTurns /\ faults \in 0 .. MaxFaults
        /\ starts \in 1 .. MaxStarts
    BY <1>1
  <2> QED
    BY <1>1, <2>1, <2>2 DEF QuotaShape
<1>5. CausesInv
  BY <1>1 DEF CausesInv, CauseIsEarlier, Sourced, Here, NoEvent, Absent
<1>6. BodiesInv
  BY <1>1 DEF BodiesInv, Absent
<1>7. OneSession
  BY <1>1 DEF OneSession
<1>8. Chained(0)
  BY <1>1 DEF Chained
<1> QED
  BY <1>2, <1>3, <1>4, <1>5, <1>6, <1>7, <1>8 DEF TrackIInv, RecordsInv, WalkInv

LEMMA TrackInductive == TrackIInv /\ [TrackNext]_trackVars => TrackIInv'
<1> SUFFICES ASSUME TrackIInv, [TrackNext]_trackVars PROVE TrackIInv'
  OBVIOUS
<1>1. CASE UNCHANGED trackVars
  <2>1. RecordsInv'
    BY <1>1, RecordsStay DEF TrackIInv, trackVars, runVars
  <2>2. QuotaShape'
    BY <1>1 DEF TrackIInv, trackVars, quotaVars, runVars, QuotaShape, DropsAccounted
  <2> QED
    BY <2>1, <2>2 DEF TrackIInv
<1> QED
  BY <1>1, StartKeeps, EnsureKeeps, RecordToolKeeps, RecordKeeps, WriteKeeps, LinkKeeps,
     SessionDiesKeeps, RestartKeeps DEF TrackNext

LEMMA TrackIInvIsEnough == TrackIInv => TrackInv
<1> SUFFICES ASSUME TrackIInv PROVE TrackInv
  OBVIOUS
<1> USE TrackAssumption
<1>1. FactShape /\ SessionShape /\ ProcessShape /\ CausesInv /\ BodiesInv /\ WalkInv /\ QuotaShape
  BY DEF TrackIInv, RecordsInv
<1>2. DOMAIN facts = 1 .. Len(facts) /\ Len(facts) \in Nat /\ made \in Nat /\ made <= MaxEvents
  BY <1>1, FactsAreTyped
<1>3. TrackTypeOK
  <2>1. facts \in Seq(Fact) /\ Len(facts) <= 2 * MaxEvents
    <3>1. Due \in Nat
      BY DEF Due
    <3> QED
      BY <1>1, <1>2, <3>1 DEF FactShape
  <2>2. /\ owner \in {"mcp", "runner"} /\ live \subseteq 1 .. minted /\ minted \in {0} \cup Session
        /\ file \in 0 .. minted /\ sid \in 0 .. minted
    BY <1>1 DEF SessionShape, Session
  <2>3. /\ cache \in [EventId -> Cached \cup {Absent}] /\ mapped \in [FactId -> {0} \cup EventId]
        /\ armed \in BOOLEAN /\ pc \in {"start", "idle", "ensure", "write", "link"}
        /\ made \in 0 .. MaxEvents
    BY <1>1, <1>2 DEF ProcessShape
  <2>4. seq \in {0} \cup EventId /\ prev \in 0 .. Len(facts)
    <3>1. prev = 0 \/ prev \in DOMAIN facts
      BY <1>1 DEF CausesInv, Sourced, Here
    <3> QED
      BY <1>1, <1>2, <3>1 DEF ProcessShape, EventId
  <2>5. event \in [e : {0} \cup EventId, body : 0 .. MaxEvents, cause : {0} \cup FactId]
    <3>1. 0 .. made \subseteq {0} \cup EventId /\ 0 .. made \subseteq 0 .. MaxEvents
      BY <1>2 DEF EventId
    <3> QED
      BY <1>1, <3>1 DEF ProcessShape
  <2>6. /\ tally.tools \in 0 .. MaxTools /\ tally.admitted \in Nat /\ tally.journalled \in Nat
        /\ dropped \in Nat /\ tally.tools = tally.admitted + tally.journalled + dropped
    BY <1>1 DEF QuotaShape, DropsAccounted
  <2>7. tally.admitted \in 0 .. MaxTools /\ tally.journalled \in 0 .. MaxTools /\ dropped \in 0 .. MaxTools
    BY <2>6
  <2>8. tally \in [tools : 0 .. MaxTools, admitted : 0 .. MaxTools, journalled : 0 .. MaxTools]
    BY <1>1, <2>7 DEF QuotaShape
  <2> QED
    BY <1>1, <2>1, <2>2, <2>3, <2>4, <2>5, <2>7, <2>8 DEF TrackTypeOK, QuotaShape
<1>4. BothWays
  <2>1. SUFFICES ASSUME faults = 0 /\ ~torn /\ pc \in {"idle", "start"} /\ (owner = "mcp" \/ starts = 1),
                        NEW i \in DOMAIN facts, Latest(facts, facts[i].s, facts[i].e).cause # 0
                 PROVE  LET f == facts[i]
                            v == Latest(facts, f.s, f.e)
                        IN f.e \in Latest(facts, f.s, facts[v.cause].e).effects
    BY DEF BothWays
  <2>2. PICK n \in Nat : Chained(n)
    BY <1>1, <2>1 DEF WalkInv, Calm
  <2>3. facts \in Seq(Fact) /\ Versions(facts, facts[i].s, facts[i].e) # {}
    BY <1>1, FactsAreTyped DEF FactShape
  <2> DEFINE v == Latest(facts, facts[i].s, facts[i].e)
  <2>4. PICK h \in DOMAIN facts : facts[h].e = facts[i].e /\ facts[h].v = v
    BY <2>3, VersionsShape
  <2>5. v.cause \in DOMAIN facts
    <3>1. v.cause < h /\ v.cause \in FactId
      BY <1>1, <2>1, <2>4, FactsAreTyped DEF CausesInv, CauseIsEarlier, Cached
    <3> QED
      BY <1>2, <2>4, <3>1 DEF FactId
  <2>6. /\ facts[i].s = 1 /\ facts[i].e \in 1 .. n
        /\ facts[v.cause].e \in 1 .. n /\ facts[v.cause].e + 1 = facts[i].e
    BY <2>1, <2>2, <2>4, <2>5 DEF Chained
  <2>7. facts[i].e \in Latest(facts, 1, facts[v.cause].e).effects
    <3>1. \A k \in 1 .. n : k + 1 \in 1 .. n => k + 1 \in Latest(facts, 1, k).effects
      BY <2>1, <2>2 DEF Chained
    <3> QED
      BY <2>6, <3>1
  <2> QED
    BY <2>6, <2>7
<1>5. CauseIsEarlier /\ DropsAccounted
  BY <1>1 DEF CausesInv, QuotaShape
<1> QED
  BY <1>3, <1>4, <1>5 DEF TrackInv

\* Types; causes are earlier facts of the same session, over restarts, lost sessions and lost answers;
\* the chain can be walked both ways as long as nothing went wrong; every tool call is recorded or
\* counted as dropped (event_ledger.rs, memory_event/store.rs).
THEOREM EventsAreLinked == TrackSpec => []TrackInv
<1>1. TrackSpec => []TrackIInv
  BY TrackIInvInit, TrackInductive, PTL DEF TrackSpec
<1> QED
  BY <1>1, TrackIInvIsEnough, PTL

LEMMA FactsRemain ==
  ASSUME TrackIInv, [TrackNext]_trackVars, NEW i \in DOMAIN facts
  PROVE  i \in DOMAIN facts' /\ facts'[i] = facts[i]
<1>1. facts' = facts \/ \E x : facts' = Append(facts, x)
  BY Zenon DEF TrackNext, trackVars, engineVars, Start, Ensure, RecordTool, RecordApproval, BeginTurn, SessionEnd,
         Same, Write, Landed, Missed, Link, Post, SessionDies, Restart
<1>2. facts \in Seq(Fact)
  BY DEF TrackIInv, RecordsInv, FactShape
<1>3. ASSUME NEW x, facts' = Append(facts, x)
      PROVE  i \in DOMAIN facts' /\ facts'[i] = facts[i]
  BY <1>2, <1>3
<1> QED
  BY <1>1, <1>3

\* A later version of an event keeps the effects of the earlier ones, whatever is lost: the cache the
\* store writes the source from is never behind what the engine has (store.rs, write_event_with_cause).
THEOREM EffectsAreKept == TrackSpec => EffectsKept
<1> DEFINE A == \A i \in DOMAIN facts :
                  LET f == facts[i]
                  IN f.v.body = Latest(facts, f.s, f.e).body
                       /\ f.v.body = Latest(facts', f.s, f.e).body
                     => f.v.effects \subseteq Latest(facts', f.s, f.e).effects
<1>1. TrackSpec => []TrackIInv
  BY TrackIInvInit, TrackInductive, PTL DEF TrackSpec
<1>2. TrackIInv /\ TrackIInv' /\ [TrackNext]_trackVars => [A]_trackVars
  <2> SUFFICES ASSUME TrackIInv, TrackIInv', [TrackNext]_trackVars, NEW i \in DOMAIN facts
               PROVE  LET f == facts[i]
                      IN f.v.body = Latest(facts', f.s, f.e).body
                           => f.v.effects \subseteq Latest(facts', f.s, f.e).effects
    OBVIOUS
  <2>1. i \in DOMAIN facts' /\ facts'[i] = facts[i]
    BY FactsRemain
  <2>2. \A j \in DOMAIN facts' :
          LET f == facts'[j]
          IN f.v.body = Latest(facts', f.s, f.e).body
               => f.v.effects \subseteq Latest(facts', f.s, f.e).effects
    BY DEF TrackIInv, RecordsInv, BodiesInv, Latest, Versions
  <2> QED
    BY <2>1, <2>2
<1> HIDE DEF A
<1>3. TrackSpec => [][A]_trackVars
  BY <1>1, <1>2, PTL DEF TrackSpec
<1> QED
  BY <1>3 DEF EffectsKept, A

-----------------------------------------------------------------------------
(* Scheduler *)

(***************************************************************************)
(* The schedule, for any jobs and expressions, any length of the clock and *)
(* any number of restarts and clocks set back.  The lines of the present   *)
(* epoch are behind the minutes that are still to be looked at, and what a *)
(* tick has planned is either ahead of them or the job that runs.          *)
(***************************************************************************)
ScheduleLine == [job : Jobs, minute : 0 .. LastMinute, action : {"fired", "missed", "finished"}, epoch : 0 .. MaxEpoch]

LoopShape ==
  /\ ScheduleTypeOK /\ trail \in Seq(ScheduleLine)
  /\ phase = "asleep" => (last = None <=> since = None)
  /\ phase \in {"acting", "running"} => since # None
  /\ phase \in {"asleep", "down"} => plan = << >>
  /\ \A i \in DOMAIN trail : trail[i].epoch <= epoch
  /\ \A i \in DOMAIN plan : plan[i].epoch <= epoch

LinesOf(t, e) == {i \in DOMAIN t : t[i].epoch = e /\ t[i].action # "finished"}

LinesPast ==
  /\ \A i \in LinesOf(trail, epoch) :
       /\ trail[i].minute <= clock
       /\ phase = "asleep" => last # None /\ trail[i].minute <= last
       /\ phase \in {"acting", "running"} => trail[i].minute <= now
  /\ \A i \in DOMAIN plan : plan[i].minute <= now /\ (plan[i].epoch = epoch => now <= clock)

SameRun(x, y) == x.job = y.job /\ x.minute = y.minute

PlanAhead ==
  /\ \A i, k \in DOMAIN plan : i # k => ~ SameRun(plan[i], plan[k])
  /\ \A i \in DOMAIN plan : \A k \in LinesOf(trail, plan[i].epoch) : SameRun(trail[k], plan[i]) => phase = "running" /\ i = 1

Noted(t, j, m) == \E i \in DOMAIN t : t[i].action # "finished" /\ t[i].job = j /\ t[i].minute = m

NoneForgotten ==
  /\ phase = "running" => Noted(trail, plan[1].job, plan[1].minute)
  /\ phase \in {"acting", "running"} =>
       \A j \in Jobs : \A m \in Matches[j] \cap since .. now :
         Noted(trail, j, m) \/ \E i \in DOMAIN plan : plan[i].job = j /\ plan[i].minute = m
  /\ phase = "asleep" /\ last # None =>
       \A j \in Jobs : \A m \in Matches[j] \cap since .. last : Noted(trail, j, m)

ScheduleIInv == LoopShape /\ LinesPast /\ OneLineAMinute /\ PlanAhead /\ NoneForgotten


\* Pairs of a place and a minute, by how many are earlier.
LEMMA EveryPlaceIsTaken ==
  ASSUME NEW D \in SUBSET (Nat \X Nat), IsFiniteSet(D)
  PROVE  /\ Cardinality(D) \in Nat
         /\ \A k \in 1 .. Cardinality(D) : \E p \in D : Cardinality({q \in D : Earlier(q, p)}) = k - 1
         /\ \A p \in D : /\ Cardinality({q \in D : Earlier(q, p)}) \in Nat
                         /\ Cardinality({q \in D : Earlier(q, p)}) + 1 \in 1 .. Cardinality(D)
         /\ \A p, r \in D : Cardinality({q \in D : Earlier(q, p)}) = Cardinality({q \in D : Earlier(q, r)}) => p = r
<1> DEFINE before(p) == {q \in D : Earlier(q, p)}
           c == Cardinality(D)
           R == 0 .. c - 1
           f == [p \in D |-> Cardinality(before(p))]
<1>1. c \in Nat
  BY FS_CardinalityType
<1>2. /\ \A p \in D : ~ Earlier(p, p)
      /\ \A p, r \in D : p = r \/ Earlier(p, r) \/ Earlier(r, p)
      /\ \A p, q, r \in D : Earlier(p, q) /\ Earlier(q, r) => Earlier(p, r)
  <2>1. \A p \in D : p[1] \in Nat /\ p[2] \in Nat /\ p = << p[1], p[2] >>
    OBVIOUS
  <2> QED
    BY <2>1 DEF Earlier
<1>3. ASSUME NEW U \in SUBSET D, NEW T \in SUBSET U, NEW p \in U, p \notin T
      PROVE  Cardinality(T) \in Nat /\ Cardinality(U) \in Nat /\ Cardinality(T) < Cardinality(U)
  <2>1. IsFiniteSet(U)
    BY FS_Subset
  <2>2. IsFiniteSet(T) /\ Cardinality(T) <= Cardinality(U) /\ (Cardinality(U) = Cardinality(T) => U = T)
    BY <2>1, FS_Subset
  <2>3. Cardinality(T) \in Nat /\ Cardinality(U) \in Nat
    BY <2>1, <2>2, FS_CardinalityType
  <2> QED
    BY <1>3, <2>2, <2>3
<1>4. \A p \in D : before(p) \in SUBSET D /\ p \notin before(p)
  BY <1>2
<1>5. \A p \in D : Cardinality(before(p)) \in R
  <2> SUFFICES ASSUME NEW p \in D PROVE Cardinality(before(p)) \in R
    OBVIOUS
  <2>1. Cardinality(before(p)) \in Nat /\ Cardinality(before(p)) < c
    BY <1>3, <1>4
  <2> QED
    BY <1>1, <2>1
<1>6. ASSUME NEW p \in D, NEW r \in D, Earlier(p, r) PROVE Cardinality(before(p)) # Cardinality(before(r))
  <2>1. before(r) \in SUBSET D /\ before(p) \in SUBSET before(r) /\ p \in before(r) /\ p \notin before(p)
    BY <1>2, <1>6
  <2>2. Cardinality(before(p)) \in Nat /\ Cardinality(before(r)) \in Nat
        /\ Cardinality(before(p)) < Cardinality(before(r))
    BY <1>3, <2>1
  <2> QED
    BY <2>2
<1>7. \A p, r \in D : Cardinality(before(p)) = Cardinality(before(r)) => p = r
  BY <1>2, <1>6
<1> HIDE DEF before
<1>8. f \in Injection(D, R)
  BY <1>5, <1>7 DEF Injection, IsInjective
<1>9. IsFiniteSet(R) /\ Cardinality(R) = c
  <2>1. 0 \in Int /\ c - 1 \in Int
    BY <1>1
  <2>2. IsFiniteSet(R) /\ Cardinality(R) = IF 0 > c - 1 THEN 0 ELSE c - 1 - 0 + 1
    BY <2>1, FS_Interval
  <2> QED
    BY <1>1, <2>2
<1>10. f \in Surjection(D, R)
  BY <1>8, <1>9, FS_Injection
<1>11. \A k \in R : \E p \in D : Cardinality(before(p)) = k
  BY <1>10 DEF Surjection
<1>12. \A k \in 1 .. c : k - 1 \in R
  BY <1>1
<1>13. \A x \in R : x \in Nat /\ x + 1 \in 1 .. c
  BY <1>1
<1> QED
  BY <1>1, <1>5, <1>7, <1>11, <1>12, <1>13 DEF before

\* A tick plans each matching minute that it looks at, once.
LEMMA PlanIsComplete ==
  ASSUME NEW l \in {None} \cup 0 .. LastMinute, NEW n \in 0 .. LastMinute, epoch \in 0 .. MaxEpoch
  PROVE  LET P == PlanTick(l, n)
         IN /\ P \in Seq(Action)
            /\ \A i \in DOMAIN P : P[i].minute \in Scanned(l, n) /\ P[i].minute <= n /\ P[i].epoch = epoch
            /\ \A i, k \in DOMAIN P : i # k => ~ SameRun(P[i], P[k])
            /\ \A j \in Jobs : \A m \in Scanned(l, n) \cap Matches[j] :
                 \E i \in DOMAIN P : P[i].job = j /\ P[i].minute = m
<1> USE ScheduleAssumption
<1> DEFINE D == Matching(l, n)
           c == Cardinality(D)
           rank(p) == Cardinality({q \in D : Earlier(q, p)})
           nth(k) == CHOOSE p \in D : rank(p) = k - 1
           act(p) == [job |-> Job[p[1]], minute |-> p[2], epoch |-> epoch, action |-> IF p[2] = n THEN "fired" ELSE "missed"]
           P == PlanTick(l, n)
<1>1. Scanned(l, n) \subseteq 0 .. n /\ Scanned(l, n) \subseteq 0 .. LastMinute /\ n \in Nat
  BY DEF Scanned, None
<1>2. DOMAIN Job = 1 .. Len(Job) /\ Len(Job) \in Nat /\ \A i \in DOMAIN Job : Job[i] \in Jobs
  BY DEF Jobs, ToSet
<1>3. D \subseteq (1 .. Len(Job)) \X (0 .. n)
  BY <1>1, <1>2 DEF Matching
<1>4. IsFiniteSet(D) /\ D \in SUBSET (Nat \X Nat)
  <2>1. IsFiniteSet(1 .. Len(Job)) /\ IsFiniteSet(0 .. n)
    BY <1>1, <1>2, FS_Interval
  <2>2. IsFiniteSet((1 .. Len(Job)) \X (0 .. n))
    BY <2>1, FS_Product
  <2>3. IsFiniteSet(D)
    BY <1>3, <2>2, FS_Subset
  <2>4. 1 .. Len(Job) \subseteq Nat /\ 0 .. n \subseteq Nat
    BY <1>1, <1>2
  <2> QED
    BY <1>3, <2>3, <2>4
<1>5. /\ \A p \in D : /\ p[1] \in DOMAIN Job /\ Job[p[1]] \in Jobs
                      /\ p[2] \in Scanned(l, n) /\ p[2] \in 0 .. LastMinute /\ p[2] <= n
      /\ \A i \in DOMAIN Job : \A m \in Scanned(l, n) : m \in Matches[Job[i]] => << i, m >> \in D
  BY <1>1, <1>2 DEF Matching
<1>6. \A p, r \in D : p[1] = r[1] /\ p[2] = r[2] => p = r
  BY <1>4
<1> HIDE DEF D
<1>7. /\ c \in Nat
      /\ \A k \in 1 .. c : \E p \in D : rank(p) = k - 1
      /\ \A p \in D : rank(p) \in Nat /\ rank(p) + 1 \in 1 .. c
      /\ \A p, r \in D : rank(p) = rank(r) => p = r
  BY <1>4, EveryPlaceIsTaken
<1>8. P = [k \in 1 .. c |-> act(nth(k))]
  BY DEF PlanTick, D
<1> HIDE DEF c, rank, P
<1>9. \A k \in 1 .. c : nth(k) \in D /\ rank(nth(k)) = k - 1
  <2> SUFFICES ASSUME NEW k \in 1 .. c PROVE nth(k) \in D /\ rank(nth(k)) = k - 1
    OBVIOUS
  <2>1. \E p \in D : rank(p) = k - 1
    BY <1>7
  <2> QED
    BY <2>1, Zenon
<1> HIDE DEF nth
<1>10. \A p \in D : act(p) \in Action
  BY <1>5 DEF Action
<1>11. \A i \in 1 .. c : P[i] = act(nth(i)) /\ P[i] \in Action
  BY <1>8, <1>9, <1>10
<1>16. \A p : act(p).job = Job[p[1]] /\ act(p).minute = p[2] /\ act(p).epoch = epoch
  OBVIOUS
<1> HIDE DEF act
<1>12. P \in Seq(Action) /\ DOMAIN P = 1 .. c
  <2>1. P \in [1 .. c -> Action]
    BY <1>8, <1>9, <1>10
  <2> QED
    BY <1>7, <2>1
<1>13. ASSUME NEW i \in 1 .. c
       PROVE  P[i].minute \in Scanned(l, n) /\ P[i].minute <= n /\ P[i].epoch = epoch
  BY <1>5, <1>9, <1>11, <1>16
<1>14. ASSUME NEW i \in 1 .. c, NEW k \in 1 .. c, SameRun(P[i], P[k]) PROVE i = k
  <2>1. P[i].job = Job[nth(i)[1]] /\ P[k].job = Job[nth(k)[1]] /\ P[i].minute = nth(i)[2] /\ P[k].minute = nth(k)[2]
    BY <1>11, <1>16
  <2>2. nth(i) \in D /\ nth(k) \in D /\ rank(nth(i)) = i - 1 /\ rank(nth(k)) = k - 1
    BY <1>9
  <2>3. nth(i)[1] = nth(k)[1]
    BY <1>5, <1>14, <2>1, <2>2 DEF SameRun, IsInjective
  <2>4. nth(i) = nth(k)
    BY <1>6, <1>14, <2>1, <2>2, <2>3 DEF SameRun
  <2> QED
    BY <1>7, <2>2, <2>4
<1>15. ASSUME NEW j \in Jobs, NEW m \in Scanned(l, n) \cap Matches[j]
       PROVE  \E i \in 1 .. c : P[i].job = j /\ P[i].minute = m
  <2>1. PICK a \in DOMAIN Job : Job[a] = j
    BY DEF Jobs, ToSet
  <2> DEFINE p == << a, m >>
             k == rank(p) + 1
  <2>2. p \in D /\ p[1] = a /\ p[2] = m
    BY <1>5, <2>1
  <2> HIDE DEF p
  <2>3. k \in 1 .. c /\ k - 1 = rank(p)
    BY <1>7, <2>2
  <2> HIDE DEF k
  <2>4. nth(k) = p
    BY <1>7, <1>9, <2>2, <2>3
  <2> QED
    BY <1>11, <1>16, <2>1, <2>2, <2>3, <2>4
<1> QED
  BY <1>12, <1>13, <1>14, <1>15 DEF P


LEMMA PlanAndTrail ==
  ASSUME LoopShape
  PROVE  /\ DOMAIN plan = 1 .. Len(plan) /\ Len(plan) \in Nat
         /\ plan # << >> => 1 \in DOMAIN plan
         /\ \A i \in DOMAIN plan : /\ plan[i] \in Action /\ plan[i].job \in Jobs /\ plan[i].minute \in 0 .. LastMinute
                                   /\ plan[i].action \in {"fired", "missed"} /\ plan[i].epoch \in 0 .. MaxEpoch
         /\ DOMAIN trail = 1 .. Len(trail) /\ Len(trail) \in Nat
         /\ \A i \in DOMAIN trail : trail[i].minute \in 0 .. LastMinute /\ trail[i].epoch \in 0 .. MaxEpoch
         /\ epoch \in 0 .. MaxEpoch /\ clock \in 0 .. LastMinute /\ now \in 0 .. LastMinute
         /\ LastMinute \in Nat /\ MaxEpoch \in Nat /\ ScanCap \in Nat
         /\ last = None \/ last \in 0 .. LastMinute
<1>1. plan \in Seq(Action) /\ trail \in Seq(ScheduleLine)
  BY DEF LoopShape, ScheduleTypeOK
<1>2. \A x \in Action : /\ x.job \in Jobs /\ x.minute \in 0 .. LastMinute
                        /\ x.action \in {"fired", "missed"} /\ x.epoch \in 0 .. MaxEpoch
  BY DEF Action
<1>3. \A x \in ScheduleLine : x.minute \in 0 .. LastMinute /\ x.epoch \in 0 .. MaxEpoch
  BY DEF ScheduleLine
<1>4. DOMAIN plan = 1 .. Len(plan) /\ Len(plan) \in Nat /\ (plan # << >> => 1 \in DOMAIN plan)
      /\ \A i \in DOMAIN plan : plan[i] \in Action
  BY <1>1
<1>5. DOMAIN trail = 1 .. Len(trail) /\ Len(trail) \in Nat /\ \A i \in DOMAIN trail : trail[i] \in ScheduleLine
  BY <1>1
<1> QED
  BY <1>2, <1>3, <1>4, <1>5, ScheduleAssumption DEF LoopShape, ScheduleTypeOK

\* The trail with one line more.
LEMMA LineIsAdded ==
  ASSUME LoopShape, NEW x \in ScheduleLine, trail' = Append(trail, x)
  PROVE  /\ trail' \in Seq(ScheduleLine)
         /\ \A i \in DOMAIN trail : i \in DOMAIN trail' /\ trail'[i] = trail[i] /\ i # Len(trail) + 1
         /\ Len(trail) + 1 \in DOMAIN trail' /\ trail'[Len(trail) + 1] = x
         /\ \A i \in DOMAIN trail' : i \in DOMAIN trail \/ i = Len(trail) + 1
         /\ \A e : \A i \in LinesOf(trail', e) :
              i \in LinesOf(trail, e) \/ (i = Len(trail) + 1 /\ x.epoch = e /\ x.action # "finished")
         /\ \A e : LinesOf(trail, e) \subseteq LinesOf(trail', e)
         /\ \A j, m : Noted(trail, j, m) => Noted(trail', j, m)
         /\ x.action # "finished" => Noted(trail', x.job, x.minute)
<1>1. trail \in Seq(ScheduleLine)
  BY DEF LoopShape
<1>2. /\ trail' \in Seq(ScheduleLine)
      /\ \A i \in DOMAIN trail : i \in DOMAIN trail' /\ trail'[i] = trail[i] /\ i # Len(trail) + 1
      /\ Len(trail) + 1 \in DOMAIN trail' /\ trail'[Len(trail) + 1] = x
      /\ \A i \in DOMAIN trail' : i \in DOMAIN trail \/ i = Len(trail) + 1
  BY <1>1
<1> QED
  BY <1>2 DEF LinesOf, Noted

\* The plan without its first action.
LEMMA PlanGoesOn ==
  ASSUME LoopShape, plan # << >>, plan' = Tail(plan)
  PROVE  /\ plan' \in Seq(Action)
         /\ \A i \in DOMAIN plan' : i + 1 \in DOMAIN plan /\ plan'[i] = plan[i + 1] /\ i + 1 # 1 /\ i \in Nat
         /\ \A k \in DOMAIN plan : k # 1 => k - 1 \in DOMAIN plan' /\ plan'[k - 1] = plan[k]
<1>1. plan \in Seq(Action)
  BY DEF LoopShape, ScheduleTypeOK
<1> QED
  BY <1>1

\* A line for an action of the plan keeps the lines apart.
LEMMA LineIsNew ==
  ASSUME LoopShape, OneLineAMinute, PlanAhead, phase = "acting", plan # << >>,
         trail' = Append(trail, plan[1]), UNCHANGED epoch
  PROVE  OneLineAMinute'
<1>1. plan[1] \in ScheduleLine /\ 1 \in DOMAIN plan
  BY PlanAndTrail DEF Action, ScheduleLine
<1>2. ASSUME NEW e \in 0 .. epoch, NEW i \in LinesOf(trail', e), NEW k \in LinesOf(trail', e),
             trail'[i].job = trail'[k].job /\ trail'[i].minute = trail'[k].minute
      PROVE  i = k
  <2> DEFINE n == Len(trail) + 1
  <2>1. /\ i \in LinesOf(trail, e) \/ (i = n /\ plan[1].epoch = e)
        /\ k \in LinesOf(trail, e) \/ (k = n /\ plan[1].epoch = e)
    BY <1>1, LineIsAdded
  <2>2. (\A h \in DOMAIN trail : trail'[h] = trail[h]) /\ trail'[n] = plan[1]
    BY <1>1, LineIsAdded
  <2>3. \A h \in LinesOf(trail, e) : h \in DOMAIN trail
    BY DEF LinesOf
  <2> HIDE DEF n
  <2>4. \A h \in LinesOf(trail, plan[1].epoch) : ~ SameRun(trail[h], plan[1])
    BY <1>1 DEF PlanAhead, SameRun
  <2>5. CASE i \in LinesOf(trail, e) /\ k \in LinesOf(trail, e)
    BY <1>2, <2>2, <2>3, <2>5 DEF OneLineAMinute, Lines, LinesOf
  <2>6. CASE i = n /\ k = n
    BY <2>6
  <2>7. CASE i \in LinesOf(trail, e) /\ k = n /\ plan[1].epoch = e
    BY <1>2, <2>2, <2>3, <2>4, <2>7 DEF SameRun
  <2>8. CASE k \in LinesOf(trail, e) /\ i = n /\ plan[1].epoch = e
    BY <1>2, <2>2, <2>3, <2>4, <2>8 DEF SameRun
  <2> QED
    BY <2>1, <2>5, <2>6, <2>7, <2>8
<1> QED
  BY <1>2 DEF OneLineAMinute, Lines, LinesOf

LEMMA TickKeeps == ScheduleIInv /\ Tick => ScheduleIInv'
<1> SUFFICES ASSUME ScheduleIInv, Tick PROVE ScheduleIInv'
  OBVIOUS
<1> USE ScheduleAssumption
<1>1. LoopShape /\ LinesPast /\ OneLineAMinute /\ PlanAhead /\ NoneForgotten
  BY DEF ScheduleIInv
<1>2. /\ phase = "asleep" /\ phase' = "acting" /\ now' = clock /\ plan' = PlanTick(last, clock)
      /\ since' = IF last # None /\ clock > last + ScanCap THEN clock + 1
                  ELSE IF since = None THEN clock ELSE since
      /\ UNCHANGED <<clock, last, child, trail, epoch>>
  BY DEF Tick
<1>3. /\ epoch \in 0 .. MaxEpoch /\ clock \in 0 .. LastMinute /\ LastMinute \in Nat /\ ScanCap \in Nat
      /\ last = None \/ last \in 0 .. LastMinute
      /\ \A i \in DOMAIN trail : trail[i].minute \in 0 .. LastMinute
  BY <1>1, PlanAndTrail
<1>4. /\ plan' \in Seq(Action)
      /\ \A i \in DOMAIN plan' : plan'[i].minute \in Scanned(last, clock) /\ plan'[i].minute <= clock
                                 /\ plan'[i].epoch = epoch
      /\ \A i, k \in DOMAIN plan' : i # k => ~ SameRun(plan'[i], plan'[k])
      /\ \A j \in Jobs : \A m \in Scanned(last, clock) \cap Matches[j] :
           \E i \in DOMAIN plan' : plan'[i].job = j /\ plan'[i].minute = m
  <2>1. last \in {None} \cup 0 .. LastMinute
    BY <1>3
  <2>2. LET P == PlanTick(last, clock)
        IN /\ P \in Seq(Action)
           /\ \A i \in DOMAIN P : P[i].minute \in Scanned(last, clock) /\ P[i].minute <= clock /\ P[i].epoch = epoch
           /\ \A i, k \in DOMAIN P : i # k => ~ SameRun(P[i], P[k])
           /\ \A j \in Jobs : \A m \in Scanned(last, clock) \cap Matches[j] :
                \E i \in DOMAIN P : P[i].job = j /\ P[i].minute = m
    BY <1>3, <2>1, PlanIsComplete
  <2> QED
    BY <1>2, <2>2
<1>6. LoopShape'
  <2>1. since' \in 0 .. LastMinute + 1
    <3>1. since = None \/ since \in 0 .. LastMinute + 1
      BY <1>1 DEF LoopShape, ScheduleTypeOK
    <3>2. clock + 1 \in 0 .. LastMinute + 1 /\ clock \in 0 .. LastMinute + 1
      BY <1>3
    <3>3. since' = clock \/ since' = clock + 1 \/ (since' = since /\ since # None)
      BY <1>2
    <3> QED
      BY <3>1, <3>2, <3>3
  <2>2. ScheduleTypeOK'
    BY <1>1, <1>2, <1>3, <1>4, <2>1 DEF LoopShape, ScheduleTypeOK
  <2>3. since' # None
    BY <1>3, <2>1 DEF None
  <2>4. \A i \in DOMAIN plan' : plan'[i].epoch <= epoch'
    BY <1>2, <1>3, <1>4
  <2> QED
    BY <1>1, <1>2, <2>2, <2>3, <2>4 DEF LoopShape
<1>7. LinesPast'
  BY <1>1, <1>2, <1>3, <1>4 DEF LinesPast
<1>8. OneLineAMinute'
  BY <1>1, <1>2 DEF OneLineAMinute, Lines, LinesOf
<1>9. PlanAhead'
  <2>1. ASSUME NEW i \in DOMAIN plan', NEW k \in LinesOf(trail, epoch), SameRun(trail[k], plan'[i]) PROVE FALSE
    <3>1. last # None /\ trail[k].minute <= last /\ k \in DOMAIN trail
      BY <1>1, <1>2 DEF LinesPast, LinesOf
    <3>2. plan'[i].minute \in last + 1 .. clock
      BY <1>4, <3>1 DEF Scanned
    <3>3. trail[k].minute = plan'[i].minute
      BY <2>1 DEF SameRun
    <3> QED
      BY <1>3, <3>1, <3>2, <3>3
  <2>2. \A i \in DOMAIN plan' : \A k \in LinesOf(trail', plan'[i].epoch) : ~ SameRun(trail'[k], plan'[i])
    BY <1>2, <1>4, <2>1
  <2> QED
    BY <1>4, <2>2 DEF PlanAhead, SameRun
<1>10. NoneForgotten'
  <2>1. ASSUME NEW j \in Jobs, NEW m \in Matches[j] \cap since' .. now'
        PROVE  Noted(trail', j, m) \/ \E i \in DOMAIN plan' : plan'[i].job = j /\ plan'[i].minute = m
    <3>1. m \in Int /\ since' <= m /\ m <= clock /\ since' \in Int
      BY <1>1, <1>2, <1>3 DEF LoopShape, ScheduleTypeOK, None
    <3>2. CASE m \in Scanned(last, clock)
      BY <1>4, <3>2
    <3>3. CASE m \notin Scanned(last, clock)
      <4>1. last # None
        <5>1. last = None => since' = clock
          BY <1>1, <1>2 DEF LoopShape
        <5>2. last = None /\ m = clock => m \in Scanned(last, clock)
          BY <1>3 DEF Scanned
        <5> QED
          BY <1>3, <3>1, <3>3, <5>1, <5>2
      <4>2. ~ (clock > last + ScanCap)
        BY <1>2, <1>3, <3>1, <4>1
      <4>3. since' = since /\ since # None
        BY <1>1, <1>2, <4>1, <4>2 DEF LoopShape
      <4>4. m <= last
        BY <1>3, <3>1, <3>3, <4>1, <4>2 DEF Scanned
      <4>5. m \in since .. last
        BY <1>3, <3>1, <4>1, <4>3, <4>4
      <4>6. Noted(trail, j, m)
        BY <1>1, <1>2, <4>1, <4>5 DEF NoneForgotten
      <4> QED
        BY <1>2, <4>6
    <3> QED
      BY <3>2, <3>3
  <2> QED
    BY <1>2, <2>1 DEF NoneForgotten
<1> QED
  BY <1>6, <1>7, <1>8, <1>9, <1>10 DEF ScheduleIInv

\* A minute that was missed, or a job that is started, gets a line.
LEMMA WritingKeeps == ScheduleIInv /\ (NoteMissed \/ Fire) => ScheduleIInv'
<1> SUFFICES ASSUME ScheduleIInv, NoteMissed \/ Fire PROVE ScheduleIInv'
  OBVIOUS
<1> USE ScheduleAssumption
<1>1. LoopShape /\ LinesPast /\ OneLineAMinute /\ PlanAhead /\ NoneForgotten
  BY DEF ScheduleIInv
<1>2. /\ phase = "acting" /\ plan # << >> /\ trail' = Append(trail, plan[1])
      /\ UNCHANGED <<clock, last, now, since, epoch>>
  BY DEF NoteMissed, Fire
<1> DEFINE n == Len(trail) + 1
<1>3. /\ plan[1] \in ScheduleLine /\ 1 \in DOMAIN plan /\ plan[1].action # "finished"
      /\ plan[1] \in Action
  BY <1>1, <1>2, PlanAndTrail DEF Action, ScheduleLine
<1>4. /\ trail' \in Seq(ScheduleLine)
      /\ \A i \in DOMAIN trail : i \in DOMAIN trail' /\ trail'[i] = trail[i] /\ i # n
      /\ n \in DOMAIN trail' /\ trail'[n] = plan[1]
      /\ \A i \in DOMAIN trail' : i \in DOMAIN trail \/ i = n
      /\ \A e : \A i \in LinesOf(trail', e) : i \in LinesOf(trail, e) \/ (i = n /\ plan[1].epoch = e)
      /\ \A j, m : Noted(trail, j, m) => Noted(trail', j, m)
      /\ Noted(trail', plan[1].job, plan[1].minute)
  BY <1>1, <1>2, <1>3, LineIsAdded
<1> HIDE DEF n
<1>5. OneLineAMinute'
  BY <1>1, <1>2, LineIsNew
<1>6. \A i \in DOMAIN trail' : trail'[i].epoch <= epoch
  BY <1>1, <1>3, <1>4 DEF LoopShape
<1>7. \A i \in LinesOf(trail', epoch) : trail'[i].minute <= clock /\ trail'[i].minute <= now
  <2>1. \A i \in LinesOf(trail, epoch) : i \in DOMAIN trail /\ trail[i].minute <= clock /\ trail[i].minute <= now
    BY <1>1, <1>2 DEF LinesPast, LinesOf
  <2>2. plan[1].epoch = epoch => plan[1].minute <= clock /\ plan[1].minute <= now
    <3>1. plan[1].minute \in 0 .. LastMinute /\ now \in 0 .. LastMinute /\ clock \in 0 .. LastMinute
      BY <1>1, <1>3, PlanAndTrail
    <3> QED
      BY <1>1, <1>3, <3>1 DEF LinesPast
  <2> QED
    BY <1>4, <2>1, <2>2
<1>8. CASE NoteMissed
  <2>1. plan' = Tail(plan) /\ UNCHANGED <<phase, child>>
    BY <1>8 DEF NoteMissed
  <2>2. /\ plan' \in Seq(Action)
        /\ \A i \in DOMAIN plan' : i + 1 \in DOMAIN plan /\ plan'[i] = plan[i + 1] /\ i + 1 # 1 /\ i \in Nat
        /\ \A k \in DOMAIN plan : k # 1 => k - 1 \in DOMAIN plan' /\ plan'[k - 1] = plan[k]
    BY <1>1, <1>2, <2>1, PlanGoesOn
  <2>3. LoopShape'
    BY <1>1, <1>2, <1>4, <1>6, <2>1, <2>2 DEF LoopShape, ScheduleTypeOK
  <2>4. LinesPast'
    BY <1>1, <1>2, <1>7, <2>1, <2>2 DEF LinesPast
  <2>5. PlanAhead'
    <3>1. ASSUME NEW i \in DOMAIN plan', NEW k \in DOMAIN plan', i # k PROVE ~ SameRun(plan'[i], plan'[k])
      <4>1. /\ i + 1 \in DOMAIN plan /\ k + 1 \in DOMAIN plan /\ i + 1 # k + 1
            /\ plan'[i] = plan[i + 1] /\ plan'[k] = plan[k + 1]
        BY <2>2, <3>1
      <4> QED
        BY <1>1, <4>1 DEF PlanAhead
    <3>2. ASSUME NEW i \in DOMAIN plan', NEW k \in LinesOf(trail', plan'[i].epoch) PROVE ~ SameRun(trail'[k], plan'[i])
      <4>1. i + 1 \in DOMAIN plan /\ plan'[i] = plan[i + 1] /\ i + 1 # 1
        BY <2>2
      <4>2. CASE k \in LinesOf(trail, plan[i + 1].epoch)
        <5>1. ~ SameRun(trail[k], plan[i + 1])
          BY <1>1, <1>2, <4>1, <4>2 DEF PlanAhead, SameRun
        <5>2. trail'[k] = trail[k]
          BY <1>4, <4>2 DEF LinesOf
        <5> QED
          BY <4>1, <5>1, <5>2
      <4>3. CASE k = n
        <5>1. ~ SameRun(plan[1], plan[i + 1])
          BY <1>1, <1>3, <4>1 DEF PlanAhead, SameRun
        <5> QED
          BY <1>4, <4>1, <4>3, <5>1
      <4> QED
        BY <1>4, <3>2, <4>1, <4>2, <4>3
    <3> QED
      BY <3>1, <3>2 DEF PlanAhead, SameRun
  <2>6. NoneForgotten'
    <3>1. ASSUME NEW j \in Jobs, NEW m \in Matches[j] \cap since .. now
          PROVE  Noted(trail', j, m) \/ \E i \in DOMAIN plan' : plan'[i].job = j /\ plan'[i].minute = m
      <4>1. Noted(trail, j, m) \/ \E i \in DOMAIN plan : plan[i].job = j /\ plan[i].minute = m
        BY <1>1, <1>2 DEF NoneForgotten
      <4> QED
        BY <1>4, <2>2, <4>1
    <3> QED
      BY <1>2, <2>1, <3>1 DEF NoneForgotten
  <2> QED
    BY <1>5, <2>3, <2>4, <2>5, <2>6 DEF ScheduleIInv
<1>9. CASE Fire
  <2>1. /\ phase' = "running" /\ child' \in {"runs", "exited", "hangs"} /\ UNCHANGED plan
        /\ plan[1].action = "fired"
    BY <1>9 DEF Fire
  <2>2. LoopShape'
    BY <1>1, <1>2, <1>4, <1>6, <2>1 DEF LoopShape, ScheduleTypeOK
  <2>3. LinesPast'
    BY <1>1, <1>2, <1>7, <2>1 DEF LinesPast
  <2>4. PlanAhead'
    <3>1. ASSUME NEW i \in DOMAIN plan, NEW k \in LinesOf(trail', plan[i].epoch), SameRun(trail'[k], plan[i]) PROVE i = 1
      <4>1. CASE k \in LinesOf(trail, plan[i].epoch)
        <5>1. trail'[k] = trail[k]
          BY <1>4, <4>1 DEF LinesOf
        <5> QED
          BY <1>1, <1>2, <3>1, <4>1, <5>1 DEF PlanAhead, SameRun
      <4>2. CASE k = n
        BY <1>1, <1>3, <1>4, <3>1, <4>2 DEF PlanAhead, SameRun
      <4> QED
        BY <1>4, <3>1, <4>1, <4>2
    <3> QED
      BY <1>1, <2>1, <3>1 DEF PlanAhead, SameRun
  <2>5. NoneForgotten'
    <3>1. ASSUME NEW j \in Jobs, NEW m \in Matches[j] \cap since .. now
          PROVE  Noted(trail', j, m) \/ \E i \in DOMAIN plan : plan[i].job = j /\ plan[i].minute = m
      BY <1>1, <1>2, <1>4 DEF NoneForgotten
    <3>2. Noted(trail', plan[1].job, plan[1].minute) /\ plan' = plan /\ since' = since /\ now' = now
      BY <1>2, <1>4, <2>1
    <3> QED
      BY <2>1, <3>1, <3>2 DEF NoneForgotten, Noted
  <2> QED
    BY <1>5, <2>2, <2>3, <2>4, <2>5 DEF ScheduleIInv
<1> QED
  BY <1>8, <1>9


\* A job has ended: its line is of no minute, and it is no longer planned.
LEMMA FinishingKeeps == ScheduleIInv /\ Finished => ScheduleIInv'
<1> SUFFICES ASSUME ScheduleIInv, Finished PROVE ScheduleIInv'
  OBVIOUS
<1> USE ScheduleAssumption
<1>1. LoopShape /\ LinesPast /\ OneLineAMinute /\ PlanAhead /\ NoneForgotten
  BY DEF ScheduleIInv
<1> DEFINE x == [plan[1] EXCEPT !.action = "finished"]
           n == Len(trail) + 1
<1>2. /\ phase = "running" /\ trail' = Append(trail, x) /\ plan' = Tail(plan) /\ phase' = "acting" /\ child' = "none"
      /\ UNCHANGED <<clock, last, now, since, epoch>>
  BY DEF Finished
<1>3. plan # << >> /\ 1 \in DOMAIN plan /\ plan[1] \in Action
  <2>1. plan # << >>
    BY <1>1, <1>2 DEF LoopShape, ScheduleTypeOK
  <2> QED
    BY <1>1, <2>1, PlanAndTrail
<1>4. x \in ScheduleLine /\ x.action = "finished" /\ x.epoch = plan[1].epoch
  BY <1>3 DEF Action, ScheduleLine
<1> HIDE DEF x
<1>5. /\ trail' \in Seq(ScheduleLine)
      /\ \A i \in DOMAIN trail : i \in DOMAIN trail' /\ trail'[i] = trail[i] /\ i # n
      /\ n \in DOMAIN trail' /\ trail'[n] = x
      /\ \A i \in DOMAIN trail' : i \in DOMAIN trail \/ i = n
      /\ \A e : \A i \in LinesOf(trail', e) : i \in LinesOf(trail, e)
      /\ \A j, m : Noted(trail, j, m) => Noted(trail', j, m)
  BY <1>1, <1>2, <1>4, LineIsAdded
<1>6. \A e : \A i \in LinesOf(trail', e) : i \in DOMAIN trail /\ trail'[i] = trail[i]
  BY <1>5 DEF LinesOf
<1> HIDE DEF n
<1>7. /\ plan' \in Seq(Action)
      /\ \A i \in DOMAIN plan' : i + 1 \in DOMAIN plan /\ plan'[i] = plan[i + 1] /\ i + 1 # 1 /\ i \in Nat
      /\ \A k \in DOMAIN plan : k # 1 => k - 1 \in DOMAIN plan' /\ plan'[k - 1] = plan[k]
  BY <1>1, <1>2, <1>3, PlanGoesOn
<1>8. LoopShape'
  <2>1. \A i \in DOMAIN trail' : trail'[i].epoch <= epoch
    BY <1>1, <1>3, <1>4, <1>5 DEF LoopShape
  <2> QED
    BY <1>1, <1>2, <1>5, <1>7, <2>1 DEF LoopShape, ScheduleTypeOK
<1>9. LinesPast'
  BY <1>1, <1>2, <1>5, <1>6, <1>7 DEF LinesPast
<1>10. OneLineAMinute'
  <2>1. ASSUME NEW e \in 0 .. epoch, NEW i \in LinesOf(trail', e), NEW k \in LinesOf(trail', e),
               trail'[i].job = trail'[k].job /\ trail'[i].minute = trail'[k].minute
        PROVE  i = k
    <3>1. i \in LinesOf(trail, e) /\ k \in LinesOf(trail, e) /\ trail'[i] = trail[i] /\ trail'[k] = trail[k]
      BY <1>5, <1>6
    <3> QED
      BY <1>1, <2>1, <3>1 DEF OneLineAMinute, Lines, LinesOf
  <2> QED
    BY <1>2, <2>1 DEF OneLineAMinute, Lines, LinesOf
<1>11. PlanAhead'
  <2>1. ASSUME NEW i \in DOMAIN plan', NEW k \in DOMAIN plan', i # k PROVE ~ SameRun(plan'[i], plan'[k])
    <3>1. /\ i + 1 \in DOMAIN plan /\ k + 1 \in DOMAIN plan /\ i + 1 # k + 1
          /\ plan'[i] = plan[i + 1] /\ plan'[k] = plan[k + 1]
      BY <1>7, <2>1
    <3> QED
      BY <1>1, <3>1 DEF PlanAhead
  <2>2. ASSUME NEW i \in DOMAIN plan', NEW k \in LinesOf(trail', plan'[i].epoch) PROVE ~ SameRun(trail'[k], plan'[i])
    <3>1. i + 1 \in DOMAIN plan /\ plan'[i] = plan[i + 1] /\ i + 1 # 1
      BY <1>7
    <3>2. k \in LinesOf(trail, plan[i + 1].epoch) /\ trail'[k] = trail[k]
      BY <1>5, <1>6, <2>2, <3>1
    <3> QED
      BY <1>1, <3>1, <3>2 DEF PlanAhead, SameRun
  <2> QED
    BY <2>1, <2>2 DEF PlanAhead, SameRun
<1>12. NoneForgotten'
  <2>1. ASSUME NEW j \in Jobs, NEW m \in Matches[j] \cap since .. now
        PROVE  Noted(trail', j, m) \/ \E i \in DOMAIN plan' : plan'[i].job = j /\ plan'[i].minute = m
    <3>1. Noted(trail, j, m) \/ \E i \in DOMAIN plan : plan[i].job = j /\ plan[i].minute = m
      BY <1>1, <1>2 DEF NoneForgotten
    <3>2. Noted(trail, plan[1].job, plan[1].minute)
      BY <1>1, <1>2 DEF NoneForgotten
    <3> QED
      BY <1>5, <1>7, <3>1, <3>2
  <2> QED
    BY <1>2, <2>1 DEF NoneForgotten
<1> QED
  BY <1>8, <1>9, <1>10, <1>11, <1>12 DEF ScheduleIInv

\* The end of a tick.
LEMMA SleepKeeps == ScheduleIInv /\ Sleep => ScheduleIInv'
<1> SUFFICES ASSUME ScheduleIInv, Sleep PROVE ScheduleIInv'
  OBVIOUS
<1>1. LoopShape /\ LinesPast /\ OneLineAMinute /\ PlanAhead /\ NoneForgotten
  BY DEF ScheduleIInv
<1>2. /\ phase = "acting" /\ plan = << >> /\ last' = now /\ phase' = "asleep"
      /\ UNCHANGED <<clock, now, plan, child, trail, since, epoch>>
  BY DEF Sleep
<1>3. last' # None /\ last' \in 0 .. LastMinute
  BY <1>1, <1>2, PlanAndTrail DEF None
<1>4. LoopShape'
  BY <1>1, <1>2, <1>3 DEF LoopShape, ScheduleTypeOK
<1>5. LinesPast'
  BY <1>1, <1>2, <1>3 DEF LinesPast
<1>6. OneLineAMinute' /\ PlanAhead'
  BY <1>1, <1>2 DEF OneLineAMinute, Lines, PlanAhead
<1>7. NoneForgotten'
  BY <1>1, <1>2 DEF NoneForgotten
<1> QED
  BY <1>4, <1>5, <1>6, <1>7 DEF ScheduleIInv

\* The process dies, and starts again in a new epoch.
LEMMA BeginningKeeps == ScheduleIInv /\ (Down \/ StartAgain) => ScheduleIInv'
<1> SUFFICES ASSUME ScheduleIInv, Down \/ StartAgain PROVE ScheduleIInv'
  OBVIOUS
<1> USE ScheduleAssumption
<1>1. LoopShape /\ LinesPast /\ OneLineAMinute /\ PlanAhead /\ NoneForgotten
  BY DEF ScheduleIInv
<1>2. CASE Down
  <2>1. /\ phase' = "down" /\ plan' = << >> /\ child' = "none" /\ UNCHANGED <<clock, last, now, trail, since, epoch>>
    BY <1>2 DEF Down
  <2>2. plan' \in Seq(Action) /\ DOMAIN plan' = {}
    BY <2>1
  <2>3. LoopShape'
    BY <1>1, <2>1, <2>2 DEF LoopShape, ScheduleTypeOK
  <2>4. LinesPast'
    BY <1>1, <2>1, <2>2 DEF LinesPast
  <2>5. OneLineAMinute' /\ PlanAhead'
    BY <1>1, <2>1, <2>2 DEF OneLineAMinute, Lines, PlanAhead
  <2>6. NoneForgotten'
    BY <2>1 DEF NoneForgotten
  <2> QED
    BY <2>3, <2>4, <2>5, <2>6 DEF ScheduleIInv
<1>3. CASE StartAgain
  <2>1. /\ phase = "down" /\ epoch' = epoch + 1 /\ epoch < MaxEpoch /\ phase' = "asleep" /\ last' = None /\ since' = None
        /\ UNCHANGED <<clock, now, plan, child, trail>>
    BY <1>3 DEF StartAgain
  <2>2. plan = << >> /\ DOMAIN plan = {}
    BY <1>1, <2>1 DEF LoopShape
  <2>3. /\ epoch \in Nat /\ epoch' \in 0 .. MaxEpoch
        /\ \A i \in DOMAIN trail : trail[i].epoch \in Nat /\ trail[i].epoch <= epoch' /\ trail[i].epoch # epoch'
    <3>1. epoch \in 0 .. MaxEpoch /\ MaxEpoch \in Nat /\ \A i \in DOMAIN trail : trail[i].epoch \in 0 .. MaxEpoch
      BY <1>1, PlanAndTrail
    <3> QED
      BY <1>1, <2>1, <3>1 DEF LoopShape
  <2>4. LoopShape'
    BY <1>1, <2>1, <2>2, <2>3 DEF LoopShape, ScheduleTypeOK
  <2>5. LinesOf(trail', epoch') = {}
    BY <2>1, <2>3 DEF LinesOf
  <2>6. LinesPast'
    BY <2>1, <2>2, <2>5 DEF LinesPast
  <2>7. OneLineAMinute'
    <3>1. ASSUME NEW e \in 0 .. epoch' PROVE e \in 0 .. epoch \/ LinesOf(trail, e) = {}
      BY <2>1, <2>3, <2>5
    <3> QED
      BY <1>1, <2>1, <3>1 DEF OneLineAMinute, Lines, LinesOf
  <2>8. PlanAhead' /\ NoneForgotten'
    BY <2>1, <2>2 DEF PlanAhead, NoneForgotten
  <2> QED
    BY <2>4, <2>6, <2>7, <2>8 DEF ScheduleIInv
<1> QED
  BY <1>2, <1>3

\* Time passes, or is set back, in a new epoch; a child exits.
LEMMA TimeKeeps == ScheduleIInv /\ (Minute \/ ClockSetBack \/ ChildExits) => ScheduleIInv'
<1> SUFFICES ASSUME ScheduleIInv, Minute \/ ClockSetBack \/ ChildExits PROVE ScheduleIInv'
  OBVIOUS
<1> USE ScheduleAssumption
<1>1. LoopShape /\ LinesPast /\ OneLineAMinute /\ PlanAhead /\ NoneForgotten
  BY DEF ScheduleIInv
<1>2. UNCHANGED <<last, now, plan, phase, trail, since>>
  BY DEF Minute, ClockSetBack, ChildExits
<1>3. PlanAhead' /\ NoneForgotten'
  BY <1>1, <1>2 DEF PlanAhead, NoneForgotten
<1>4. /\ epoch \in 0 .. MaxEpoch /\ clock \in 0 .. LastMinute /\ now \in 0 .. LastMinute
      /\ \A i \in DOMAIN trail : trail[i].minute \in 0 .. LastMinute /\ trail[i].epoch \in 0 .. MaxEpoch
      /\ \A i \in DOMAIN plan : plan[i].epoch \in 0 .. MaxEpoch
      /\ MaxEpoch \in Nat /\ LastMinute \in Nat
  BY <1>1, PlanAndTrail
<1>5. CASE Minute \/ ChildExits
  <2>1. /\ epoch' = epoch /\ clock' \in 0 .. LastMinute /\ clock <= clock'
        /\ child' \in {"none", "runs", "exited", "hangs"} /\ (child' # "none" <=> phase = "running")
    <3>1. child \in {"none", "runs", "exited", "hangs"} /\ (child # "none" <=> phase = "running")
      BY <1>1 DEF LoopShape, ScheduleTypeOK
    <3> QED
      BY <1>4, <1>5, <3>1 DEF Minute, ChildExits
  <2>2. LoopShape'
    BY <1>1, <1>2, <2>1 DEF LoopShape, ScheduleTypeOK
  <2>3. LinesPast'
    <3>1. \A i \in LinesOf(trail, epoch) : trail[i].minute \in Int
      BY <1>4 DEF LinesOf
    <3> QED
      BY <1>1, <1>2, <1>4, <2>1, <3>1 DEF LinesPast
  <2>4. OneLineAMinute'
    BY <1>1, <1>2, <2>1 DEF OneLineAMinute, Lines
  <2> QED
    BY <1>3, <2>2, <2>3, <2>4 DEF ScheduleIInv
<1>6. CASE ClockSetBack
  <2>1. clock > 0 /\ epoch < MaxEpoch /\ epoch' = epoch + 1 /\ clock' = clock - 1 /\ child' = child
    BY <1>6 DEF ClockSetBack
  <2>2. epoch' \in 0 .. MaxEpoch /\ clock' \in 0 .. LastMinute
    BY <1>4, <2>1
  <2>3. /\ \A i \in DOMAIN trail : trail[i].epoch <= epoch' /\ trail[i].epoch # epoch'
        /\ \A i \in DOMAIN plan : plan[i].epoch <= epoch' /\ plan[i].epoch # epoch'
    BY <1>1, <1>4, <2>1 DEF LoopShape
  <2>4. LoopShape'
    BY <1>1, <1>2, <2>1, <2>2, <2>3 DEF LoopShape, ScheduleTypeOK
  <2>5. LinesOf(trail', epoch') = {}
    BY <1>2, <2>3 DEF LinesOf
  <2>6. LinesPast'
    BY <1>1, <1>2, <2>3, <2>5 DEF LinesPast
  <2>7. OneLineAMinute'
    <3>1. ASSUME NEW e \in 0 .. epoch' PROVE e \in 0 .. epoch \/ LinesOf(trail, e) = {}
      BY <1>2, <1>4, <2>1, <2>5
    <3> QED
      BY <1>1, <1>2, <3>1 DEF OneLineAMinute, Lines, LinesOf
  <2> QED
    BY <1>3, <2>4, <2>6, <2>7 DEF ScheduleIInv
<1> QED
  BY <1>5, <1>6

LEMMA ScheduleIInvInit == ScheduleInit => ScheduleIInv
<1> SUFFICES ASSUME ScheduleInit PROVE ScheduleIInv
  OBVIOUS
<1> USE ScheduleAssumption
<1>1. /\ clock \in 0 .. LastMinute /\ now = clock /\ last = None /\ plan = << >> /\ phase = "asleep" /\ child = "none"
      /\ trail = << >> /\ since = None /\ epoch = 0
  BY DEF ScheduleInit
<1>2. plan \in Seq(Action) /\ trail \in Seq(ScheduleLine) /\ DOMAIN plan = {} /\ DOMAIN trail = {}
  BY <1>1
<1>3. LoopShape
  BY <1>1, <1>2 DEF LoopShape, ScheduleTypeOK
<1>4. LinesPast /\ OneLineAMinute /\ PlanAhead
  BY <1>2 DEF LinesPast, LinesOf, OneLineAMinute, Lines, PlanAhead
<1>5. NoneForgotten
  BY <1>1 DEF NoneForgotten
<1> QED
  BY <1>3, <1>4, <1>5 DEF ScheduleIInv

LEMMA ScheduleInductive == ScheduleIInv /\ [ScheduleNext]_scheduleVars => ScheduleIInv'
<1> SUFFICES ASSUME ScheduleIInv, [ScheduleNext]_scheduleVars PROVE ScheduleIInv'
  OBVIOUS
<1>1. CASE ScheduleNext
  BY <1>1, TickKeeps, WritingKeeps, FinishingKeeps, SleepKeeps, BeginningKeeps, TimeKeeps DEF ScheduleNext
<1>2. CASE UNCHANGED scheduleVars
  <2>1. UNCHANGED <<clock, last, now, plan, phase, child, trail, since, epoch>>
    BY <1>2 DEF scheduleVars
  <2> QED
    BY <2>1 DEF ScheduleIInv, LoopShape, ScheduleTypeOK, LinesPast, OneLineAMinute, Lines, PlanAhead, NoneForgotten
<1> QED
  BY <1>1, <1>2

LEMMA ScheduleIInvIsEnough == ScheduleIInv => ScheduleInv
<1> SUFFICES ASSUME ScheduleIInv PROVE ScheduleInv
  OBVIOUS
<1>1. LoopShape /\ OneLineAMinute /\ NoneForgotten
  BY DEF ScheduleIInv
<1>2. NoneSwallowed
  <2>1. ASSUME NEW j, NEW m, Noted(trail, j, m)
        PROVE  \E i \in UNION {Lines(e) : e \in 0 .. epoch} : trail[i].job = j /\ trail[i].minute = m
    <3>1. PICK i \in DOMAIN trail : trail[i].action # "finished" /\ trail[i].job = j /\ trail[i].minute = m
      BY <2>1 DEF Noted
    <3>2. trail[i].epoch \in 0 .. epoch
      <4>1. trail[i].epoch \in 0 .. MaxEpoch /\ epoch \in 0 .. MaxEpoch /\ trail[i].epoch <= epoch /\ MaxEpoch \in Nat
        BY <1>1, PlanAndTrail DEF LoopShape
      <4> QED
        BY <4>1
    <3>3. i \in Lines(trail[i].epoch)
      BY <3>1 DEF Lines
    <3> QED
      BY <3>1, <3>2, <3>3
  <2> QED
    BY <1>1, <2>1 DEF NoneForgotten, NoneSwallowed
<1> QED
  BY <1>1, <1>2 DEF ScheduleInv, LoopShape

\* As long as the process lives and the clock goes forward, a minute that a job matches has one line,
\* whatever happens between two looks.  As long as no two looks are more than ScanCap minutes apart
\* none is swallowed, the minutes that pass while a job runs included; what a longer gap exceeds
\* ScanCap by is dropped by the code, and after it the count begins anew (plan_tick, run_loop): for
\* any jobs, expressions, restarts and clocks set back.
THEOREM MinutesAreNoted == ScheduleSpec => []ScheduleInv
<1> QED
  BY ScheduleIInvInit, ScheduleInductive, ScheduleIInvIsEnough, PTL DEF ScheduleSpec

-----------------------------------------------------------------------------
(* Calendar *)

(***************************************************************************)
(* The calendar, for every day from 1970 on.  A day is a place in an era   *)
(* of 400 years: a century, a run of four years and a year in it, that     *)
(* begins in March, and a day of that year.                                *)
(***************************************************************************)
PlaceOK(a, b, c, r) ==
  a \in 0 .. 3 /\ b \in 0 .. 24 /\ c \in 0 .. 3 /\ r \in 0 .. 365 /\ (r = 365 => c = 3 /\ (b < 24 \/ a = 3))

YearOf(e, a, b, c) == 400 * e + 100 * a + 4 * b + c
DayOf(e, a, b, c, r) == 146097 * e + 36524 * a + 1461 * b + 365 * c + r

MonthOf(mp) == IF mp < 10 THEN mp + 3 ELSE mp - 9
MonthStart(mp) == (153 * mp + 2) \div 5

MonthYear(y, mp) == y + (IF MonthOf(mp) <= 2 THEN 1 ELSE 0)
InMonth(y, mp, r) == <<MonthYear(y, mp), MonthOf(mp), r - MonthStart(mp) + 1>>
DateOf(y, r) == InMonth(y, (5 * r + 2) \div 153, r)

LEMMA PlaceHasDate ==
  ASSUME NEW days \in Nat, NEW e \in Nat, NEW a, NEW b, NEW c, NEW r, PlaceOK(a, b, c, r),
         days + 719468 = DayOf(e, a, b, c, r)
  PROVE  Civil(days) = DateOf(YearOf(e, a, b, c), r)
<1> DEFINE w == 36524 * a + 1461 * b + 365 * c + r
           l == 24 * a + b + 365 * c + r
<1>0. /\ a \in Int /\ b \in Int /\ c \in Int /\ r \in Int /\ e \in Int
      /\ 0 <= a /\ a <= 3 /\ 0 <= b /\ b <= 24 /\ 0 <= c /\ c <= 3 /\ 0 <= r /\ r <= 365
      /\ (r = 365 => c = 3 /\ (b < 24 \/ a = 3))
  BY DEF PlaceOK
<1>1. days + 719468 = 146097 * e + w /\ w \in Int /\ 0 <= w /\ w < 146097
  BY <1>0 DEF DayOf
<1>2. Era(days) = e /\ DayOfEra(days) = w
  BY <1>0, <1>1 DEF Era, DayOfEra
<1>3. /\ l \in Int /\ l \div 1460 \in {0, 1} /\ (r = 365 => l \div 1460 = 1) /\ (r = 0 => l \div 1460 = 0)
      /\ w \div 1460 = 25 * a + b + l \div 1460
  BY <1>0
<1>4. w \div 36524 - w \div 146096 = a
  BY <1>0
<1>5. YearOfEra(w) = 100 * a + 4 * b + c
  BY <1>0, <1>1, <1>3, <1>4 DEF YearOfEra
<1>6. DayOfYear(w) = r
  BY <1>0, <1>1, <1>5 DEF DayOfYear
<1> QED
  BY <1>0, <1>2, <1>5, <1>6 DEF Civil, DateOf, InMonth, MonthYear, MonthOf, MonthStart, YearOf

LEMMA EveryDayHasAPlace ==
  ASSUME NEW n \in Nat
  PROVE  \E e \in Nat, a \in 0 .. 3, b \in 0 .. 24, c \in 0 .. 3, r \in 0 .. 365 :
           PlaceOK(a, b, c, r) /\ n = DayOf(e, a, b, c, r)
<1>2. PICK e \in Nat, f \in Nat : n = 146097 * e + f /\ f < 146097
  <2>1. PICK e \in Nat : 146097 * e <= n /\ n < 146097 * e + 146097
    <3>1. LET e == n \div 146097 IN e \in Nat /\ 146097 * e <= n /\ n < 146097 * e + 146097
      BY SMT
    <3> QED
      BY <3>1, SMT
  <2>2. n = 146097 * e + (n - 146097 * e) /\ n - 146097 * e \in Nat /\ n - 146097 * e < 146097
    BY <2>1, SMT
  <2> QED
    BY <2>2, SMT
<1>3. PICK a \in 0 .. 3, g \in Nat : f = 36524 * a + g /\ g < 36525 /\ (a < 3 => g < 36524)
  <2>1. PICK a \in 0 .. 3 : 36524 * a <= f /\ f < 36524 * a + 36525 /\ (a < 3 => f < 36524 * a + 36524)
    BY <1>2, SMT
  <2>2. f = 36524 * a + (f - 36524 * a) /\ f - 36524 * a \in Nat
    BY <2>1, SMT
  <2> QED
    BY <2>1, <2>2, SMT
<1>4. PICK b \in 0 .. 24, h \in Nat : g = 1461 * b + h /\ h < 1461
  <2>1. PICK b \in 0 .. 24 : 1461 * b <= g /\ g < 1461 * b + 1461
    <3>1. LET b == g \div 1461 IN b \in 0 .. 24 /\ 1461 * b <= g /\ g < 1461 * b + 1461
      BY <1>3, SMT
    <3> QED
      BY <3>1, SMT
  <2>2. g = 1461 * b + (g - 1461 * b) /\ g - 1461 * b \in Nat /\ g - 1461 * b < 1461
    BY <2>1, SMT
  <2> QED
    BY <2>2, SMT
<1>5. PICK c \in 0 .. 3, r \in 0 .. 365 : h = 365 * c + r /\ (c < 3 => r < 365)
  <2>1. PICK c \in 0 .. 3 : h - 365 * c \in 0 .. 365 /\ (c < 3 => h - 365 * c < 365)
    BY <1>4, SMT
  <2>2. h = 365 * c + (h - 365 * c)
    BY SMT
  <2> QED
    BY <2>1, <2>2, SMT
<1>6. PlaceOK(a, b, c, r)
  BY <1>3, <1>4, <1>5, SMT DEF PlaceOK
<1>7. n = DayOf(e, a, b, c, r)
  BY <1>2, <1>3, <1>4, <1>5, SMT DEF DayOf
<1> QED
  BY <1>6, <1>7, Zenon

LEMMA LeapYears ==
  ASSUME NEW e \in Nat, NEW a \in 0 .. 3, NEW b \in 0 .. 24, NEW c \in 0 .. 3
  PROVE  Leap(YearOf(e, a, b, c) + 1) <=> c = 3 /\ (b < 24 \/ a = 3)
BY SMT DEF Leap, YearOf

\* The r-th day of a year that begins in March is one of the month mp of it.
DayIn(mp, r) == MonthStart(mp) <= r /\ (mp < 11 => r < MonthStart(mp + 1))

LEMMA MonthOfDay ==
  ASSUME NEW r \in 0 .. 365
  PROVE  \E mp \in 0 .. 11 : DayIn(mp, r)
<1>1. (5 * r + 2) \div 153 \in 0 .. 11 /\ DayIn((5 * r + 2) \div 153, r)
  BY SMT DEF DayIn, MonthStart
<1> QED
  BY <1>1, SMT

LEMMA DateIs ==
  ASSUME NEW y \in Int, NEW r \in 0 .. 365, NEW mp \in 0 .. 11, DayIn(mp, r)
  PROVE  DateOf(y, r) = InMonth(y, mp, r)
<1>1. (5 * r + 2) \div 153 = mp
  BY SMT DEF DayIn, MonthStart
<1> QED
  BY <1>1, SMT DEF DateOf

LEMMA MonthLength ==
  ASSUME NEW y \in Int, NEW mp \in 0 .. 10
  PROVE  DaysInMonth(MonthYear(y, mp), MonthOf(mp)) = MonthStart(mp + 1) - MonthStart(mp)
BY SMT DEF MonthStart, MonthOf, MonthYear, DaysInMonth

\* The day after a day of a year that begins in March, and the first day of the next such year.
LEMMA NextInYear ==
  ASSUME NEW y \in Int, NEW r \in 0 .. 364, r = 364 => Leap(y + 1)
  PROVE  Tomorrow(DateOf(y, r)) = DateOf(y, r + 1)
<1>0. r \in 0 .. 365 /\ r + 1 \in 0 .. 365
  BY SMT
<1>1. PICK mp \in 0 .. 11 : DayIn(mp, r)
  BY <1>0, MonthOfDay, Zenon
<1>2. /\ MonthYear(y, mp) \in Int /\ MonthOf(mp) \in 1 .. 12
      /\ MonthStart(mp) \in Nat /\ MonthStart(mp + 1) \in Nat
  BY SMT DEF MonthStart, MonthOf, MonthYear
<1>3. DateOf(y, r) = InMonth(y, mp, r)
  BY <1>0, <1>1, DateIs, Zenon
<1>4. CASE mp < 11 /\ r + 1 < MonthStart(mp + 1)
  <2>1. DayIn(mp, r + 1)
    BY <1>1, <1>2, <1>4, SMT DEF DayIn
  <2>2. DateOf(y, r + 1) = InMonth(y, mp, r + 1)
    BY <1>0, <2>1, DateIs, Zenon
  <2>3. DaysInMonth(MonthYear(y, mp), MonthOf(mp)) = MonthStart(mp + 1) - MonthStart(mp)
    BY <1>4, MonthLength, SMT
  <2> QED
    BY <1>2, <1>3, <1>4, <2>2, <2>3, SMT DEF Tomorrow, InMonth
<1>5. CASE mp < 11 /\ r + 1 = MonthStart(mp + 1)
  <2>1. mp + 1 \in 0 .. 11 /\ DayIn(mp + 1, r + 1)
    BY <1>5, SMT DEF DayIn, MonthStart
  <2>2. DateOf(y, r + 1) = InMonth(y, mp + 1, r + 1)
    BY <1>0, <2>1, DateIs, Zenon
  <2>3. DaysInMonth(MonthYear(y, mp), MonthOf(mp)) = MonthStart(mp + 1) - MonthStart(mp)
    BY <1>5, MonthLength, SMT
  <2>4. IF MonthOf(mp) < 12 THEN MonthYear(y, mp + 1) = MonthYear(y, mp) /\ MonthOf(mp + 1) = MonthOf(mp) + 1
        ELSE MonthYear(y, mp + 1) = MonthYear(y, mp) + 1 /\ MonthOf(mp + 1) = 1
    BY <1>5, SMT DEF MonthOf, MonthYear
  <2> QED
    BY <1>2, <1>3, <1>5, <2>2, <2>3, <2>4, SMT DEF Tomorrow, InMonth
<1>6. CASE mp = 11
  <2>1. DayIn(mp, r + 1)
    BY <1>1, <1>2, <1>6, SMT DEF DayIn
  <2>2. DateOf(y, r + 1) = InMonth(y, mp, r + 1)
    BY <1>0, <2>1, DateIs, Zenon
  <2>3. MonthYear(y, mp) = y + 1 /\ MonthOf(mp) = 2 /\ MonthStart(mp) = 337
    BY <1>6, SMT DEF MonthOf, MonthStart, MonthYear
  <2>4. r - MonthStart(mp) + 1 < DaysInMonth(MonthYear(y, mp), MonthOf(mp))
    BY <2>3, SMT DEF DaysInMonth
  <2> QED
    BY <1>2, <1>3, <2>2, <2>4, SMT DEF Tomorrow, InMonth
<1> QED
  BY <1>1, <1>2, <1>4, <1>5, <1>6, SMT DEF DayIn

LEMMA NextYear ==
  ASSUME NEW y \in Int, NEW r \in 364 .. 365, r = 365 <=> Leap(y + 1)
  PROVE  Tomorrow(DateOf(y, r)) = DateOf(y + 1, 0)
<1>0. /\ MonthStart(0) = 0 /\ MonthStart(1) = 31 /\ MonthStart(11) = 337 /\ MonthOf(0) = 3 /\ MonthOf(11) = 2
      /\ MonthYear(y, 11) = y + 1 /\ MonthYear(y + 1, 0) = y + 1
  BY SMT DEF MonthStart, MonthOf, MonthYear
<1>1. DateOf(y, r) = <<y + 1, 2, r - 337 + 1>>
  <2>1. r \in 0 .. 365 /\ 11 \in 0 .. 11 /\ DayIn(11, r)
    BY <1>0, SMT DEF DayIn
  <2>2. DateOf(y, r) = InMonth(y, 11, r)
    BY <2>1, DateIs, Zenon
  <2> QED
    BY <1>0, <2>2, SMT DEF InMonth
<1>2. DateOf(y + 1, 0) = <<y + 1, 3, 1>>
  <2>1. y + 1 \in Int /\ 0 \in 0 .. 365 /\ 0 \in 0 .. 11 /\ DayIn(0, 0)
    BY <1>0, SMT DEF DayIn
  <2>2. DateOf(y + 1, 0) = InMonth(y + 1, 0, 0)
    BY <2>1, DateIs, Zenon
  <2> QED
    BY <1>0, <2>2, SMT DEF InMonth
<1>3. DaysInMonth(y + 1, 2) = r - 337 + 1
  BY SMT DEF DaysInMonth
<1> QED
  BY <1>1, <1>2, <1>3, SMT DEF Tomorrow

\* The date of the next day is the day after the date (civil_from_days, increment_minute).
LEMMA DayAfter ==
  ASSUME NEW days \in Nat
  PROVE  Civil(days + 1) = Tomorrow(Civil(days))
<1>0. PICK n \in Nat : n = days + 719468
  BY SMT
<1>1. PICK e \in Nat, a \in 0 .. 3, b \in 0 .. 24, c \in 0 .. 3, r \in 0 .. 365 :
        PlaceOK(a, b, c, r) /\ n = DayOf(e, a, b, c, r)
  BY EveryDayHasAPlace, Zenon
<1> DEFINE y == YearOf(e, a, b, c)
<1>2. Civil(days) = DateOf(y, r)
  BY <1>0, <1>1, PlaceHasDate, SMT
<1>3. Leap(y + 1) <=> c = 3 /\ (b < 24 \/ a = 3)
  BY LeapYears, Zenon
<1>4. y \in Int
  BY SMT DEF YearOf
<1>5. CASE r < 364 \/ (r = 364 /\ Leap(y + 1))
  <2>1. r \in 0 .. 364 /\ r + 1 \in 0 .. 365
    BY <1>5, SMT
  <2>2. PlaceOK(a, b, c, r + 1)
    BY <1>1, <1>3, <1>5, <2>1, SMT DEF PlaceOK
  <2>3. days + 1 + 719468 = DayOf(e, a, b, c, r + 1)
    BY <1>0, <1>1, SMT DEF DayOf
  <2>4. Civil(days + 1) = DateOf(y, r + 1)
    BY <2>2, <2>3, PlaceHasDate, SMT
  <2>5. r = 364 => Leap(y + 1)
    BY <1>5, SMT
  <2> HIDE DEF y
  <2>6. Tomorrow(DateOf(y, r)) = DateOf(y, r + 1)
    BY <1>4, <2>1, <2>5, NextInYear, Zenon
  <2> QED
    BY <1>2, <2>4, <2>6, Zenon
<1>6. CASE ~ (r < 364 \/ (r = 364 /\ Leap(y + 1)))
  <2>1. r \in 364 .. 365 /\ (r = 365 <=> Leap(y + 1))
    BY <1>1, <1>3, <1>6, SMT DEF PlaceOK
  <2>2. PICK f \in Nat, g \in 0 .. 3, h \in 0 .. 24, k \in 0 .. 3 :
          YearOf(f, g, h, k) = y + 1 /\ days + 1 + 719468 = DayOf(f, g, h, k, 0)
    <3>1. CASE c < 3
      <4>1. /\ YearOf(e, a, b, c + 1) = y + 1 /\ days + 1 + 719468 = DayOf(e, a, b, c + 1, 0)
            /\ c + 1 \in 0 .. 3
        BY <1>0, <1>1, <1>3, <2>1, <3>1, SMT DEF YearOf, DayOf
      <4> QED
        BY <4>1, SMT
    <3>2. CASE c = 3 /\ b < 24
      <4>1. /\ YearOf(e, a, b + 1, 0) = y + 1 /\ days + 1 + 719468 = DayOf(e, a, b + 1, 0, 0)
            /\ b + 1 \in 0 .. 24 /\ 0 \in 0 .. 3
        BY <1>0, <1>1, <1>3, <2>1, <3>2, SMT DEF YearOf, DayOf
      <4> QED
        BY <4>1, SMT
    <3>3. CASE c = 3 /\ b = 24 /\ a < 3
      <4>1. /\ YearOf(e, a + 1, 0, 0) = y + 1 /\ days + 1 + 719468 = DayOf(e, a + 1, 0, 0, 0)
            /\ a + 1 \in 0 .. 3 /\ 0 \in 0 .. 3 /\ 0 \in 0 .. 24
        BY <1>0, <1>1, <1>3, <2>1, <3>3, SMT DEF YearOf, DayOf
      <4> QED
        BY <4>1, SMT
    <3>4. CASE c = 3 /\ b = 24 /\ a = 3
      <4>1. /\ YearOf(e + 1, 0, 0, 0) = y + 1 /\ days + 1 + 719468 = DayOf(e + 1, 0, 0, 0, 0)
            /\ e + 1 \in Nat /\ 0 \in 0 .. 3 /\ 0 \in 0 .. 24
        BY <1>0, <1>1, <1>3, <2>1, <3>4, SMT DEF YearOf, DayOf
      <4> QED
        BY <4>1, SMT
    <3> QED
      BY <3>1, <3>2, <3>3, <3>4, SMT
  <2>3. PlaceOK(g, h, k, 0)
    BY SMT DEF PlaceOK
  <2>4. Civil(days + 1) = DateOf(y + 1, 0)
    BY <2>2, <2>3, PlaceHasDate, SMT
  <2> HIDE DEF y
  <2>5. Tomorrow(DateOf(y, r)) = DateOf(y + 1, 0)
    BY <1>4, <2>1, NextYear, Zenon
  <2> QED
    BY <1>2, <2>4, <2>5, Zenon
<1> QED
  BY <1>5, <1>6, Zenon

\* The days of a year before a month, and the leap years before a year.
DatesBefore(y, m) == {p \in (1 .. m - 1) \X (1 .. 31) : p[2] <= DaysInMonth(y, p[1])}
DaysBefore(y, m) == Cardinality(DatesBefore(y, m))
LeapsBefore(y) == Cardinality({x \in 1970 .. y - 1 : Leap(x)})

Since1970(y) == y >= 1970

LEMMA WeekdayIs ==
  ASSUME NEW y, NEW m, NEW d
  PROVE  WeekdayIndex(y, m, d) = (365 * (y - 1970) + LeapsBefore(y) + DaysBefore(y, m) + d - 1 + 4) % 7
BY Zenon DEF WeekdayIndex, LeapsBefore, DaysBefore, DatesBefore

LEMMA MonthAdds ==
  ASSUME NEW y \in Int, NEW m \in 1 .. 12
  PROVE  /\ DaysBefore(y, m) \in Nat
         /\ DaysBefore(y, m + 1) = DaysBefore(y, m) + DaysInMonth(y, m)
         /\ DaysInMonth(y, m) \in 28 .. 31
<1> DEFINE New == {m} \X (1 .. DaysInMonth(y, m))
<1>1. DaysInMonth(y, m) \in 28 .. 31
  BY SMT DEF DaysInMonth
<1>2. IsFiniteSet(DatesBefore(y, m))
  <2>0. 1 \in Int /\ m - 1 \in Int /\ 31 \in Int
    BY SMT
  <2>1. IsFiniteSet(1 .. m - 1) /\ IsFiniteSet(1 .. 31)
    BY <2>0, FS_Interval, Zenon
  <2>2. IsFiniteSet((1 .. m - 1) \X (1 .. 31))
    BY <2>1, FS_Product, Zenon
  <2>3. DatesBefore(y, m) \subseteq (1 .. m - 1) \X (1 .. 31)
    BY Zenon DEF DatesBefore
  <2> QED
    BY <2>2, <2>3, FS_Subset, Zenon
<1>3. IsFiniteSet(New) /\ Cardinality(New) = DaysInMonth(y, m)
  <2>1. IsFiniteSet({m}) /\ Cardinality({m}) = 1
    BY FS_Singleton, Zenon
  <2>2. IsFiniteSet(1 .. DaysInMonth(y, m)) /\ Cardinality(1 .. DaysInMonth(y, m)) = DaysInMonth(y, m)
    <3> DEFINE n == DaysInMonth(y, m)
    <3>1. 1 \in Int /\ n \in Int /\ 1 <= n
      BY <1>1, SMT
    <3> HIDE DEF n
    <3>2. IsFiniteSet(1 .. n) /\ Cardinality(1 .. n) = IF 1 > n THEN 0 ELSE n - 1 + 1
      BY <3>1, FS_Interval, Zenon
    <3>3. IsFiniteSet(1 .. n) /\ Cardinality(1 .. n) = n
      BY <3>1, <3>2, SMT
    <3> QED
      BY <3>3 DEF n
  <2>3. IsFiniteSet(New) /\ Cardinality(New) = Cardinality({m}) * Cardinality(1 .. DaysInMonth(y, m))
    BY <2>1, <2>2, FS_Product, Zenon
  <2> QED
    BY <1>1, <2>1, <2>2, <2>3, SMT
<1>4. DatesBefore(y, m + 1) = DatesBefore(y, m) \cup New
  <2>1. 1 .. m + 1 - 1 = (1 .. m - 1) \cup {m}
    BY SMT
  <2>2. ASSUME NEW p \in (1 .. m) \X (1 .. 31), p[2] <= DaysInMonth(y, p[1])
        PROVE  p \in DatesBefore(y, m) \cup New
    BY <1>1, <2>2, SMT DEF DatesBefore
  <2>3. ASSUME NEW p \in New PROVE p \in (1 .. m) \X (1 .. 31) /\ p[2] <= DaysInMonth(y, p[1])
    BY <1>1, <2>3, SMT
  <2>4. ASSUME NEW p \in DatesBefore(y, m) PROVE p \in (1 .. m) \X (1 .. 31) /\ p[2] <= DaysInMonth(y, p[1])
    BY <2>4, SMT DEF DatesBefore
  <2>5. m + 1 - 1 = m
    BY SMT
  <2>6. \A p : p \in DatesBefore(y, m + 1) <=> p \in (1 .. m) \X (1 .. 31) /\ p[2] <= DaysInMonth(y, p[1])
    BY <2>5, SMT DEF DatesBefore
  <2> HIDE DEF New
  <2> QED
    BY <2>2, <2>3, <2>4, <2>6, Zenon
<1>5. DatesBefore(y, m) \cap New = {}
  BY SMT DEF DatesBefore
<1>6. Cardinality(DatesBefore(y, m)) \in Nat /\ Cardinality({}) = 0
  BY <1>2, FS_CardinalityType, FS_EmptySet, Zenon
<1> HIDE DEF New
<1>7. Cardinality(DatesBefore(y, m) \cup New)
        = Cardinality(DatesBefore(y, m)) + Cardinality(New) - Cardinality(DatesBefore(y, m) \cap New)
  BY <1>2, <1>3, FS_Union, Zenon
<1>8. DaysBefore(y, m + 1) = Cardinality(DatesBefore(y, m)) + Cardinality(New) - 0
  BY <1>4, <1>5, <1>6, <1>7, Zenon DEF DaysBefore
<1>9. DaysBefore(y, m) = Cardinality(DatesBefore(y, m))
  BY Zenon DEF DaysBefore
<1> QED
  BY <1>1, <1>3, <1>6, <1>8, <1>9, SMT

LEMMA YearHas ==
  ASSUME NEW y \in Int
  PROVE  DaysBefore(y, 1) = 0 /\ DaysBefore(y, 12) = 334 + (IF Leap(y) THEN 1 ELSE 0)
<1> DEFINE l == IF Leap(y) THEN 1 ELSE 0
<1>1. DaysBefore(y, 1) = 0
  <2>1. 1 .. 1 - 1 = {}
    BY SMT
  <2>2. DatesBefore(y, 1) = {}
    BY <2>1, SMT DEF DatesBefore
  <2> QED
    BY <2>2, FS_EmptySet, Zenon DEF DaysBefore
<1>2. /\ \A m \in {1, 3, 5, 7, 8, 10, 12} : DaysInMonth(y, m) = 31
      /\ \A m \in {4, 6, 9, 11} : DaysInMonth(y, m) = 30
      /\ DaysInMonth(y, 2) = 28 + l
  BY SMT DEF DaysInMonth
<1>3. l \in {0, 1}
  BY SMT
<1> HIDE DEF l
<1>4. \A m \in 1 .. 11 : DaysBefore(y, m + 1) = DaysBefore(y, m) + DaysInMonth(y, m)
  <2>1. ASSUME NEW m \in 1 .. 11 PROVE m \in 1 .. 12
    BY SMT
  <2> QED
    BY <2>1, MonthAdds, Zenon
<1>5. DaysBefore(y, 2) = 31 /\ DaysBefore(y, 3) = 59 + l
  BY <1>1, <1>2, <1>3, <1>4, SMT
<1>6. DaysBefore(y, 4) = 90 + l /\ DaysBefore(y, 5) = 120 + l
  BY <1>2, <1>3, <1>4, <1>5, SMT
<1>7. DaysBefore(y, 6) = 151 + l /\ DaysBefore(y, 7) = 181 + l
  BY <1>2, <1>3, <1>4, <1>6, SMT
<1>8. DaysBefore(y, 8) = 212 + l /\ DaysBefore(y, 9) = 243 + l
  BY <1>2, <1>3, <1>4, <1>7, SMT
<1>9. DaysBefore(y, 10) = 273 + l /\ DaysBefore(y, 11) = 304 + l
  BY <1>2, <1>3, <1>4, <1>8, SMT
<1>10. DaysBefore(y, 12) = 334 + l
  BY <1>2, <1>3, <1>4, <1>9, SMT
<1> QED
  BY <1>1, <1>10 DEF l

LEMMA LeapAdds ==
  ASSUME NEW y \in Int, Since1970(y)
  PROVE  /\ LeapsBefore(y) \in Nat
         /\ LeapsBefore(y + 1) = LeapsBefore(y) + (IF Leap(y) THEN 1 ELSE 0)
<1> DEFINE S == {x \in 1970 .. y - 1 : Leap(x)}
<1>1. IsFiniteSet(S) /\ Cardinality(S) \in Nat
  <2>1. IsFiniteSet(1970 .. y - 1)
    BY FS_Interval, SMT
  <2>2. S \subseteq 1970 .. y - 1
    OBVIOUS
  <2> QED
    BY <2>1, <2>2, FS_Subset, FS_CardinalityType
<1>2. {x \in 1970 .. y + 1 - 1 : Leap(x)} = IF Leap(y) THEN S \cup {y} ELSE S
  BY SMT DEF Since1970
<1>3. y \notin S
  BY SMT
<1> HIDE DEF S
<1>4. Cardinality(S \cup {y}) = Cardinality(S) + 1
  BY <1>1, <1>3, FS_AddElement
<1>5. LeapsBefore(y) = Cardinality(S) /\ LeapsBefore(y + 1) = Cardinality(IF Leap(y) THEN S \cup {y} ELSE S)
  BY <1>2 DEF LeapsBefore, S
<1> QED
  BY <1>1, <1>3, <1>4, <1>5, SMT

\* A date from 1970 on; the next one falls on the next day of the week.
IsDate(t) ==
  \E y \in Int, m \in 1 .. 12, d \in Nat : t = <<y, m, d>> /\ Since1970(y) /\ 1 <= d /\ d <= DaysInMonth(y, m)

LEMMA DateHolds ==
  ASSUME NEW y \in Int, NEW m \in 1 .. 12, NEW d \in Nat, Since1970(y), 1 <= d, d <= DaysInMonth(y, m)
  PROVE  IsDate(<<y, m, d>>)
BY SMT DEF IsDate

WeekdayOf(t) == WeekdayIndex(t[1], t[2], t[3])

LEMMA NextWeekday ==
  ASSUME NEW t, IsDate(t)
  PROVE  /\ IsDate(Tomorrow(t))
         /\ \E n \in Nat : WeekdayOf(t) = n % 7 /\ WeekdayOf(Tomorrow(t)) = (n + 1) % 7
<1>1. PICK y \in Int, m \in 1 .. 12, d \in Nat : t = <<y, m, d>> /\ Since1970(y) /\ 1 <= d /\ d <= DaysInMonth(y, m)
  BY Zenon DEF IsDate
<1> DEFINE b(x) == 365 * (x - 1970) + LeapsBefore(x)
           n == b(y) + DaysBefore(y, m) + d - 1 + 4
<1>2. /\ DaysBefore(y, m) \in Nat /\ DaysBefore(y, m + 1) = DaysBefore(y, m) + DaysInMonth(y, m)
      /\ DaysInMonth(y, m) \in 28 .. 31
  BY MonthAdds, Zenon
<1>3. LeapsBefore(y) \in Nat /\ LeapsBefore(y + 1) = LeapsBefore(y) + (IF Leap(y) THEN 1 ELSE 0)
  BY <1>1, LeapAdds, Zenon
<1>4. b(y) \in Nat /\ n \in Nat /\ b(y + 1) = b(y) + (IF Leap(y) THEN 366 ELSE 365)
  BY <1>1, <1>2, <1>3, SMT DEF Since1970
<1>5. WeekdayOf(t) = n % 7
  BY <1>1, WeekdayIs, SMT DEF WeekdayOf
<1> HIDE DEF b
<1>6. CASE d < DaysInMonth(y, m)
  <2>1. Tomorrow(t) = <<y, m, d + 1>>
    BY <1>1, <1>6, SMT DEF Tomorrow
  <2>2. IsDate(Tomorrow(t))
    <3>1. d + 1 \in Nat /\ 1 <= d + 1 /\ d + 1 <= DaysInMonth(y, m)
      BY <1>2, <1>6, SMT
    <3> QED
      BY <1>1, <2>1, <3>1, DateHolds, Zenon
  <2>3. WeekdayOf(Tomorrow(t)) = (b(y) + DaysBefore(y, m) + (d + 1) - 1 + 4) % 7
    BY <2>1, WeekdayIs, SMT DEF WeekdayOf, b
  <2>4. b(y) + DaysBefore(y, m) + (d + 1) - 1 + 4 = n + 1
    BY <1>2, <1>4, SMT
  <2> HIDE DEF n
  <2> QED
    BY <1>4, <1>5, <2>2, <2>3, <2>4, Zenon
<1>7. CASE d = DaysInMonth(y, m) /\ m < 12
  <2>1. Tomorrow(t) = <<y, m + 1, 1>>
    BY <1>1, <1>7, SMT DEF Tomorrow
  <2>2. IsDate(Tomorrow(t))
    <3>1. m + 1 \in 1 .. 12 /\ 1 \in Nat /\ 1 <= 1
      BY <1>7, SMT
    <3>2. 1 <= DaysInMonth(y, m + 1)
      <4>1. DaysInMonth(y, m + 1) \in 28 .. 31
        BY <3>1, MonthAdds, Zenon
      <4> QED
        BY <4>1, SMT
    <3> QED
      BY <1>1, <2>1, <3>1, <3>2, DateHolds, Zenon
  <2>3. WeekdayOf(Tomorrow(t)) = (b(y) + DaysBefore(y, m + 1) + 1 - 1 + 4) % 7
    BY <2>1, WeekdayIs, SMT DEF WeekdayOf, b
  <2>4. b(y) + DaysBefore(y, m + 1) + 1 - 1 + 4 = n + 1
    BY <1>2, <1>4, <1>7, SMT
  <2> HIDE DEF n
  <2> QED
    BY <1>4, <1>5, <2>2, <2>3, <2>4, Zenon
<1>8. CASE d = DaysInMonth(y, m) /\ m = 12
  <2>1. Tomorrow(t) = <<y + 1, 1, 1>>
    BY <1>1, <1>8, SMT DEF Tomorrow
  <2>2. IsDate(Tomorrow(t))
    <3>1. y + 1 \in Int /\ Since1970(y + 1) /\ 1 \in 1 .. 12 /\ 1 \in Nat /\ 1 <= 1
      BY <1>1, SMT DEF Since1970
    <3>2. 1 <= DaysInMonth(y + 1, 1)
      BY <3>1, SMT DEF DaysInMonth
    <3> QED
      BY <2>1, <3>1, <3>2, DateHolds, Zenon
  <2>3. WeekdayOf(Tomorrow(t)) = (b(y + 1) + DaysBefore(y + 1, 1) + 1 - 1 + 4) % 7
    BY <2>1, WeekdayIs, SMT DEF WeekdayOf, b
  <2>4. /\ DaysBefore(y + 1, 1) = 0
        /\ DaysBefore(y, m) = 334 + (IF Leap(y) THEN 1 ELSE 0)
        /\ DaysInMonth(y, m) = 31
    <3>1. y + 1 \in Int /\ DaysInMonth(y, 12) = 31
      BY SMT DEF DaysInMonth
    <3> QED
      BY <1>8, <3>1, YearHas, SMT
  <2>5. b(y + 1) + DaysBefore(y + 1, 1) + 1 - 1 + 4 = n + 1
    BY <1>2, <1>4, <1>8, <2>4, SMT
  <2> HIDE DEF n
  <2> QED
    BY <1>4, <1>5, <2>2, <2>3, <2>5, Zenon
<1> QED
  BY <1>1, <1>2, <1>6, <1>7, <1>8, SMT

\* Every day has a date, with the day of the week that its number gives.
Dated(n) == IsDate(Civil(n)) /\ WeekdayOf(Civil(n)) = (n + 4) % 7

LEMMA FirstDay == Dated(0)
<1>1. Civil(0) = <<1970, 1, 1>>
  <2>1. PlaceOK(3, 17, 1, 306) /\ 0 + 719468 = DayOf(4, 3, 17, 1, 306)
    BY SMT DEF PlaceOK, DayOf
  <2>2. Civil(0) = DateOf(YearOf(4, 3, 17, 1), 306)
    BY <2>1, PlaceHasDate, SMT
  <2>3. YearOf(4, 3, 17, 1) = 1969
    BY SMT DEF YearOf
  <2>4. DateOf(1969, 306) = <<1970, 1, 1>>
    BY SMT DEF DateOf, InMonth, MonthYear, MonthOf, MonthStart
  <2> QED
    BY <2>2, <2>3, <2>4, SMT
<1>2. IsDate(<<1970, 1, 1>>)
  BY SMT DEF IsDate, DaysInMonth, Since1970
<1>3. LeapsBefore(1970) = 0
  <2>1. {x \in 1970 .. 1970 - 1 : Leap(x)} = {}
    BY SMT
  <2> QED
    BY <2>1, FS_EmptySet, SMT DEF LeapsBefore
<1>4. DaysBefore(1970, 1) = 0
  BY YearHas, SMT
<1>5. WeekdayIndex(1970, 1, 1) = 4 % 7
  BY <1>3, <1>4, WeekdayIs, SMT
<1> QED
  BY <1>1, <1>2, <1>5, SMT DEF Dated, WeekdayOf

LEMMA NextDayDated ==
  ASSUME NEW n \in Nat, Dated(n)
  PROVE  Dated(n + 1)
<1>1. Civil(n + 1) = Tomorrow(Civil(n))
  BY DayAfter, SMT
<1>2. IsDate(Tomorrow(Civil(n)))
  BY NextWeekday, Zenon DEF Dated
<1>3. PICK k \in Nat : WeekdayOf(Civil(n)) = k % 7 /\ WeekdayOf(Tomorrow(Civil(n))) = (k + 1) % 7
  BY NextWeekday, Zenon DEF Dated
<1>4. k % 7 = (n + 4) % 7
  BY <1>3, Zenon DEF Dated
<1>5. (k + 1) % 7 = (n + 1 + 4) % 7
  BY <1>4, SMT
<1> QED
  BY <1>1, <1>2, <1>3, <1>5, Zenon DEF Dated

LEMMA EveryDayDated == \A n \in Nat : Dated(n)
<1> SUFFICES ASSUME NEW T, T = {n \in Nat : ~ Dated(n)}, T # {} PROVE FALSE
  BY Zenon
<1>1. T \subseteq Nat
  BY Zenon
<1>2. PICK n \in T : \A k \in T : ~ (<<k, n>> \in OpToRel(<, Nat))
  BY <1>1, NatLessThanWellFounded, WFMin, Zenon
<1>3. \A k \in T : ~ (k < n)
  BY <1>1, <1>2 DEF OpToRel
<1>4. n \in Nat /\ ~ Dated(n)
  BY <1>2, Zenon
<1>5. n # 0
  BY <1>4, FirstDay, Zenon
<1>6. n - 1 \in Nat /\ n - 1 < n /\ n - 1 + 1 = n
  BY <1>4, <1>5, SMT
<1>7. Dated(n - 1)
  BY <1>3, <1>6, Zenon
<1>8. Dated(n - 1 + 1)
  BY <1>6, <1>7, NextDayDated, Zenon
<1> QED
  BY <1>4, <1>6, <1>8, Zenon

\* A field that names the Sunday with 0 selects the days that it selects with 7 (CronExpr::matches).
LEMMA SundayIsEither ==
  ASSUME NEW n \in Nat, Dated(n)
  PROVE  LET y == Civil(n)[1]  m == Civil(n)[2]  d == Civil(n)[3]
         IN \A dom \in {1 .. 31, {13}, {1, 31}} : \A rest \in {{}, {1}, 4 .. 6} :
              DayMatches(dom, rest \cup {0}, y, m, d) = DayMatches(dom, rest \cup {7}, y, m, d)
<1> DEFINE y == Civil(n)[1]
           m == Civil(n)[2]
           d == Civil(n)[3]
<1>1. WeekdayIndex(y, m, d) \in 0 .. 6
  <2>1. (n + 4) % 7 \in 0 .. 6
    BY SMT
  <2> QED
    BY <2>1, Zenon DEF Dated, WeekdayOf
<1> HIDE DEF y, m, d
<1>2. ASSUME NEW dom, NEW rest \in {{}, {1}, 4 .. 6}
      PROVE  DayMatches(dom, rest \cup {0}, y, m, d) = DayMatches(dom, rest \cup {7}, y, m, d)
  <2>1. 7 \notin rest \cup {0} /\ 0 \notin rest \cup {7}
    BY SMT
  <2>2. rest \cup {0} # 0 .. 7 /\ rest \cup {7} # 0 .. 7
    <3>1. 0 \in 0 .. 7 /\ 7 \in 0 .. 7
      BY SMT
    <3> QED
      BY <2>1, <3>1, Zenon
  <2> DEFINE w == WeekdayIndex(y, m, d)
  <2>3. w \in 0 .. 6
    BY <1>1
  <2> HIDE DEF w
  <2>4. (w \in rest \cup {0} \/ (w = 0 /\ 7 \in rest \cup {0})) = (w \in rest \cup {7} \/ (w = 0 /\ 7 \in rest \cup {7}))
    BY <2>1, <2>3, SMT
  <2> QED
    BY <2>2, <2>4, Zenon DEF DayMatches, w
<1> QED
  BY <1>2, Zenon DEF y, m, d

LEMMA DayIsNat == CalendarSpec => [](day \in Nat)
<1>1. CalendarInit => day \in Nat
  BY CalendarAssumption DEF CalendarInit
<1>2. day \in Nat /\ [NextDay]_calendarVars => (day \in Nat)'
  BY DEF NextDay, calendarVars
<1> QED
  BY <1>1, <1>2, PTL DEF CalendarSpec

\* For every day from 1970 on, from wherever the walk begins: the day after a date is the date of the
\* next day, the day of the week of a date is that of its number, and 0 and 7 name the same day
\* (civil_from_days, increment_minute, weekday_index, CronExpr::matches).
THEOREM CalendarAlwaysAgrees == CalendarSpec => []CalendarInv
<1>1. day \in Nat => CalendarInv
  <2> SUFFICES ASSUME day \in Nat PROVE CalendarAgrees /\ SundayEither
    BY Zenon DEF CalendarInv
  <2>1. Dated(day)
    BY EveryDayDated, Zenon
  <2>2. Civil(day + 1) = Tomorrow(Civil(day))
    BY DayAfter, Zenon
  <2>3. CalendarAgrees
    BY <2>1, <2>2, Zenon DEF CalendarAgrees, Dated, WeekdayOf
  <2>4. SundayEither
    BY <2>1, SundayIsEither, Zenon DEF SundayEither
  <2> QED
    BY <2>3, <2>4
<1> QED
  BY <1>1, DayIsNat, PTL
=============================================================================
