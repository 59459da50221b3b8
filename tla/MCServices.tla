----------------------------- MODULE MCServices -----------------------------
\* What runs beside the agents in the server process, for TLC: the MCP servers and their supervisor,
\* the schedule and the calendar of its expressions, and the task runs.  They share no state, and each
\* behaviour is one of one of them.
EXTENDS McpServers, Scheduler, Calendar, TaskRuns

VARIABLE focus

services == <<mcpVars, scheduleVars, calendarVars, taskVars>>

\* j2 comes first in the configuration; j1 is due every minute, j2 in minutes 1 and 3.
JobOrder == <<"j2", "j1">>
JobMinutes == [j1 |-> 0..9, j2 |-> {1, 3}]
\* One run is watched by the viewer, has output and is cancelled, also twice; the
\* other competes with it for the label and the room.
OneLabel == [r \in Run |-> "l"]
WatchedOutput == [r \in Run |-> IF r = WatchedRun THEN 1 ELSE 0]
WatchedCancels == [r \in Run |-> IF r = WatchedRun THEN 2 ELSE 0]

Supervising == focus = "mcp" /\ UNCHANGED <<focus, scheduleVars, calendarVars, taskVars>>
Scheduling == focus = "schedule" /\ UNCHANGED <<focus, mcpVars, calendarVars, taskVars>>
Walking == focus = "calendar" /\ UNCHANGED <<focus, mcpVars, scheduleVars, taskVars>>
Watching == focus = "tasks" /\ UNCHANGED <<focus, mcpVars, scheduleVars, calendarVars>>

Init ==
  /\ McpInit /\ ScheduleInit /\ CalendarInit /\ TaskInit
  /\ focus \in {"mcp", "schedule", "calendar", "tasks"}
  /\ focus # "mcp" => lastGen = 1
  /\ focus # "schedule" => clock = 0
  /\ focus # "calendar" => day = 0

Next ==
  \/ Supervising /\ McpNext
  \/ Scheduling /\ ScheduleNext
  \/ Walking /\ NextDay
  \/ Watching /\ TaskNext

\* A job's command that ends is waited for; the tasks of a task run and of its viewers keep running.
Fairness ==
  /\ WF_<<focus, services>>(Scheduling /\ Finished)
  /\ \A r \in Run : /\ WF_<<focus, services>>(Watching /\ TakeSignal(r))
                    /\ WF_<<focus, services>>(Watching /\ GraceOver(r))
                    /\ WF_<<focus, services>>(Watching /\ Watch(r))
  /\ WF_<<focus, services>>(Watching /\ Emits)
  /\ \A v \in Viewer : WF_<<focus, services>>(Watching /\ Forward(v))

Spec == Init /\ [][Next]_<<focus, services>> /\ Fairness

\* What was begun or stopped ends: a tick with a job that hangs, a cancelled task run whose process
\* ignores the interruption, and the stream of a viewer.
WorkEnds == TicksEnd /\ CancelStops /\ LiveSeesEnd
=============================================================================
