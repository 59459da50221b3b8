------------------------------ MODULE MCRecords ------------------------------
\* The records the agents keep outside the journal, for TLC: the event track, the checkpoints of the
\* workspace and the memory have no state in common, and each behaviour is one of one of them.  The
\* memory is looked at once for the events of two managers and once for the session of one.
EXTENDS EventTrack, Checkpoints, MemoryCache

CONSTANTS m1, topic, topic2
VARIABLE focus

TopicPrefix == {<<topic, topic2>>}

Init ==
  /\ TrackInit /\ CheckpointInit /\ MemoryInit
  /\ focus \in {"track", "checkpoints", "events", "session"}
  /\ focus # "track" => owner = "mcp"
  /\ focus # "checkpoints" => \A p \in Path : disk[p] = Gone

Next ==
  /\ UNCHANGED focus
  /\ \/ focus = "track" /\ TrackNext /\ UNCHANGED <<checkpointVars, memoryVars>>
     \/ focus = "checkpoints" /\ CheckpointNext /\ UNCHANGED <<trackVars, memoryVars>>
     \/ focus = "events" /\ MemoryStep(Manager, Event) /\ UNCHANGED <<trackVars, checkpointVars>>
     \/ focus = "session" /\ MemoryStep({m1}, SessionKey) /\ UNCHANGED <<trackVars, checkpointVars>>

Spec == Init /\ [][Next]_<<focus, trackVars, checkpointVars, memoryVars>>
=============================================================================
