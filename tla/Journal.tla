------------------------------ MODULE Journal ------------------------------
(***************************************************************************)
(* The journal file of one session: append-only lines with consecutive     *)
(* sequence numbers and a hash chain, written by JournalWriter.            *)
(*                                                                         *)
(* A writer is opened by every turn of the session and by side tools (a    *)
(* manual compaction, a plan recovery).  open_with_mode scans the file     *)
(* first, then claims the session in the process-wide registry of active   *)
(* writers, then truncates the file to the length it scanned.  A crash     *)
(* ends every writer at once and may leave half a line; the next open      *)
(* repairs the tail and marks the crash.                                   *)
(*                                                                         *)
(* The chain hash of a line is collision-free here: the line's own stamp,  *)
(* unique per write (its content holds a timestamp), stands for it.        *)
(***************************************************************************)
EXTENDS Naturals, Sequences, FiniteSets, SequencesExt

CONSTANTS
  Opener,      \* tasks that open the journal of the session
  Handles,     \* handles (clones) of one writer that can be alive at a time
  MaxWrites    \* bound: lines ever written

ASSUME JournalAssumption ==
  /\ Handles \in Nat \ {0}
  /\ MaxWrites \in Nat

Genesis == 0   \* JOURNAL_CHAIN_GENESIS

VARIABLES
  created,   \* does the file exist
  file,      \* the complete lines on disk
  partial,   \* does half a line follow them
  stamp,     \* stamp of the last line written: hashes and contents are fresh
  active,    \* ACTIVE_WRITERS holds the session
  writer,    \* [Opener -> JournalInner plus the progress of open and drop]
  anchor,    \* the chain tail the engine's audit chain holds
  crashes,   \* crashes of the process so far
  overtaken  \* has a writer claimed a file that changed since its scan

vars == <<created, file, partial, stamp, active, writer, anchor, crashes, overtaken>>

Kind == {"session_opened", "turn_started", "turn_ended", "session_crashed", "event"}
Line == [seq : Nat, prev : Nat, hash : Nat, kind : Kind, turn : Nat]

\* What a cut in the middle of another writer's lines leaves: bytes that do
\* not decode.
Garbage == [seq |-> 0, prev |-> Genesis, hash |-> Genesis, kind |-> "event", turn |-> 0]

Closed == [pc |-> "closed", last_seq |-> 0, chain_tail |-> Genesis, cut |-> FALSE,
           turn_count |-> 0, turn_open |-> FALSE, mark |-> "none", rc |-> 0, leaving |-> 0,
           since |-> 0]

TypeOK ==
  /\ created \in BOOLEAN
  /\ file \in Seq(Line)
  /\ partial \in BOOLEAN
  /\ stamp \in 0 .. MaxWrites
  /\ active \in BOOLEAN
  /\ writer \in [Opener ->
       [pc : {"closed", "scanned", "claimed", "open", "ending"}, last_seq : Nat,
        chain_tail : Nat, cut : BOOLEAN, turn_count : Nat, turn_open : BOOLEAN,
        mark : {"none", "session_opened", "session_crashed"},
        rc : 0 .. Handles, leaving : 0 .. Handles, since : Nat]]
  /\ anchor \in Nat
  /\ crashes \in Nat
  /\ overtaken \in BOOLEAN

Init ==
  /\ created = FALSE
  /\ file = << >>
  /\ partial = FALSE
  /\ stamp = 0
  /\ active = FALSE
  /\ writer = [w \in Opener |-> Closed]
  /\ anchor = Genesis
  /\ crashes = 0
  /\ overtaken = FALSE

-----------------------------------------------------------------------------
(* Reading *)

\* The checks of open_with_mode and verify_journal_file: consecutive numbers
\* from 1, and every line chained to the one before it.
Verified(lines) ==
  \A i \in DOMAIN lines :
    /\ lines[i].seq = i
    /\ lines[i].prev = IF i = 1 THEN Genesis ELSE lines[i - 1].hash

Starts(lines) == {i \in DOMAIN lines : lines[i].kind = "turn_started"}

\* Mutant: only the last line tells that a turn was cut off.
TailHungAtLast(lines) == lines # << >> /\ Last(lines).kind = "turn_started"

\* A turn_started with no turn_ended after it: the last process died in a turn.
TailHung(lines) ==
  \E i \in DOMAIN lines :
    /\ lines[i].kind = "turn_started"
    /\ \A j \in i + 1 .. Len(lines) : lines[j].kind # "turn_ended"

LastIsCrash(lines) == lines # << >> /\ Last(lines).kind = "session_crashed"

-----------------------------------------------------------------------------
(* open_with_mode *)

\* Read the file: the New mode refuses a file with lines, the Resume mode one
\* that does not verify; the writer's counters come from what was read.
Scan(w, mode) ==
  /\ writer[w].pc = "closed"
  /\ mode = "New" => file = << >> /\ ~partial
  /\ Verified(file)
  /\ writer' = [writer EXCEPT ![w] =
       [Closed EXCEPT
          !.pc = "scanned",
          !.last_seq = Len(file),
          !.chain_tail = IF file = << >> THEN Genesis ELSE Last(file).hash,
          !.cut = created,
          !.turn_count = Cardinality(Starts(file)),
          !.mark = IF mode = "New" THEN "session_opened"
                   ELSE IF TailHung(file) /\ ~LastIsCrash(file) THEN "session_crashed"
                   ELSE "none"]]
  /\ UNCHANGED <<created, file, partial, stamp, active, anchor, crashes, overtaken>>

\* The file is not the one the writer has scanned.
Outdated(w) ==
  \/ writer[w].last_seq # Len(file)
  \/ writer[w].chain_tail # IF file = << >> THEN Genesis ELSE Last(file).hash

\* set_len to the length of the scanned lines.  The writer may find other lines
\* than it scanned: then the cut falls anywhere in them, or pads the file.
CutTo(w) ==
  LET n == writer[w].last_seq IN
    IF ~writer[w].cut THEN file
    ELSE IF n = 0 \/ (n <= Len(file) /\ file[n].hash = writer[w].chain_tail) THEN SubSeq(file, 1, n)
    ELSE Append(SubSeq(file, 1, IF n <= Len(file) THEN n - 1 ELSE Len(file)), Garbage)

\* Mutant: the last complete line goes with the half line.
ClaimDropsLine(w) ==
  /\ writer[w].pc = "scanned"
  /\ ~active
  /\ active' = TRUE
  /\ created' = TRUE
  /\ file' = IF partial /\ file # << >> THEN Front(file) ELSE CutTo(w)
  /\ partial' = FALSE
  /\ writer' = [writer EXCEPT ![w].pc = "claimed", ![w].rc = 1]
  /\ overtaken' = (overtaken \/ Outdated(w))
  /\ UNCHANGED <<stamp, anchor, crashes>>

\* Mutant: the half line stays, and the next line continues it.
ClaimKeepsPartial(w) ==
  /\ writer[w].pc = "scanned"
  /\ ~active
  /\ active' = TRUE
  /\ created' = TRUE
  /\ file' = IF partial THEN Append(file, Garbage) ELSE CutTo(w)
  /\ partial' = FALSE
  /\ writer' = [writer EXCEPT ![w].pc = "claimed", ![w].rc = 1]
  /\ overtaken' = (overtaken \/ Outdated(w))
  /\ UNCHANGED <<stamp, anchor, crashes>>

\* Mutant: the registry is not consulted.
ClaimUnchecked(w) ==
  /\ writer[w].pc = "scanned"
  /\ active' = TRUE
  /\ created' = TRUE
  /\ file' = CutTo(w)
  /\ partial' = FALSE
  /\ writer' = [writer EXCEPT ![w].pc = "claimed", ![w].rc = 1]
  /\ overtaken' = (overtaken \/ Outdated(w))
  /\ UNCHANGED <<stamp, anchor, crashes>>

\* Create the file if need be, register as the active writer, then cut the
\* file to the scanned length if it existed at the scan.
Claim(w) ==
  /\ writer[w].pc = "scanned"
  /\ ~active
  /\ active' = TRUE
  /\ created' = TRUE
  /\ file' = CutTo(w)
  /\ partial' = FALSE
  /\ writer' = [writer EXCEPT ![w].pc = "claimed", ![w].rc = 1]
  /\ overtaken' = (overtaken \/ Outdated(w))
  /\ UNCHANGED <<stamp, anchor, crashes>>

\* Another writer is active: open fails with WriterActive.
Refuse(w) ==
  /\ writer[w].pc = "scanned"
  /\ active
  /\ created' = TRUE
  /\ writer' = [writer EXCEPT ![w] = Closed]
  /\ UNCHANGED <<file, partial, stamp, active, anchor, crashes, overtaken>>

-----------------------------------------------------------------------------
(* Appending: push_with, begin_turn, end_turn *)

\* One line, numbered and chained to the writer's tail.
AppendLine(w, kind, turn) ==
  /\ stamp < MaxWrites
  /\ stamp' = stamp + 1
  /\ file' = Append(file, [seq |-> writer[w].last_seq + 1, prev |-> writer[w].chain_tail,
                           hash |-> stamp + 1, kind |-> kind, turn |-> turn])

\* What the writer holds after the line.
Advanced(w) == [writer[w] EXCEPT !.last_seq = @ + 1, !.chain_tail = stamp + 1, !.since = @ + 1]

\* The last step of open: the identity anchor of a new file, or the crash mark
\* of a hanging tail.
Mark(w) ==
  /\ writer[w].pc = "claimed"
  /\ \/ /\ writer[w].mark # "none"
        /\ AppendLine(w, writer[w].mark, 0)
        /\ writer' = [writer EXCEPT ![w] = [Advanced(w) EXCEPT !.pc = "open", !.mark = "none"]]
     \/ /\ writer[w].mark = "none"
        /\ writer' = [writer EXCEPT ![w].pc = "open"]
        /\ UNCHANGED <<created, file, stamp>>
  /\ UNCHANGED <<created, partial, active, anchor, crashes, overtaken>>

\* Any other event.
Push(w) ==
  /\ writer[w].pc = "open"
  /\ writer[w].rc > writer[w].leaving
  /\ AppendLine(w, "event", 0)
  /\ writer' = [writer EXCEPT ![w] = Advanced(w)]
  /\ UNCHANGED <<created, partial, active, anchor, crashes, overtaken>>

\* Mutant: begin_turn keeps a clone besides the one in the guard.
BeginTurnClonesTwice(w) ==
  /\ writer[w].pc = "open"
  /\ writer[w].leaving = 0
  /\ ~writer[w].turn_open
  /\ writer[w].rc < Handles
  /\ AppendLine(w, "turn_started", writer[w].turn_count + 1)
  /\ writer' = [writer EXCEPT ![w] =
       [Advanced(w) EXCEPT !.turn_count = @ + 1, !.turn_open = TRUE, !.rc = @ + 2]]
  /\ UNCHANGED <<created, partial, active, anchor, crashes, overtaken>>

\* The guard that begin_turn returns holds a clone of the writer.
BeginTurn(w) ==
  /\ writer[w].pc = "open"
  /\ writer[w].leaving = 0
  /\ ~writer[w].turn_open
  /\ writer[w].rc < Handles
  /\ AppendLine(w, "turn_started", writer[w].turn_count + 1)
  /\ writer' = [writer EXCEPT ![w] =
       [Advanced(w) EXCEPT !.turn_count = @ + 1, !.turn_open = TRUE, !.rc = @ + 1]]
  /\ UNCHANGED <<created, partial, active, anchor, crashes, overtaken>>

\* end_turn clears the flag under one lock and writes the line under another.
EndTurnFlag(w) ==
  /\ writer[w].pc = "open"
  /\ writer[w].turn_open
  /\ writer' = [writer EXCEPT ![w].turn_open = FALSE, ![w].pc = "ending"]
  /\ UNCHANGED <<created, file, partial, stamp, active, anchor, crashes, overtaken>>

EndTurnLine(w) ==
  /\ writer[w].pc = "ending"
  /\ AppendLine(w, "turn_ended", 0)
  /\ writer' = [writer EXCEPT ![w] = [Advanced(w) EXCEPT !.pc = "open"]]
  /\ UNCHANGED <<created, partial, active, anchor, crashes, overtaken>>

\* Mutant: the tail is anchored before its line is on disk.
AnchorEarly(w) ==
  /\ writer[w].pc = "ending"
  /\ anchor' = stamp + 1
  /\ writer' = [writer EXCEPT ![w].since = 0]
  /\ UNCHANGED <<created, file, partial, stamp, active, crashes, overtaken>>

\* anchor_to_engine_chain: the tail goes into the engine's audit chain.
Anchor(w) ==
  /\ writer[w].pc = "open"
  /\ writer[w].since > 0
  /\ anchor' = writer[w].chain_tail
  /\ writer' = [writer EXCEPT ![w].since = 0]
  /\ UNCHANGED <<created, file, partial, stamp, active, crashes, overtaken>>

-----------------------------------------------------------------------------
(* Dropping the handles, and the end of the process *)

\* Drop::drop of one handle: it frees the registry when it is the only one.
DropCheck(w) ==
  /\ writer[w].pc = "open"
  /\ ~writer[w].turn_open
  /\ writer[w].leaving < writer[w].rc
  /\ active' = (active /\ writer[w].rc > 1)
  /\ writer' = [writer EXCEPT ![w].leaving = @ + 1]
  /\ UNCHANGED <<created, file, partial, stamp, anchor, crashes, overtaken>>

\* The handle's reference to the shared core goes after Drop::drop returns.
DropRelease(w) ==
  /\ writer[w].leaving > 0
  /\ writer' = [writer EXCEPT ![w] =
       IF writer[w].rc = 1 THEN Closed ELSE [writer[w] EXCEPT !.rc = @ - 1, !.leaving = @ - 1]]
  /\ UNCHANGED <<created, file, partial, stamp, active, anchor, crashes, overtaken>>

\* The process dies; a line being written is cut in half.
Crash ==
  /\ crashes < MaxWrites
  /\ \E w \in Opener : writer[w].pc # "closed"
  /\ crashes' = crashes + 1
  /\ writer' = [w \in Opener |-> Closed]
  /\ active' = FALSE
  /\ partial' \in {partial, \E w \in Opener : writer[w].pc \in {"claimed", "open", "ending"}}
  /\ UNCHANGED <<created, file, stamp, anchor, overtaken>>

-----------------------------------------------------------------------------

Open(w) == (\E mode \in {"New", "Resume"} : Scan(w, mode)) \/ Claim(w) \/ Refuse(w) \/ Mark(w)

Write(w) == Push(w) \/ BeginTurn(w) \/ EndTurnFlag(w) \/ EndTurnLine(w) \/ Anchor(w)

Next == (\E w \in Opener : Open(w) \/ Write(w) \/ DropCheck(w) \/ DropRelease(w)) \/ Crash

Spec == Init /\ [][Next]_vars

-----------------------------------------------------------------------------
(* Properties *)

\* Every file the program can leave behind opens again: numbers without gaps
\* and an unbroken chain, whatever writers, refusals and crashes came before,
\* as long as no open is overtaken by another writer.
JournalVerifies == ~overtaken => Verified(file)

\* The journal only grows when no open is overtaken: the cut of the repair
\* takes nothing but the half line a crash has left.
GrowsOnly == [][~overtaken' => IsPrefix(file, file')]_vars

\* Turns are numbered in order across restarts, and a turn that follows an
\* unfinished one has the crash mark in between (atif and the recovery scan
\* tell a crashed turn by it).
TurnsAreDelimited ==
  ~overtaken => \A i, j \in DOMAIN file :
    i < j /\ file[i].kind = "turn_started" /\ file[j].kind = "turn_started" =>
      /\ file[i].turn < file[j].turn
      /\ \E k \in i + 1 .. j - 1 : file[k].kind \in {"turn_ended", "session_crashed"}

\* Never two writers with a claim on the file.
OneWriter ==
  \A v, w \in Opener :
    writer[v].pc \in {"claimed", "open", "ending"} /\ writer[w].pc \in {"claimed", "open", "ending"}
      => v = w \/ writer[v].leaving > 0 \/ writer[w].leaving > 0

\* The journal only grows ("append-only", the session's single source of truth).
AppendOnly == [][IsPrefix(file, file')]_vars

\* A tail anchored in the engine's chain is a line of the file for good.
AnchorHolds == ~overtaken /\ anchor # Genesis => \E i \in DOMAIN file : file[i].hash = anchor

\* Types, one writer, turns that can be told apart after a crash, and anchors that stay true.
JournalInv == TypeOK /\ OneWriter /\ TurnsAreDelimited /\ AnchorHolds

\* No crash mark without a crash.
CrashMarksAreTrue ==
  Len(SelectSeq(file, LAMBDA l : l.kind = "session_crashed")) <= crashes

\* The last handle that goes frees the session for the next writer.
RegistryFreed == active => \E w \in Opener : writer[w].pc \in {"claimed", "open", "ending"}
=============================================================================
