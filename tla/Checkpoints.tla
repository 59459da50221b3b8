----------------------------- MODULE Checkpoints -----------------------------
(***************************************************************************)
(* The undo stack of the work directory (workspace_checkpoint.rs).  Before *)
(* a write tool runs, the runner captures what is at the path: the bytes   *)
(* go to a blob named by their hash.  After the tool has succeeded the     *)
(* snapshot is journalled, unless the call has no journal, and pushed on   *)
(* the stack in manifest.jsonl.                                            *)
(* workspace_undo restores the snapshot on top and pops it.  Blobs that no *)
(* entry of the stack refers to are deleted whenever the stack changes.    *)
(*                                                                         *)
(* The stack belongs to the directory: the runners of several sessions     *)
(* share it.  A lock covers each operation on the stack; neither the write *)
(* of the tool nor the time between capture and commit is under it.        *)
(***************************************************************************)
EXTENDS Naturals, Sequences, FiniteSets

CONSTANTS
  Writer,     \* runners; the write tools of one runner run one after the other
  Path,
  Content,    \* contents of files: equal contents have equal hashes
  Gone,       \* not a content: there is no file
  StackDepth, \* MAX_STACK_DEPTH; MAX_TOTAL_BYTES in files of equal size
  UndoSteps   \* bound: writes, undos, other changes and crashes

Nobody == "nobody"

ASSUME CheckpointAssumption ==
  /\ Gone \notin Content /\ Nobody \notin Writer
  /\ StackDepth \in Nat \ {0} /\ UndoSteps \in Nat

VARIABLES
  disk,       \* [Path -> Content or Gone]
  blobs,      \* contents in the blob directory
  stack,      \* entries of manifest.jsonl, the oldest first
  journalled, \* the snapshots of all file_checkpoint_taken lines
  at,         \* [Writer -> what it is doing]
  snap,       \* [Writer -> PendingSnapshot]
  holder,     \* who has the lock of the root
  given,      \* the greatest seq any entry has had
  steps

checkpointVars == <<disk, blobs, stack, journalled, at, snap, holder, given, steps>>

\* was: what is captured (Gone: a tombstone); lined: it has a journal_seq;
\* replaced: what the tool's write overwrote; clash: another one changed the
\* file, or deleted blobs, between the capture and the commit.  The last two
\* are not in the code.
Snapshot == [path : Path, was : Content \cup {Gone}, lined : BOOLEAN,
             replaced : Content \cup {Gone}, clash : BOOLEAN]
Entry == [seq : Nat, s : Snapshot]

CheckpointTypeOK ==
  /\ disk \in [Path -> Content \cup {Gone}]
  /\ blobs \subseteq Content
  /\ stack \in Seq(Entry) /\ Len(stack) <= StackDepth
  /\ journalled \subseteq [path : Path, was : Content \cup {Gone}]
  /\ at \in [Writer -> {"idle", "captured", "wrote", "journalled", "restored"}]
  /\ \A w \in Writer : at[w] \in {"captured", "wrote", "journalled"} => snap[w] \in Snapshot
  /\ holder \in Writer \cup {Nobody}
  /\ holder # Nobody => at[holder] \in {"journalled", "restored"}
  /\ given \in Nat /\ steps \in 0 .. UndoSteps

NoSnapshot == [path |-> Nobody, was |-> Gone, lined |-> FALSE, replaced |-> Gone, clash |-> FALSE]

CheckpointInit ==
  /\ disk \in [Path -> Content \cup {Gone}]
  /\ blobs = {} /\ stack = << >> /\ journalled = {}
  /\ at = [w \in Writer |-> "idle"]
  /\ snap = [w \in Writer |-> NoSnapshot]
  /\ holder = Nobody /\ given = 0 /\ steps = 0

Counted == steps < UndoSteps /\ steps' = steps + 1

-----------------------------------------------------------------------------
(* Blobs *)

Referred(es) == {es[i].s.was : i \in DOMAIN es} \ {Gone}

\* Mutant: what was popped is deleted, whoever else refers to it.
ReclaimPopped(es) ==
  IF Len(es) < Len(stack) THEN blobs \ {stack[Len(stack)].s.was} ELSE blobs \cap Referred(es)

\* reclaim_unreferenced_blobs
Reclaim(es) == blobs \cap Referred(es)

\* Whoever has captured meanwhile is disturbed by a change of p (p = Nobody:
\* none) or by the loss of blobs.
Disturb(me, p, bs) ==
  [w \in Writer |->
     IF w # me /\ at[w] \in {"captured", "wrote", "journalled"}
          /\ (snap[w].path = p \/ snap[w].was \notin bs \cup {Gone})
     THEN [snap[w] EXCEPT !.clash = TRUE] ELSE snap[w]]

-----------------------------------------------------------------------------
(* A write *)

\* pre_capture
PreCapture(w, p) ==
  /\ at[w] = "idle" /\ holder = Nobody /\ Counted
  /\ snap' = [snap EXCEPT ![w] = [path |-> p, was |-> disk[p], lined |-> FALSE,
                                   replaced |-> disk[p], clash |-> FALSE]]
  /\ blobs' = blobs \cup ({disk[p]} \ {Gone})
  /\ at' = [at EXCEPT ![w] = "captured"]
  /\ UNCHANGED <<disk, stack, journalled, holder, given>>

\* The tool writes; it replaces the file atomically.
Execute(w) ==
  /\ at[w] = "captured"
  /\ \E c \in Content :
       /\ disk' = [disk EXCEPT ![snap[w].path] = c]
       /\ snap' = [Disturb(w, snap[w].path, blobs) EXCEPT ![w].replaced = disk[snap[w].path]]
  /\ at' = [at EXCEPT ![w] = "wrote"]
  /\ UNCHANGED <<blobs, stack, journalled, holder, given, steps>>

\* The call is refused, waits for an approval, or fails: discard.
Discard(w) ==
  /\ at[w] = "captured"
  /\ at' = [at EXCEPT ![w] = "idle"] /\ snap' = [snap EXCEPT ![w] = NoSnapshot]
  /\ UNCHANGED <<disk, blobs, stack, journalled, holder, given, steps>>

\* Mutant: the manifest before the journal.
CommitJournalLast(w) ==
  /\ at[w] = "wrote" /\ holder = Nobody
  /\ at' = [at EXCEPT ![w] = "journalled"] /\ holder' = w
  /\ snap' = [snap EXCEPT ![w].lined = TRUE]
  /\ UNCHANGED <<disk, blobs, stack, journalled, given, steps>>

\* commit, first the line of the journal.
CommitJournal(w) ==
  /\ at[w] = "wrote" /\ holder = Nobody
  /\ \/ /\ journalled' = journalled \cup {[path |-> snap[w].path, was |-> snap[w].was]}
        /\ snap' = [snap EXCEPT ![w].lined = TRUE]
        /\ at' = [at EXCEPT ![w] = "journalled"] /\ holder' = w
     \/ \* the call has no journal: it is executed ahead, or none is configured
        /\ at' = [at EXCEPT ![w] = "journalled"] /\ holder' = w
        /\ UNCHANGED <<journalled, snap>>
     \/ \* the journal cannot be written: no entry
        /\ at' = [at EXCEPT ![w] = "idle"] /\ snap' = [snap EXCEPT ![w] = NoSnapshot]
        /\ UNCHANGED <<journalled, holder>>
  /\ UNCHANGED <<disk, blobs, stack, given, steps>>

Seqs(es) == {es[i].seq : i \in DOMAIN es}
NextSeq(es) == 1 + CHOOSE n \in Seqs(es) \cup {0} : \A m \in Seqs(es) : m <= n

\* Mutant: the cap is forgotten.
CappedNot(es) == es

\* enforce_caps_locked: the oldest entries go.
Capped(es) ==
  SubSeq(es, IF Len(es) > StackDepth THEN Len(es) - StackDepth + 1 ELSE 1, Len(es))

\* commit, then the manifest, the caps and the blobs.
CommitManifest(w) ==
  /\ at[w] = "journalled"
  /\ LET es == Capped(Append(stack, [seq |-> NextSeq(stack), s |-> snap[w]]))
     IN /\ stack' = es
        /\ given' = IF NextSeq(stack) > given THEN NextSeq(stack) ELSE given
        /\ blobs' = Reclaim(es)
        /\ snap' = [Disturb(w, Nobody, Reclaim(es)) EXCEPT ![w] = NoSnapshot]
  /\ at' = [at EXCEPT ![w] = "idle"] /\ holder' = Nobody
  /\ UNCHANGED <<disk, journalled, steps>>

-----------------------------------------------------------------------------
(* workspace_undo *)

Top == stack[Len(stack)]
Restorable(e) == e.s.was \in blobs \cup {Gone}

\* undo: the file on top of the stack is written back (or deleted); without
\* its blob nothing happens.
UndoRestore(w) ==
  /\ at[w] = "idle" /\ holder = Nobody /\ stack # << >> /\ Restorable(Top) /\ Counted
  /\ disk' = [disk EXCEPT ![Top.s.path] = Top.s.was]
  /\ snap' = Disturb(w, Top.s.path, blobs)
  /\ at' = [at EXCEPT ![w] = "restored"] /\ holder' = w
  /\ UNCHANGED <<blobs, stack, journalled, given>>

\* The file is read again: if it is right the entry is popped, else it stays.
\* A tombstone is not verified.
UndoPop(w) ==
  /\ at[w] = "restored"
  /\ LET es == SubSeq(stack, 1, Len(stack) - 1)
     IN \/ /\ Top.s.was = Gone \/ disk[Top.s.path] = Top.s.was
           /\ stack' = es
           /\ blobs' = Reclaim(es)
           /\ snap' = Disturb(w, Nobody, Reclaim(es))
        \/ /\ Top.s.was # Gone /\ disk[Top.s.path] # Top.s.was
           /\ UNCHANGED <<stack, blobs, snap>>
  /\ at' = [at EXCEPT ![w] = "idle"] /\ holder' = Nobody
  /\ UNCHANGED <<disk, journalled, given, steps>>

-----------------------------------------------------------------------------
(* Around it *)

\* Any change no snapshot is taken of: file_delete, file_move, a shell
\* command, the user.
Outside(p, c) ==
  /\ Counted /\ disk[p] # c
  /\ disk' = [disk EXCEPT ![p] = c]
  /\ snap' = Disturb(Nobody, p, blobs)
  /\ UNCHANGED <<blobs, stack, journalled, at, holder, given>>

\* The process ends; the directory stays as it is.
Crash ==
  /\ Counted
  /\ at' = [w \in Writer |-> "idle"] /\ snap' = [w \in Writer |-> NoSnapshot]
  /\ holder' = Nobody
  /\ UNCHANGED <<disk, blobs, stack, journalled, given>>

CheckpointNext ==
  \/ \E w \in Writer :
       \/ \E p \in Path : PreCapture(w, p)
       \/ Execute(w) \/ Discard(w) \/ CommitJournal(w) \/ CommitManifest(w)
       \/ UndoRestore(w) \/ UndoPop(w)
  \/ \E p \in Path, c \in Content \cup {Gone} : Outside(p, c)
  \/ Crash

CheckpointSpec == CheckpointInit /\ [][CheckpointNext]_checkpointVars

-----------------------------------------------------------------------------
(* Properties *)

\* An entry nobody interfered with between capture and commit can be undone,
\* and undoing it brings back what its write replaced: whatever is pushed,
\* popped, evicted or lost in a crash later, by whom ever.
EntryRestores ==
  \A i \in DOMAIN stack :
    ~stack[i].s.clash => Restorable(stack[i]) /\ stack[i].s.was = stack[i].s.replaced

\* No entry that says it was journalled without its line: commit journals first,
\* so that a crash in between leaves a line without an entry and never the
\* reverse.
StackJournalled ==
  \A i \in DOMAIN stack :
    stack[i].s.lined => [path |-> stack[i].s.path, was |-> stack[i].s.was] \in journalled

\* Types, and an undo stack that can be undone and is accounted for.
CheckpointInv == CheckpointTypeOK /\ EntryRestores /\ StackJournalled

\* Refuted: every entry has its line (a call without a journal has none).
EveryEntryJournalled ==
  \A i \in DOMAIN stack :
    [path |-> stack[i].s.path, was |-> stack[i].s.was] \in journalled

\* Refuted: every entry can be undone.
TopRestorable == stack # << >> => Restorable(Top)

\* Refuted: seq only grows, also after a pop (ManifestEntry::seq).
SeqMonotone == [][Len(stack') > Len(stack) => stack'[Len(stack')].seq > given]_checkpointVars
=============================================================================
