----------------------------- MODULE MCJournal -----------------------------
(* What a session keeps of its turns, for TLC: the journal and the message  *)
(* history.  They share no state: focus picks the one that moves.           *)
EXTENDS Journal, History

CONSTANTS w1, w2
VARIABLE focus

keptVars == <<focus, vars, historyVars>>

\* The openers of the journal differ in nothing but their name.
OpenerSymmetry == Permutations(Opener)

MCInit ==
  /\ focus \in {"journal", "history"} /\ Init /\ HistoryInit
  /\ focus = "journal" => mode = "every_message"
MCNext ==
  \/ focus = "journal" /\ Next /\ UNCHANGED <<focus, historyVars>>
  \/ focus = "history" /\ HistoryNext /\ UNCHANGED <<focus, vars>>

MCSpec == MCInit /\ [][MCNext]_keptVars
=============================================================================
