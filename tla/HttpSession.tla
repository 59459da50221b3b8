---------------------------- MODULE HttpSession ----------------------------
(***************************************************************************)
(* What the REST endpoints of serve do to a session while its turns run.   *)
(* A turn streamed over SSE (run_agent_stream) always creates its session  *)
(* and puts its cancel token into the `running` map; a WebSocket turn uses *)
(* a new or a known session and is in no map.  cancel_agent reads a token  *)
(* under one lock and removes the entry under another.  Rewind, checkpoint,*)
(* restore and compaction look into `running` once and act after awaits.   *)
(*                                                                         *)
(* A turn may ask its user (HttpAskUser): the sender of the answer goes    *)
(* into `pending_questions`, keyed by session, and answer_agent takes it   *)
(* out, may put it back, awaits the token check and sends.                 *)
(***************************************************************************)
EXTENDS Naturals, FiniteSets

CONSTANTS
  Session,    \* session ids
  Turn,       \* turns; each is started once
  Streamed,   \* the turns that run over SSE; the others run over WebSocket
  Question,   \* question ids (new_question_id); each is asked once
  Answerer,   \* requests to /answer
  Canceller,  \* requests to /cancel
  Changer,    \* requests to /rewind, /checkpoint, /restore, /compact
  None        \* no session, turn or question

ASSUME HttpSessionAssumption ==
  /\ Streamed \subseteq Turn
  /\ None \notin Session \cup Turn \cup Question

VARIABLES
  turn,      \* [Turn -> {"idle", "live", "asking", "over"}]
  sess,      \* [Turn -> Session or None]
  known,     \* sessions some client has heard of
  running,   \* [Session -> Turn or None]: the cancel tokens of SSE turns
  cancelled, \* turns whose token is cancelled
  changed,   \* turns that were live when a change of their session was made
  canceller, \* [Canceller -> Session or None]: the entry still to be removed
  changer,   \* [Changer -> Session or None]: the guard was passed for it
  pending,   \* [Session -> Question or None]: pending_questions
  asker,     \* [Question -> Turn or None]
  window,    \* [Question -> Window]: where request_answer is
  sender,    \* [Question -> {"none", "open", "sent", "dropped"}]
  got,       \* [Question -> Question or None]: what the answer received names
  answerer   \* [Answerer -> handler state]

regVars == <<running, cancelled, changed, canceller, changer>>
askVars == <<pending, asker, window, sender, got, answerer>>
vars == <<turn, sess, known, regVars, askVars>>

Window == {"unasked", "waiting", "expired", "answered", "unanswered", "abandoned"}
Idle == [at |-> "idle", names |-> None, held |-> None]
Handler == [at : {"idle", "mismatch", "verifying"}, names : Question \cup {None},
            held : Question \cup {None}]

TypeOK ==
  /\ turn \in [Turn -> {"idle", "live", "asking", "over"}]
  /\ sess \in [Turn -> Session \cup {None}]
  /\ known \subseteq Session /\ cancelled \subseteq Turn /\ changed \subseteq Turn
  /\ running \in [Session -> Turn \cup {None}]
  /\ canceller \in [Canceller -> Session \cup {None}]
  /\ changer \in [Changer -> Session \cup {None}]
  /\ pending \in [Session -> Question \cup {None}]
  /\ asker \in [Question -> Turn \cup {None}]
  /\ window \in [Question -> Window]
  /\ sender \in [Question -> {"none", "open", "sent", "dropped"}]
  /\ got \in [Question -> Question \cup {None}]
  /\ answerer \in [Answerer -> Handler]
  /\ \A a \in Answerer : answerer[a].at = "idle" <=> answerer[a].held = None

Init ==
  /\ turn = [t \in Turn |-> "idle"]
  /\ sess = [t \in Turn |-> None]
  /\ known = {} /\ cancelled = {} /\ changed = {}
  /\ running = [s \in Session |-> None]
  /\ canceller = [c \in Canceller |-> None]
  /\ changer = [c \in Changer |-> None]
  /\ pending = [s \in Session |-> None]
  /\ asker = [q \in Question |-> None]
  /\ window = [q \in Question |-> "unasked"]
  /\ sender = [q \in Question |-> "none"]
  /\ got = [q \in Question |-> None]
  /\ answerer = [a \in Answerer |-> Idle]

-----------------------------------------------------------------------------
(* Turns *)

Busy(t) == turn[t] \in {"live", "asking"}

\* SessionCreated of an SSE turn: the token is inserted, then the frame with
\* the new id goes to the client.
Stream(t) ==
  /\ t \in Streamed /\ turn[t] = "idle"
  /\ \E s \in Session \ known :
       /\ turn' = [turn EXCEPT ![t] = "live"]
       /\ sess' = [sess EXCEPT ![t] = s]
       /\ running' = [running EXCEPT ![s] = t]
       /\ known' = known \cup {s}
  /\ UNCHANGED <<cancelled, changed, canceller, changer, askVars>>

\* A WebSocket turn, on a new session or on one the client knows.
Converse(t) ==
  /\ t \notin Streamed /\ turn[t] = "idle"
  /\ \E s \in Session :
       /\ turn' = [turn EXCEPT ![t] = "live"]
       /\ sess' = [sess EXCEPT ![t] = s]
       /\ known' = known \cup {s}
  /\ UNCHANGED <<regVars, askVars>>

\* Done or Error: an SSE turn takes its session out of the map.
Finish(t) ==
  /\ turn[t] = "live"
  /\ turn' = [turn EXCEPT ![t] = "over"]
  /\ running' = IF t \in Streamed THEN [running EXCEPT ![sess[t]] = None] ELSE running
  /\ UNCHANGED <<sess, known, cancelled, changed, canceller, changer, askVars>>

\* The stream is dropped with its client: nothing is taken out of any map.  A
\* question is dropped with the stream only over SSE; a WebSocket pump notices
\* the lost client at its next send, after the question.
HangUp(t) ==
  /\ turn[t] = "live" \/ (turn[t] = "asking" /\ t \in Streamed)
  /\ turn' = [turn EXCEPT ![t] = "over"]
  /\ window' = [q \in Question |-> IF asker[q] = t /\ window[q] \in {"waiting", "expired"}
                                     THEN "abandoned" ELSE window[q]]
  /\ UNCHANGED <<sess, known, regVars, pending, asker, sender, got, answerer>>

-----------------------------------------------------------------------------
(* request_answer: the waiting side of a question *)

\* A sender that leaves the map or the handler unused closes its channel.
DropSender(c, q) ==
  IF q # None /\ c[q] = "open" THEN [c EXCEPT ![q] = "dropped"] ELSE c

\* The sender is stored under the session's key, over whatever was there.
Ask(t, q) ==
  /\ turn[t] = "live" /\ window[q] = "unasked"
  /\ turn' = [turn EXCEPT ![t] = "asking"]
  /\ asker' = [asker EXCEPT ![q] = t]
  /\ window' = [window EXCEPT ![q] = "waiting"]
  /\ sender' = [DropSender(sender, pending[sess[t]]) EXCEPT ![q] = "open"]
  /\ pending' = [pending EXCEPT ![sess[t]] = q]
  /\ UNCHANGED <<sess, known, regVars, got, answerer>>

\* The question is over for the turn, which goes on.
Settle(q, outcome) ==
  /\ window' = [window EXCEPT ![q] = outcome]
  /\ turn' = [turn EXCEPT ![asker[q]] = "live"]

\* The answer comes through the channel, or the channel was closed.
Receive(q) ==
  /\ window[q] = "waiting"
  /\ \/ sender[q] = "sent" /\ Settle(q, "answered")
     \/ sender[q] = "dropped" /\ Settle(q, "unanswered")
  /\ UNCHANGED <<sess, known, regVars, pending, asker, sender, got, answerer>>

\* Mutant: no timer while the sender is held.
ExpireIfDropped(q) ==
  /\ window[q] = "waiting" /\ sender[q] # "open"
  /\ window' = [window EXCEPT ![q] = "expired"]
  /\ UNCHANGED <<turn, sess, known, regVars, pending, asker, sender, got, answerer>>

\* The timer fires; the receiver is gone from here on.
Expire(q) ==
  /\ window[q] = "waiting"
  /\ window' = [window EXCEPT ![q] = "expired"]
  /\ UNCHANGED <<turn, sess, known, regVars, pending, asker, sender, got, answerer>>

\* The timeout arm removes the entry of the session, whichever it is.
CleanUp(q) ==
  LET s == sess[asker[q]] IN
  /\ window[q] = "expired"
  /\ Settle(q, "unanswered")
  /\ sender' = DropSender(sender, pending[s])
  /\ pending' = [pending EXCEPT ![s] = None]
  /\ UNCHANGED <<sess, known, regVars, asker, got, answerer>>

-----------------------------------------------------------------------------
(* answer_agent *)

\* Mutant: the id is not compared.
TakeAny(a, s, q) ==
  /\ answerer[a] = Idle /\ s \in known
  /\ pending[s] # None
  /\ answerer' = [answerer EXCEPT ![a] = [at |-> "verifying", names |-> q, held |-> pending[s]]]
  /\ pending' = [pending EXCEPT ![s] = None]
  /\ UNCHANGED <<turn, sess, known, regVars, asker, window, sender, got>>

\* Mutant: the entry is read and stays in the map.
TakeLeaves(a, s, q) ==
  /\ answerer[a] = Idle /\ s \in known
  /\ window[q] # "unasked" /\ pending[s] # None
  /\ answerer' = [answerer EXCEPT ![a] =
       [at |-> IF pending[s] = q THEN "verifying" ELSE "mismatch", names |-> q, held |-> pending[s]]]
  /\ UNCHANGED <<turn, sess, known, regVars, pending, asker, window, sender, got>>

\* The entry of the session is taken out; its id is compared with the body's.
\* No entry: 404, nothing changes.
Take(a, s, q) ==
  /\ answerer[a] = Idle /\ s \in known
  /\ window[q] # "unasked" /\ pending[s] # None
  /\ answerer' = [answerer EXCEPT ![a] =
       [at |-> IF pending[s] = q THEN "verifying" ELSE "mismatch", names |-> q, held |-> pending[s]]]
  /\ pending' = [pending EXCEPT ![s] = None]
  /\ UNCHANGED <<turn, sess, known, regVars, asker, window, sender, got>>

\* Mutant: the handler keeps its entry.
PutBackCopies(a) ==
  LET q == answerer[a].held
      s == sess[asker[q]] IN
  /\ answerer[a].at = "mismatch"
  /\ sender' = DropSender(sender, pending[s])
  /\ pending' = [pending EXCEPT ![s] = q]
  /\ answerer' = [answerer EXCEPT ![a].at = "idle"]
  /\ UNCHANGED <<turn, sess, known, regVars, asker, window, got>>

\* A mismatch puts the entry back, over a question asked meanwhile: 400.
PutBack(a) ==
  LET q == answerer[a].held
      s == sess[asker[q]] IN
  /\ answerer[a].at = "mismatch"
  /\ sender' = DropSender(sender, pending[s])
  /\ pending' = [pending EXCEPT ![s] = q]
  /\ answerer' = [answerer EXCEPT ![a] = Idle]
  /\ UNCHANGED <<turn, sess, known, regVars, asker, window, got>>

\* The answer is sent: 200, also when nobody listens any more.
Deliver(a) ==
  LET q == answerer[a].held IN
  /\ answerer[a].at = "verifying"
  /\ sender' = [sender EXCEPT ![q] = "sent"]
  /\ got' = IF window[q] = "waiting" THEN [got EXCEPT ![q] = answerer[a].names] ELSE got
  /\ answerer' = [answerer EXCEPT ![a] = Idle]
  /\ UNCHANGED <<turn, sess, known, regVars, pending, asker, window>>

\* The answering client hangs up during the token check.
AnswererLeaves(a) ==
  /\ answerer[a].at = "verifying"
  /\ sender' = DropSender(sender, answerer[a].held)
  /\ answerer' = [answerer EXCEPT ![a] = Idle]
  /\ UNCHANGED <<turn, sess, known, regVars, pending, asker, window, got>>

-----------------------------------------------------------------------------
(* cancel_agent and the endpoints that change a session *)

\* Mutant: the token is not cancelled.
CancelForgets(c, s) ==
  /\ canceller[c] = None /\ s \in known /\ running[s] # None
  /\ canceller' = [canceller EXCEPT ![c] = s]
  /\ UNCHANGED <<turn, sess, known, running, cancelled, changed, changer, askVars>>

\* The token is read and cancelled.  No entry: 404.
Cancel(c, s) ==
  /\ canceller[c] = None /\ s \in known /\ running[s] # None
  /\ cancelled' = cancelled \cup {running[s]}
  /\ canceller' = [canceller EXCEPT ![c] = s]
  /\ UNCHANGED <<turn, sess, known, running, changed, changer, askVars>>

\* The entry is removed under a second lock.
CancelRemoves(c) ==
  /\ canceller[c] # None
  /\ running' = [running EXCEPT ![canceller[c]] = None]
  /\ canceller' = [canceller EXCEPT ![c] = None]
  /\ UNCHANGED <<turn, sess, known, cancelled, changed, changer, askVars>>

\* Mutant: only a turn that asks nothing counts as active.
GuardLiveOnly(c, s) ==
  /\ changer[c] = None /\ s \in known
  /\ running[s] # None => turn[running[s]] # "live"
  /\ changer' = [changer EXCEPT ![c] = s]
  /\ UNCHANGED <<turn, sess, known, running, cancelled, changed, canceller, askVars>>

\* session_turn_active: 409 while the session is in the map.
Guard(c, s) ==
  /\ changer[c] = None /\ s \in known
  /\ running[s] = None
  /\ changer' = [changer EXCEPT ![c] = s]
  /\ UNCHANGED <<turn, sess, known, running, cancelled, changed, canceller, askVars>>

\* The change itself, after the awaits on the engine.
Change(c) ==
  /\ changer[c] # None
  /\ changed' = changed \cup {t \in Turn : Busy(t) /\ sess[t] = changer[c]}
  /\ changer' = [changer EXCEPT ![c] = None]
  /\ UNCHANGED <<turn, sess, known, running, cancelled, canceller, askVars>>

-----------------------------------------------------------------------------

Waiter(q) == Receive(q) \/ Expire(q) \/ CleanUp(q)

Next ==
  \/ \E t \in Turn : Stream(t) \/ Converse(t) \/ Finish(t) \/ HangUp(t)
  \/ \E t \in Turn, q \in Question : Ask(t, q)
  \/ \E q \in Question : Waiter(q)
  \/ \E a \in Answerer : PutBack(a) \/ Deliver(a) \/ AnswererLeaves(a)
  \/ \E a \in Answerer, s \in Session, q \in Question : Take(a, s, q)
  \/ \E c \in Canceller : CancelRemoves(c) \/ \E s \in Session : Cancel(c, s)
  \/ \E c \in Changer : Change(c) \/ \E s \in Session : Guard(c, s)

\* The executor polls a waiting request_answer and its timer; clients, and
\* handlers that wait for other services, owe nothing.
Spec == Init /\ [][Next]_vars /\ \A q \in Question : WF_vars(Waiter(q))

-----------------------------------------------------------------------------
(* Properties *)

\* What a question receives as its answer was given to that very question, over
\* questions that replace each other under one session key.
AnswerIsForQuestion == \A q \in Question : got[q] \in {None, q}

\* A question that can still be answered is found under its own session or is
\* in the hands of exactly one handler, never lost with its channel open.
SenderIsHeld ==
  \A q \in Question : sender[q] = "open" =>
    Cardinality({s \in Session : pending[s] = q}
                \cup {a \in Answerer : answerer[a].held = q}) = 1

\* Types, and what becomes of a question: its channel is in one place until it is answered, and the
\* answer is meant for it.
QuestionInv == TypeOK /\ AnswerIsForQuestion /\ SenderIsHeld

\* A streamed turn nobody has cancelled is in the map under its own session, so
\* that /cancel reaches it, and a token in the map is that of the session.
CancelReaches ==
  /\ \A t \in Streamed : Busy(t) /\ t \notin cancelled => running[sess[t]] = t
  /\ \A s \in Session : running[s] # None => sess[running[s]] = s

\* No rewind, restore or compaction changes the session of a streamed turn that
\* has not been cancelled, although the guard is read long before the change.
StreamUntouched == changed \cap Streamed \subseteq cancelled

\* What the map of running turns is for: a streamed turn can be cancelled, and its session is not
\* changed under it.
StreamInv == CancelReaches /\ StreamUntouched

\* A turn that asks its user gets an answer or none, and goes on.
QuestionCloses == \A t \in Turn : turn[t] = "asking" ~> turn[t] # "asking"

(* What comments of the code say, and the code does not keep *)

\* session_turn_active: no structural change within an active turn.
TurnUntouched == changed \subseteq cancelled

\* SessionStore: the map holds the sessions that run.
RegisteredIsLive == \A s \in Session : running[s] # None => Busy(running[s])
=============================================================================
