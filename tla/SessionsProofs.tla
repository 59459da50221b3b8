--------------------------- MODULE SessionsProofs ---------------------------
(***************************************************************************)
(* The sessions of the server, proved for any number of sessions, turns,   *)
(* questions, requests, calls and chains: the questions and the running    *)
(* map of HttpSession, the spawn ledger of Delegation, the caps of         *)
(* SessionChain.                                                           *)
(***************************************************************************)
EXTENDS HttpSession, Delegation, SessionChain, FiniteSetTheorems, TLAPS

-----------------------------------------------------------------------------
(* HttpSession: questions *)

Open(q) == window[q] \in {"waiting", "expired"}

\* Who asked a question; a turn waits for one question at a time.
AskerInv ==
  /\ \A t \in Turn : turn[t] # "idle" => sess[t] \in known
  /\ \A q \in Question :
       /\ window[q] = "unasked" => sender[q] = "none"
       /\ window[q] # "unasked" => asker[q] \in Turn /\ turn[asker[q]] # "idle"
       /\ Open(q) => turn[asker[q]] = "asking"
  /\ \A p, q \in Question : Open(p) /\ Open(q) /\ asker[p] = asker[q] => p = q

\* The sender of a question is in one place, and is not used up.
SenderInv ==
  /\ \A s \in Session : pending[s] # None =>
       sender[pending[s]] = "open" /\ sess[asker[pending[s]]] = s
  /\ \A a \in Answerer : answerer[a].held # None =>
       /\ sender[answerer[a].held] = "open"
       /\ \A s \in Session : pending[s] # answerer[a].held
       /\ \A b \in Answerer : answerer[b].held = answerer[a].held => a = b
       /\ answerer[a].at = "verifying" => answerer[a].names = answerer[a].held
  /\ \A q \in Question : sender[q] = "open" =>
       \/ \E s \in Session : pending[s] = q
       \/ \E a \in Answerer : answerer[a].held = q

AskInv == TypeOK /\ AskerInv /\ SenderInv /\ AnswerIsForQuestion

-----------------------------------------------------------------------------
(* HttpSession: the running map *)

\* The streamed turns of s that run are cancelled.
Stopped(s) == s \in known /\ \A t \in Streamed : Busy(t) /\ sess[t] = s => t \in cancelled

MapInv ==
  /\ \A s \in Session : running[s] # None =>
       running[s] \in Streamed /\ turn[running[s]] # "idle" /\ sess[running[s]] = s
  /\ \A t, u \in Streamed :
       turn[t] # "idle" /\ turn[u] # "idle" /\ sess[t] = sess[u] => t = u
  /\ \A t \in Streamed : Busy(t) /\ t \notin cancelled => running[sess[t]] = t
  /\ \A c \in Canceller : canceller[c] # None => Stopped(canceller[c])
  /\ \A c \in Changer : changer[c] # None => Stopped(changer[c])
  /\ StreamUntouched

HttpIInv == AskInv /\ MapInv

\* A sender that leaves the map is closed, the others are as before.
LEMMA DropSenderFacts ==
  ASSUME TypeOK, NEW q \in Question \cup {None}
  PROVE  /\ DropSender(sender, q) \in [Question -> {"none", "open", "sent", "dropped"}]
         /\ \A p \in Question : p # q => DropSender(sender, q)[p] = sender[p]
         /\ q \in Question => DropSender(sender, q)[q] =
              IF sender[q] = "open" THEN "dropped" ELSE sender[q]
  BY HttpSessionAssumption DEF TypeOK, DropSender

LEMMA InitHttp == Init => HttpIInv
<1> SUFFICES ASSUME Init PROVE HttpIInv
  OBVIOUS
<1>1. TypeOK
  BY DEF Init, TypeOK, Idle, Handler, Window
<1>2. AskerInv /\ SenderInv /\ AnswerIsForQuestion
  BY DEF Init, AskerInv, SenderInv, AnswerIsForQuestion, Open, Idle
<1>3. MapInv
  BY HttpSessionAssumption DEF Init, MapInv, StreamUntouched, Busy
<1> QED
  BY <1>1, <1>2, <1>3 DEF HttpIInv, AskInv

LEMMA StreamKeeps ==
  ASSUME HttpIInv, NEW t \in Turn, Stream(t)
  PROVE  HttpIInv'
<1> USE DEF HttpIInv, AskInv
<1>0. PICK s \in Session \ known :
        /\ turn' = [turn EXCEPT ![t] = "live"] /\ sess' = [sess EXCEPT ![t] = s]
        /\ running' = [running EXCEPT ![s] = t] /\ known' = known \cup {s}
  BY DEF Stream
<1>a. t \in Streamed /\ turn[t] = "idle" /\ UNCHANGED <<cancelled, changed, canceller, changer, askVars>>
  BY DEF Stream
<1>b. /\ turn'[t] = "live" /\ sess'[t] = s /\ running'[s] = t
      /\ \A u \in Turn : u # t => turn'[u] = turn[u] /\ sess'[u] = sess[u]
      /\ \A r \in Session : r # s => running'[r] = running[r]
  BY <1>0 DEF TypeOK
<1>1. TypeOK'
  BY <1>0, <1>a DEF TypeOK, askVars
<1>2. AskerInv'
  BY <1>0, <1>a, <1>b DEF AskerInv, TypeOK, askVars, Open
<1>3. SenderInv' /\ AnswerIsForQuestion'
  <2>1. \A r \in Session : pending[r] # None => sess'[asker[pending[r]]] = sess[asker[pending[r]]]
    BY <1>a, <1>b DEF AskerInv, SenderInv, TypeOK
  <2> QED
    BY <1>a, <2>1 DEF SenderInv, AnswerIsForQuestion, askVars
<1>4. MapInv'
  <2>1. \A u \in Streamed : u # t /\ turn[u] # "idle" => sess[u] # s /\ sess[u] \in Session
    BY HttpSessionAssumption DEF AskerInv, TypeOK
  <2>2. \A r \in known : Stopped(r) => Stopped(r)'
    BY <1>0, <1>a, <1>b, HttpSessionAssumption DEF Stopped, Busy, TypeOK
  <2>3. \A r \in Session : running'[r] # None =>
          running'[r] \in Streamed /\ turn'[running'[r]] # "idle" /\ sess'[running'[r]] = r
    BY <1>a, <1>b, HttpSessionAssumption DEF MapInv, TypeOK
  <2>4. \A u, v \in Streamed :
          turn'[u] # "idle" /\ turn'[v] # "idle" /\ sess'[u] = sess'[v] => u = v
    BY <1>a, <1>b, <2>1, HttpSessionAssumption DEF MapInv
  <2>5. \A u \in Streamed : Busy(u)' /\ u \notin cancelled' => running'[sess'[u]] = u
    BY <1>a, <1>b, <2>1, HttpSessionAssumption DEF MapInv, Busy
  <2>6. /\ \A c \in Canceller : canceller'[c] # None => Stopped(canceller[c])'
        /\ \A c \in Changer : changer'[c] # None => Stopped(changer[c])'
    BY <1>a, <2>2 DEF MapInv, Stopped
  <2> QED
    BY <1>a, <2>3, <2>4, <2>5, <2>6 DEF MapInv, StreamUntouched
<1> QED
  BY <1>1, <1>2, <1>3, <1>4

\* A step that starts no turn and leaves the map alone keeps what it is for.
LEMMA MapKept ==
  ASSUME HttpIInv, UNCHANGED <<sess, known, regVars>>,
         \A u \in Turn : (Busy(u)' => Busy(u)) /\ (turn'[u] = "idle" <=> turn[u] = "idle")
  PROVE  MapInv'
<1>0. Streamed \subseteq Turn /\ None \notin Turn
  BY HttpSessionAssumption
<1>1. \A s : Stopped(s) => Stopped(s)'
  BY <1>0 DEF Stopped, regVars
<1>2. \A s \in Session : running[s] # None => running[s] \in Turn
  BY <1>0 DEF HttpIInv, MapInv
<1> QED
  BY <1>0, <1>1, <1>2 DEF HttpIInv, MapInv, regVars, StreamUntouched

LEMMA ConverseKeeps ==
  ASSUME HttpIInv, NEW t \in Turn, Converse(t)
  PROVE  HttpIInv'
<1> USE DEF HttpIInv, AskInv
<1>0. PICK s \in Session :
        /\ turn' = [turn EXCEPT ![t] = "live"] /\ sess' = [sess EXCEPT ![t] = s]
        /\ known' = known \cup {s}
  BY DEF Converse
<1>a. t \notin Streamed /\ turn[t] = "idle" /\ UNCHANGED <<regVars, askVars>>
  BY DEF Converse
<1>b. /\ turn'[t] = "live" /\ sess'[t] = s
      /\ \A u \in Turn : u # t => turn'[u] = turn[u] /\ sess'[u] = sess[u]
  BY <1>0 DEF TypeOK
<1>1. TypeOK'
  BY <1>0, <1>a DEF TypeOK, askVars, regVars
<1>2. AskerInv'
  BY <1>0, <1>a, <1>b DEF AskerInv, TypeOK, askVars, Open
<1>3. SenderInv' /\ AnswerIsForQuestion'
  <2>1. \A r \in Session : pending[r] # None => sess'[asker[pending[r]]] = sess[asker[pending[r]]]
    BY <1>a, <1>b DEF AskerInv, SenderInv, TypeOK
  <2> QED
    BY <1>a, <2>1 DEF SenderInv, AnswerIsForQuestion, askVars
<1>4. MapInv'
  <2>1. \A u \in Streamed : turn'[u] = turn[u] /\ sess'[u] = sess[u]
    BY <1>a, <1>b, HttpSessionAssumption
  <2>2. \A r : Stopped(r) => Stopped(r)'
    BY <1>0, <1>a, <2>1 DEF Stopped, Busy, regVars
  <2> QED
    BY <1>a, <2>1, <2>2 DEF MapInv, StreamUntouched, Busy, regVars
<1> QED
  BY <1>1, <1>2, <1>3, <1>4

\* The end of a turn takes out its own entry, or none that is needed.
LEMMA FinishKeeps ==
  ASSUME HttpIInv, NEW t \in Turn, Finish(t)
  PROVE  HttpIInv'
<1> USE DEF HttpIInv, AskInv
<1>a. /\ turn[t] = "live" /\ turn' = [turn EXCEPT ![t] = "over"]
      /\ running' = IF t \in Streamed THEN [running EXCEPT ![sess[t]] = None] ELSE running
      /\ UNCHANGED <<sess, known, cancelled, changed, canceller, changer, askVars>>
  BY DEF Finish
<1>b. turn'[t] = "over" /\ (\A u \in Turn : u # t => turn'[u] = turn[u]) /\ sess[t] \in Session
  BY <1>a DEF TypeOK, AskerInv
<1>1. TypeOK'
  BY <1>a DEF TypeOK, askVars
<1>2. AskerInv'
  <2>1. \A q \in Question : Open(q) => asker[q] # t
    BY <1>a DEF AskerInv
  <2> QED
    BY <1>a, <1>b, <2>1 DEF AskerInv, askVars, Open
<1>3. SenderInv' /\ AnswerIsForQuestion'
  BY <1>a DEF SenderInv, AnswerIsForQuestion, askVars
<1>4. MapInv'
  <2>0. Streamed \subseteq Turn
    BY HttpSessionAssumption
  <2>1. \A s : Stopped(s) => Stopped(s)'
    BY <1>a, <1>b, <2>0 DEF Stopped, Busy
  <2>2. \A s \in Session : running'[s] # None => running'[s] = running[s] /\ turn'[running[s]] # "idle"
    BY <1>a, <1>b, <2>0 DEF MapInv, TypeOK
  <2>3. \A u \in Streamed : Busy(u)' => u # t /\ Busy(u)
    BY <1>b, <2>0 DEF Busy
  <2>4. ASSUME NEW u \in Streamed, Busy(u)', u \notin cancelled PROVE running'[sess[u]] = u
    <3>1. running[sess[u]] = u /\ u # t /\ sess[u] \in Session
      BY <2>0, <2>3, <2>4 DEF MapInv, AskerInv, TypeOK, Busy
    <3>2. t \in Streamed => sess[u] # sess[t]
      BY <1>a, <2>3, <2>4 DEF MapInv, Busy
    <3> QED
      BY <1>a, <1>b, <3>1, <3>2 DEF TypeOK
  <2>5. \A u \in Turn : turn'[u] = "idle" <=> turn[u] = "idle"
    BY <1>a, <1>b
  <2> QED
    BY <1>a, <2>0, <2>1, <2>2, <2>4, <2>5 DEF MapInv, StreamUntouched
<1> QED
  BY <1>1, <1>2, <1>3, <1>4

LEMMA HangUpKeeps ==
  ASSUME HttpIInv, NEW t \in Turn, HangUp(t)
  PROVE  HttpIInv'
<1> USE DEF HttpIInv, AskInv
<1>a. /\ turn[t] \in {"live", "asking"} /\ turn' = [turn EXCEPT ![t] = "over"]
      /\ window' = [q \in Question |-> IF asker[q] = t /\ window[q] \in {"waiting", "expired"}
                                          THEN "abandoned" ELSE window[q]]
      /\ UNCHANGED <<sess, known, regVars, pending, asker, sender, got, answerer>>
  BY DEF HangUp
<1>b. turn'[t] = "over" /\ (\A u \in Turn : u # t => turn'[u] = turn[u])
  BY <1>a DEF TypeOK
<1>1. TypeOK'
  BY <1>a DEF TypeOK, regVars, Window
<1>2. AskerInv'
  <2>1. \A q \in Question : /\ Open(q)' => Open(q) /\ asker[q] # t
                            /\ window'[q] = "unasked" <=> window[q] = "unasked"
    BY <1>a DEF Open
  <2> QED
    BY <1>a, <1>b, <2>1 DEF AskerInv
<1>3. SenderInv' /\ AnswerIsForQuestion'
  BY <1>a DEF SenderInv, AnswerIsForQuestion
<1>4. MapInv'
  BY <1>a, <1>b, MapKept DEF Busy
<1> QED
  BY <1>1, <1>2, <1>3, <1>4

LEMMA AskKeeps ==
  ASSUME HttpIInv, NEW t \in Turn, NEW q \in Question, Ask(t, q)
  PROVE  HttpIInv'
<1> USE DEF HttpIInv, AskInv
<1> DEFINE s == sess[t]
           old == pending[s]
<1>a. /\ turn[t] = "live" /\ window[q] = "unasked" /\ turn' = [turn EXCEPT ![t] = "asking"]
      /\ asker' = [asker EXCEPT ![q] = t] /\ window' = [window EXCEPT ![q] = "waiting"]
      /\ sender' = [DropSender(sender, old) EXCEPT ![q] = "open"]
      /\ pending' = [pending EXCEPT ![s] = q]
      /\ UNCHANGED <<sess, known, regVars, got, answerer>>
  BY DEF Ask
<1>b. s \in Session /\ old \in Question \cup {None} /\ q # old /\ sender[q] = "none" /\ q # None
  BY <1>a, HttpSessionAssumption DEF TypeOK, AskerInv, SenderInv
<1>c. /\ turn'[t] = "asking" /\ \A u \in Turn : u # t => turn'[u] = turn[u]
      /\ asker'[q] = t /\ \A p \in Question : p # q => asker'[p] = asker[p]
      /\ window'[q] = "waiting" /\ \A p \in Question : p # q => window'[p] = window[p]
      /\ pending'[s] = q /\ \A r \in Session : r # s => pending'[r] = pending[r]
  BY <1>a, <1>b DEF TypeOK
<1>d. /\ sender' \in [Question -> {"none", "open", "sent", "dropped"}] /\ sender'[q] = "open"
      /\ \A p \in Question : p # q /\ p # old => sender'[p] = sender[p]
      /\ old # None => sender'[old] = "dropped"
  BY <1>a, <1>b, DropSenderFacts DEF SenderInv
<1>1. TypeOK'
  BY <1>a, <1>d DEF TypeOK, regVars, Window
<1>2. AskerInv'
  <2>1. \A p \in Question : p # q => (Open(p)' <=> Open(p))
    BY <1>c DEF Open
  <2>2. \A p \in Question : Open(p) => asker[p] # t
    BY <1>a DEF AskerInv
  <2>3. \A p \in Question : window[p] = "unasked" => p # old
    BY <1>b, HttpSessionAssumption DEF SenderInv, AskerInv
  <2> QED
    BY <1>a, <1>c, <1>d, <2>1, <2>2, <2>3 DEF AskerInv
<1>3. SenderInv'
  <2>1. \A r \in Session : r # s /\ pending[r] # None => pending[r] \in Question /\ pending[r] # q /\ pending[r] # old
    BY <1>b DEF SenderInv, TypeOK
  <2>2. \A a \in Answerer : answerer[a].held # None =>
          answerer[a].held \in Question /\ answerer[a].held # q /\ answerer[a].held # old
    BY <1>b DEF SenderInv, TypeOK, Handler
  <2>3. \A r \in Session : pending'[r] # None => sender'[pending'[r]] = "open" /\ sess'[asker'[pending'[r]]] = r
    BY <1>a, <1>b, <1>c, <1>d, <2>1 DEF SenderInv
  <2>4. \A a \in Answerer : answerer[a].held # None =>
          /\ sender'[answerer[a].held] = "open"
          /\ \A r \in Session : pending'[r] # answerer[a].held
    BY <1>c, <1>d, <2>2 DEF SenderInv
  <2>5. ASSUME NEW p \in Question, sender'[p] = "open"
        PROVE  (\E r \in Session : pending'[r] = p) \/ (\E a \in Answerer : answerer[a].held = p)
    <3>1. CASE p = q
      BY <1>b, <1>c, <3>1
    <3>2. CASE p # q
      <4>1. p # old /\ sender[p] = "open"
        BY <1>b, <1>d, <2>5, <3>2, HttpSessionAssumption
      <4> QED
        BY <1>c, <4>1 DEF SenderInv
    <3> QED
      BY <3>1, <3>2
  <2> QED
    BY <1>a, <2>3, <2>4, <2>5 DEF SenderInv
<1>4. AnswerIsForQuestion'
  BY <1>a DEF AnswerIsForQuestion
<1>5. MapInv'
  BY <1>a, <1>c, MapKept DEF Busy
<1> QED
  BY <1>1, <1>2, <1>3, <1>4, <1>5

\* A question that is settled lets its turn go on.
LEMMA SettleFacts ==
  ASSUME HttpIInv, NEW q \in Question, Open(q), NEW outcome \in {"answered", "unanswered"},
         Settle(q, outcome), UNCHANGED <<sess, known, regVars, asker>>,
         \A p \in Question : window[p] = "unasked" => sender'[p] = "none"
  PROVE  /\ turn' \in [Turn -> {"idle", "live", "asking", "over"}] /\ window' \in [Question -> Window]
         /\ AskerInv' /\ MapInv'
<1> USE DEF HttpIInv, AskInv
<1>a. window' = [window EXCEPT ![q] = outcome] /\ turn' = [turn EXCEPT ![asker[q]] = "live"]
  BY DEF Settle
<1>b. asker[q] \in Turn /\ turn[asker[q]] = "asking" /\ window[q] # "unasked"
  BY DEF AskerInv, Open
<1>c. /\ turn'[asker[q]] = "live" /\ \A u \in Turn : u # asker[q] => turn'[u] = turn[u]
      /\ window'[q] = outcome /\ \A p \in Question : p # q => window'[p] = window[p]
  BY <1>a, <1>b DEF TypeOK
<1>1. turn' \in [Turn -> {"idle", "live", "asking", "over"}] /\ window' \in [Question -> Window]
  BY <1>a DEF TypeOK, Window
<1>2. AskerInv'
  <2>1. \A p \in Question : Open(p)' => Open(p) /\ p # q /\ asker[p] # asker[q]
    BY <1>c DEF Open, AskerInv
  <2>2. \A p \in Question : window'[p] = "unasked" <=> window[p] = "unasked"
    BY <1>b, <1>c
  <2>3. \A u \in Turn : turn'[u] # "idle" => sess'[u] \in known'
    BY <1>b, <1>c DEF AskerInv
  <2>4. \A p \in Question : window[p] # "unasked" => asker[p] \in Turn /\ turn'[asker[p]] # "idle"
    BY <1>b, <1>c DEF AskerInv
  <2>5. \A p \in Question : Open(p)' => turn'[asker[p]] = "asking"
    <3>1. \A p \in Question : Open(p) => asker[p] \in Turn /\ turn[asker[p]] = "asking"
      BY DEF AskerInv, Open
    <3> QED
      BY <1>c, <2>1, <3>1
  <2>6. \A p, r \in Question : Open(p)' /\ Open(r)' /\ asker[p] = asker[r] => p = r
    BY <2>1 DEF AskerInv
  <2> QED
    BY <2>2, <2>3, <2>4, <2>5, <2>6 DEF AskerInv
<1>3. MapInv'
  BY <1>b, <1>c, MapKept DEF Busy
<1> QED
  BY <1>1, <1>2, <1>3

LEMMA ReceiveKeeps ==
  ASSUME HttpIInv, NEW q \in Question, Receive(q)
  PROVE  HttpIInv'
<1> USE DEF HttpIInv, AskInv
<1>a. PICK outcome \in {"answered", "unanswered"} : Settle(q, outcome)
  BY DEF Receive
<1>b. Open(q) /\ UNCHANGED <<sess, known, regVars, pending, asker, sender, got, answerer>>
  BY DEF Receive, Open
<1>c. \A p \in Question : window[p] = "unasked" => sender'[p] = "none"
  BY <1>b DEF AskerInv
<1>1. AskerInv' /\ MapInv' /\ turn' \in [Turn -> {"idle", "live", "asking", "over"}] /\ window' \in [Question -> Window]
  BY <1>a, <1>b, <1>c, SettleFacts
<1>2. TypeOK'
  BY <1>b, <1>1 DEF TypeOK, regVars
<1>3. SenderInv' /\ AnswerIsForQuestion'
  BY <1>b DEF SenderInv, AnswerIsForQuestion
<1> QED
  BY <1>1, <1>2, <1>3

LEMMA ExpireKeeps ==
  ASSUME HttpIInv, NEW q \in Question, Expire(q)
  PROVE  HttpIInv'
<1> USE DEF HttpIInv, AskInv
<1>a. /\ window[q] = "waiting" /\ window' = [window EXCEPT ![q] = "expired"]
      /\ UNCHANGED <<turn, sess, known, regVars, pending, asker, sender, got, answerer>>
  BY DEF Expire
<1>1. TypeOK'
  BY <1>a DEF TypeOK, regVars, Window
<1>2. AskerInv'
  <2>1. \A p \in Question : (Open(p)' <=> Open(p)) /\ (window'[p] = "unasked" <=> window[p] = "unasked")
    BY <1>a DEF Open, TypeOK
  <2> QED
    BY <1>a, <2>1 DEF AskerInv
<1>3. SenderInv' /\ AnswerIsForQuestion'
  BY <1>a DEF SenderInv, AnswerIsForQuestion
<1>4. MapInv'
  BY <1>a, MapKept DEF Busy
<1> QED
  BY <1>1, <1>2, <1>3, <1>4

\* The timeout arm may close the sender of another question, which is then in no place.
LEMMA CleanUpKeeps ==
  ASSUME HttpIInv, NEW q \in Question, CleanUp(q)
  PROVE  HttpIInv'
<1> USE DEF HttpIInv, AskInv
<1> DEFINE s == sess[asker[q]]
           old == pending[s]
<1>a. /\ window[q] = "expired" /\ Settle(q, "unanswered") /\ sender' = DropSender(sender, old)
      /\ pending' = [pending EXCEPT ![s] = None]
      /\ UNCHANGED <<sess, known, regVars, asker, got, answerer>>
  BY DEF CleanUp
<1>b. Open(q) /\ s \in Session /\ old \in Question \cup {None}
  BY <1>a DEF Open, AskerInv, TypeOK
<1>c. /\ pending'[s] = None /\ \A r \in Session : r # s => pending'[r] = pending[r]
      /\ sender' \in [Question -> {"none", "open", "sent", "dropped"}]
      /\ \A p \in Question : p # old => sender'[p] = sender[p]
      /\ old # None => sender'[old] = "dropped" /\ sender[old] = "open"
  BY <1>a, <1>b, DropSenderFacts DEF TypeOK, SenderInv
<1>d. \A p \in Question : window[p] = "unasked" => sender'[p] = "none"
  BY <1>b, <1>c, HttpSessionAssumption DEF AskerInv
<1>1. AskerInv' /\ MapInv' /\ turn' \in [Turn -> {"idle", "live", "asking", "over"}] /\ window' \in [Question -> Window]
  BY <1>a, <1>b, <1>d, SettleFacts
<1>2. TypeOK'
  BY <1>a, <1>1, <1>c DEF TypeOK, regVars
<1>3. SenderInv'
  <2>1. \A r \in Session : r # s /\ pending[r] # None => pending[r] \in Question /\ pending[r] # old
    BY <1>b DEF SenderInv, TypeOK
  <2>2. \A a \in Answerer : answerer[a].held # None => answerer[a].held \in Question /\ answerer[a].held # old
    BY <1>b DEF SenderInv, TypeOK, Handler
  <2>3. \A r \in Session : pending'[r] # None => sender'[pending'[r]] = "open" /\ sess'[asker'[pending'[r]]] = r
    BY <1>a, <1>c, <2>1 DEF SenderInv
  <2>4. \A a \in Answerer : answerer[a].held # None =>
          /\ sender'[answerer[a].held] = "open"
          /\ \A r \in Session : pending'[r] # answerer[a].held
    BY <1>c, <2>2 DEF SenderInv
  <2>5. ASSUME NEW p \in Question, sender'[p] = "open"
        PROVE  (\E r \in Session : pending'[r] = p) \/ (\E a \in Answerer : answerer[a].held = p)
    <3>1. p # old /\ sender[p] = "open"
      BY <1>b, <1>c, <2>5, HttpSessionAssumption
    <3> QED
      BY <1>c, <3>1 DEF SenderInv
  <2> QED
    BY <1>a, <2>3, <2>4, <2>5 DEF SenderInv
<1>4. AnswerIsForQuestion'
  BY <1>a DEF AnswerIsForQuestion
<1> QED
  BY <1>1, <1>2, <1>3, <1>4

\* Only the handlers and the map change: who asked what stays.
LEMMA HandlerStep ==
  ASSUME HttpIInv, UNCHANGED <<turn, sess, known, regVars, asker, window>>,
         \A p \in Question : window[p] = "unasked" => sender'[p] = "none"
  PROVE  AskerInv' /\ MapInv'
<1>1. \A q \in Question : Open(q)' <=> Open(q)
  BY DEF Open
<1>2. AskerInv'
  BY <1>1 DEF HttpIInv, AskInv, AskerInv
<1>3. MapInv'
  BY MapKept DEF Busy
<1> QED
  BY <1>2, <1>3

\* The state of a handler that holds a question.
LEMMA HeldFacts ==
  ASSUME HttpIInv, NEW a \in Answerer, answerer[a].at # "idle"
  PROVE  /\ answerer[a].held \in Question /\ sender[answerer[a].held] = "open"
         /\ window[answerer[a].held] # "unasked"
         /\ sess[asker[answerer[a].held]] \in Session
<1> DEFINE q == answerer[a].held
<1>1. answerer[a] \in Handler /\ q # None
  BY DEF HttpIInv, AskInv, TypeOK
<1>2. q \in Question
  BY <1>1 DEF Handler
<1>3. sender[q] = "open" /\ window[q] # "unasked"
  BY <1>1, <1>2 DEF HttpIInv, AskInv, SenderInv, AskerInv
<1>4. sess[asker[q]] \in Session
  BY <1>2, <1>3 DEF HttpIInv, AskInv, AskerInv, TypeOK
<1> QED
  BY <1>2, <1>3, <1>4

LEMMA TakeKeeps ==
  ASSUME HttpIInv, NEW a \in Answerer, NEW s \in Session, NEW q \in Question, Take(a, s, q)
  PROVE  HttpIInv'
<1> USE DEF HttpIInv, AskInv
<1> DEFINE h == [at |-> IF pending[s] = q THEN "verifying" ELSE "mismatch", names |-> q, held |-> pending[s]]
<1>a. /\ answerer[a] = Idle /\ pending[s] # None
      /\ answerer' = [answerer EXCEPT ![a] = h] /\ pending' = [pending EXCEPT ![s] = None]
      /\ UNCHANGED <<turn, sess, known, regVars, asker, window, sender, got>>
  BY DEF Take
<1>b. /\ pending[s] \in Question /\ answerer[a].held = None
      /\ pending'[s] = None /\ \A r \in Session : r # s => pending'[r] = pending[r]
      /\ answerer'[a] = h /\ \A b \in Answerer : b # a => answerer'[b] = answerer[b]
  BY <1>a DEF TypeOK, Idle
<1>c. h \in Handler /\ h.held = pending[s] /\ h.names = q /\ (h.at = "verifying" => h.names = h.held) /\ h.at # "idle"
  BY <1>b DEF Handler
<1> HIDE DEF h
<1>1. TypeOK'
  <2>1. answerer' \in [Answerer -> Handler]
    BY <1>a, <1>c DEF TypeOK
  <2>2. \A b \in Answerer : answerer'[b].at = "idle" <=> answerer'[b].held = None
    BY <1>a, <1>b, <1>c DEF TypeOK
  <2> QED
    BY <1>a, <2>1, <2>2 DEF TypeOK, regVars
<1>2. AskerInv' /\ MapInv'
  BY <1>a, HandlerStep DEF AskerInv
<1>3. SenderInv'
  <2>1. \A r \in Session : r # s => pending[r] # pending[s]
    BY <1>a DEF SenderInv
  <2>2. \A b \in Answerer : b # a => answerer[b].held # pending[s]
    BY <1>a DEF SenderInv
  <2>3. \A r \in Session : pending'[r] # None => sender'[pending'[r]] = "open" /\ sess'[asker'[pending'[r]]] = r
    BY <1>a, <1>b DEF SenderInv
  <2>4. ASSUME NEW b \in Answerer, answerer'[b].held # None
        PROVE  /\ sender'[answerer'[b].held] = "open"
               /\ \A r \in Session : pending'[r] # answerer'[b].held
               /\ \A d \in Answerer : answerer'[d].held = answerer'[b].held => b = d
               /\ answerer'[b].at = "verifying" => answerer'[b].names = answerer'[b].held
    <3>1. CASE b = a
      BY <1>a, <1>b, <1>c, <2>1, <2>2, <2>4, <3>1 DEF SenderInv
    <3>2. CASE b # a
      BY <1>a, <1>b, <1>c, <2>2, <2>4, <3>2 DEF SenderInv
    <3> QED
      BY <3>1, <3>2
  <2>5. ASSUME NEW p \in Question, sender'[p] = "open"
        PROVE  (\E r \in Session : pending'[r] = p) \/ (\E b \in Answerer : answerer'[b].held = p)
    <3>1. CASE p = pending[s]
      BY <1>b, <1>c, <3>1
    <3>2. CASE p # pending[s]
      <4>1. (\E r \in Session : pending[r] = p) \/ (\E b \in Answerer : answerer[b].held = p)
        BY <1>a, <2>5 DEF SenderInv
      <4>2. p # None
        BY HttpSessionAssumption
      <4> QED
        BY <1>b, <3>2, <4>1, <4>2
    <3> QED
      BY <3>1, <3>2
  <2> QED
    BY <2>3, <2>4, <2>5 DEF SenderInv
<1>4. AnswerIsForQuestion'
  BY <1>a DEF AnswerIsForQuestion
<1> QED
  BY <1>1, <1>2, <1>3, <1>4

\* The entry goes back under the session of its asker, over one asked meanwhile.
LEMMA PutBackKeeps ==
  ASSUME HttpIInv, NEW a \in Answerer, PutBack(a)
  PROVE  HttpIInv'
<1> USE DEF HttpIInv, AskInv
<1> DEFINE q == answerer[a].held
           s == sess[asker[q]]
           old == pending[s]
<1>a. /\ answerer[a].at = "mismatch" /\ sender' = DropSender(sender, old)
      /\ answerer' = [answerer EXCEPT ![a] = Idle] /\ pending' = [pending EXCEPT ![s] = q]
      /\ UNCHANGED <<turn, sess, known, regVars, asker, window, got>>
  BY DEF PutBack
<1>q. q \in Question /\ q # None /\ sender[q] = "open" /\ s \in Session
  BY <1>a, HeldFacts, HttpSessionAssumption
<1>b. /\ old \in Question \cup {None} /\ old # q
      /\ pending'[s] = q /\ \A r \in Session : r # s => pending'[r] = pending[r]
      /\ answerer'[a] = Idle /\ \A b \in Answerer : b # a => answerer'[b] = answerer[b]
  BY <1>a, <1>q DEF TypeOK, SenderInv
<1>c. /\ sender' \in [Question -> {"none", "open", "sent", "dropped"}]
      /\ \A p \in Question : p # old => sender'[p] = sender[p]
      /\ old # None => sender'[old] = "dropped" /\ sender[old] = "open"
  <2>1. old # None => sender[old] = "open"
    BY <1>q DEF SenderInv
  <2> QED
    BY <1>a, <1>b, <2>1, DropSenderFacts
<1>d. Idle \in Handler /\ Idle.held = None /\ Idle.at = "idle"
  BY DEF Idle, Handler
<1>1. TypeOK'
  <2>1. answerer' \in [Answerer -> Handler]
    BY <1>a, <1>d DEF TypeOK
  <2>2. \A b \in Answerer : answerer'[b].at = "idle" <=> answerer'[b].held = None
    BY <1>b, <1>d DEF TypeOK
  <2>3. pending' \in [Session -> Question \cup {None}]
    BY <1>a, <1>q DEF TypeOK
  <2> QED
    BY <1>a, <1>c, <2>1, <2>2, <2>3 DEF TypeOK, regVars
<1>2. AskerInv' /\ MapInv'
  <2>1. \A p \in Question : window[p] = "unasked" => sender'[p] = "none"
    BY <1>b, <1>c, HttpSessionAssumption DEF AskerInv
  <2> QED
    BY <1>a, <2>1, HandlerStep
<1>3. SenderInv'
  <2>1. \A r \in Session : r # s /\ pending[r] # None => pending[r] \in Question /\ pending[r] # old /\ pending[r] # q
    BY <1>q DEF SenderInv, TypeOK
  <2>2. \A b \in Answerer : b # a /\ answerer[b].held # None =>
          answerer[b].held \in Question /\ answerer[b].held # old /\ answerer[b].held # q
    BY <1>q DEF SenderInv, TypeOK, Handler
  <2>3. \A r \in Session : pending'[r] # None => sender'[pending'[r]] = "open" /\ sess'[asker'[pending'[r]]] = r
    <3>1. sender'[q] = "open"
      BY <1>b, <1>c, <1>q
    <3>2. \A r \in Session : r # s /\ pending[r] # None => sender'[pending[r]] = "open" /\ sess[asker[pending[r]]] = r
      BY <1>c, <2>1 DEF SenderInv
    <3> HIDE DEF q, old
    <3> QED
      BY <1>a, <1>b, <3>1, <3>2
  <2>4. ASSUME NEW b \in Answerer, answerer'[b].held # None
        PROVE  /\ sender'[answerer'[b].held] = "open"
               /\ \A r \in Session : pending'[r] # answerer'[b].held
               /\ \A d \in Answerer : answerer'[d].held = answerer'[b].held => b = d
               /\ answerer'[b].at = "verifying" => answerer'[b].names = answerer'[b].held
    <3>1. b # a /\ answerer'[b] = answerer[b] /\ answerer[b].held \in Question
          /\ answerer[b].held # old /\ answerer[b].held # q
      BY <1>b, <1>d, <2>2, <2>4
    <3>2. sender'[answerer[b].held] = "open"
      BY <1>c, <2>4, <3>1 DEF SenderInv
    <3>3. \A r \in Session : pending'[r] # answerer[b].held
      BY <1>b, <2>4, <3>1 DEF SenderInv
    <3>4. \A d \in Answerer : answerer'[d].held = answerer[b].held => b = d
      BY <1>b, <1>d, <2>4, <3>1 DEF SenderInv
    <3> QED
      BY <2>4, <3>1, <3>2, <3>3, <3>4 DEF SenderInv
  <2>5. ASSUME NEW p \in Question, sender'[p] = "open"
        PROVE  (\E r \in Session : pending'[r] = p) \/ (\E b \in Answerer : answerer'[b].held = p)
    <3>1. CASE p = q
      BY <1>b, <1>q, <3>1
    <3>2. CASE p # q
      <4>1. p # old /\ sender[p] = "open"
        BY <1>b, <1>c, <2>5, HttpSessionAssumption
      <4>2. (\E r \in Session : pending[r] = p) \/ (\E b \in Answerer : answerer[b].held = p)
        BY <4>1 DEF SenderInv
      <4> QED
        BY <1>b, <3>2, <4>1, <4>2
    <3> QED
      BY <3>1, <3>2
  <2> QED
    BY <2>3, <2>4, <2>5 DEF SenderInv
<1>4. AnswerIsForQuestion'
  BY <1>a DEF AnswerIsForQuestion
<1> QED
  BY <1>1, <1>2, <1>3, <1>4

\* A handler that ends with its sender used up or dropped.
LEMMA HandlerEnds ==
  ASSUME HttpIInv, NEW a \in Answerer, answerer[a].at = "verifying",
         sender' \in [Question -> {"none", "open", "sent", "dropped"}],
         sender'[answerer[a].held] \in {"sent", "dropped"},
         \A p \in Question : p # answerer[a].held => sender'[p] = sender[p],
         got' = got \/ got' = [got EXCEPT ![answerer[a].held] = answerer[a].names],
         answerer' = [answerer EXCEPT ![a] = Idle],
         UNCHANGED <<turn, sess, known, regVars, pending, asker, window>>
  PROVE  HttpIInv'
<1> USE DEF HttpIInv, AskInv
<1> DEFINE q == answerer[a].held
<1>q. /\ q \in Question /\ q # None /\ sender[q] = "open" /\ window[q] # "unasked" /\ answerer[a].names = q
  BY HeldFacts, HttpSessionAssumption DEF SenderInv
<1>b. answerer'[a] = Idle /\ \A b \in Answerer : b # a => answerer'[b] = answerer[b]
  BY DEF TypeOK
<1>d. Idle \in Handler /\ Idle.held = None /\ Idle.at = "idle"
  BY DEF Idle, Handler
<1>1. TypeOK'
  <2>1. answerer' \in [Answerer -> Handler]
    BY <1>d DEF TypeOK
  <2>2. \A b \in Answerer : answerer'[b].at = "idle" <=> answerer'[b].held = None
    BY <1>b, <1>d DEF TypeOK
  <2>3. got' \in [Question -> Question \cup {None}]
    BY <1>q DEF TypeOK
  <2> QED
    BY <2>1, <2>2, <2>3 DEF TypeOK, regVars
<1>2. AskerInv' /\ MapInv'
  BY <1>q, HandlerStep DEF AskerInv
<1>3. SenderInv'
  <2>1. \A r \in Session : pending[r] # None => pending[r] \in Question /\ pending[r] # q
    BY <1>q DEF SenderInv, TypeOK
  <2>2. \A b \in Answerer : b # a /\ answerer[b].held # None =>
          answerer[b].held \in Question /\ answerer[b].held # q
    BY <1>q DEF SenderInv, TypeOK, Handler
  <2>3. \A r \in Session : pending[r] # None => sender'[pending[r]] = "open"
    BY <2>1 DEF SenderInv
  <2>4. ASSUME NEW b \in Answerer, answerer'[b].held # None
        PROVE  /\ sender'[answerer'[b].held] = "open"
               /\ \A r \in Session : pending'[r] # answerer'[b].held
               /\ \A d \in Answerer : answerer'[d].held = answerer'[b].held => b = d
               /\ answerer'[b].at = "verifying" => answerer'[b].names = answerer'[b].held
    <3>1. b # a /\ answerer'[b] = answerer[b] /\ answerer[b].held \in Question /\ answerer[b].held # q
      BY <1>b, <1>d, <2>2, <2>4
    <3>2. sender'[answerer[b].held] = "open"
      BY <2>4, <3>1 DEF SenderInv
    <3>4. \A d \in Answerer : answerer'[d].held = answerer[b].held => b = d
      BY <1>b, <1>d, <2>4, <3>1 DEF SenderInv
    <3> QED
      BY <2>4, <3>1, <3>2, <3>4 DEF SenderInv
  <2>5. ASSUME NEW p \in Question, sender'[p] = "open"
        PROVE  (\E r \in Session : pending'[r] = p) \/ (\E b \in Answerer : answerer'[b].held = p)
    <3>1. p # q /\ sender[p] = "open"
      BY <1>q, <2>5
    <3>2. (\E r \in Session : pending[r] = p) \/ (\E b \in Answerer : answerer[b].held = p)
      BY <3>1 DEF SenderInv
    <3> QED
      BY <1>b, <3>1, <3>2
  <2> QED
    BY <2>3, <2>4, <2>5 DEF SenderInv
<1>4. AnswerIsForQuestion'
  BY <1>q DEF AnswerIsForQuestion, TypeOK
<1> QED
  BY <1>1, <1>2, <1>3, <1>4

LEMMA DeliverKeeps ==
  ASSUME HttpIInv, NEW a \in Answerer, Deliver(a)
  PROVE  HttpIInv'
<1>1. answerer[a].at = "verifying" /\ answerer[a].held \in Question
  BY HeldFacts DEF Deliver
<1>2. sender' = [sender EXCEPT ![answerer[a].held] = "sent"]
  BY DEF Deliver
<1>3. /\ sender' \in [Question -> {"none", "open", "sent", "dropped"}]
      /\ sender'[answerer[a].held] \in {"sent", "dropped"}
      /\ \A p \in Question : p # answerer[a].held => sender'[p] = sender[p]
  BY <1>1, <1>2 DEF HttpIInv, AskInv, TypeOK
<1> QED
  BY <1>1, <1>3, HandlerEnds DEF Deliver

LEMMA AnswererLeavesKeeps ==
  ASSUME HttpIInv, NEW a \in Answerer, AnswererLeaves(a)
  PROVE  HttpIInv'
<1>1. answerer[a].at = "verifying" /\ answerer[a].held \in Question /\ sender[answerer[a].held] = "open"
  BY HeldFacts DEF AnswererLeaves
<1>2. sender' = DropSender(sender, answerer[a].held)
  BY DEF AnswererLeaves
<1>3. /\ sender' \in [Question -> {"none", "open", "sent", "dropped"}]
      /\ sender'[answerer[a].held] \in {"sent", "dropped"}
      /\ \A p \in Question : p # answerer[a].held => sender'[p] = sender[p]
  BY <1>1, <1>2, DropSenderFacts DEF HttpIInv, AskInv
<1> QED
  BY <1>1, <1>3, HandlerEnds DEF AnswererLeaves

\* The endpoints that cancel or change a session have no part in questions.
LEMMA QuestionsKept ==
  ASSUME HttpIInv, UNCHANGED <<turn, sess, known, askVars>>
  PROVE  AskerInv' /\ SenderInv' /\ AnswerIsForQuestion'
<1>1. \A q \in Question : Open(q)' <=> Open(q)
  BY DEF Open, askVars
<1> QED
  BY <1>1 DEF HttpIInv, AskInv, AskerInv, SenderInv, AnswerIsForQuestion, askVars

LEMMA CancelKeeps ==
  ASSUME HttpIInv, NEW c \in Canceller, NEW s \in Session, Cancel(c, s)
  PROVE  HttpIInv'
<1> USE DEF HttpIInv, AskInv
<1>a. /\ s \in known /\ running[s] # None /\ cancelled' = cancelled \cup {running[s]}
      /\ canceller' = [canceller EXCEPT ![c] = s]
      /\ UNCHANGED <<turn, sess, known, running, changed, changer, askVars>>
  BY DEF Cancel
<1>b. running[s] \in Turn /\ running[s] \in Streamed /\ turn[running[s]] # "idle" /\ sess[running[s]] = s
  BY <1>a, HttpSessionAssumption DEF MapInv
<1>1. TypeOK'
  BY <1>a, <1>b DEF TypeOK, askVars
<1>2. AskerInv' /\ SenderInv' /\ AnswerIsForQuestion'
  BY <1>a, QuestionsKept
<1>3. MapInv'
  <2>1. \A r : Stopped(r) => Stopped(r)'
    BY <1>a DEF Stopped, Busy
  <2>2. Stopped(s)'
    <3>1. \A t \in Streamed : Busy(t) /\ sess[t] = s => t = running[s]
      BY <1>b DEF MapInv, Busy
    <3> QED
      BY <1>a, <3>1 DEF Stopped, Busy
  <2>3. \A d \in Canceller : canceller'[d] # None => Stopped(canceller[d])'
    BY <1>a, <2>1, <2>2 DEF MapInv, TypeOK, Stopped, Busy
  <2> QED
    BY <1>a, <2>1, <2>3 DEF MapInv, StreamUntouched, Busy, Stopped
<1> QED
  BY <1>1, <1>2, <1>3

\* By the time the entry is removed, its turn is cancelled.
LEMMA CancelRemovesKeeps ==
  ASSUME HttpIInv, NEW c \in Canceller, CancelRemoves(c)
  PROVE  HttpIInv'
<1> USE DEF HttpIInv, AskInv
<1> DEFINE s == canceller[c]
<1>a. /\ s # None /\ running' = [running EXCEPT ![s] = None]
      /\ canceller' = [canceller EXCEPT ![c] = None]
      /\ UNCHANGED <<turn, sess, known, cancelled, changed, changer, askVars>>
  BY DEF CancelRemoves
<1>b. /\ s \in Session /\ Stopped(s) /\ running'[s] = None
      /\ \A r \in Session : r # s => running'[r] = running[r]
  BY <1>a DEF TypeOK, MapInv
<1>1. TypeOK'
  BY <1>a DEF TypeOK, askVars
<1>2. AskerInv' /\ SenderInv' /\ AnswerIsForQuestion'
  BY <1>a, QuestionsKept
<1>3. MapInv'
  <2>1. \A r : Stopped(r) => Stopped(r)'
    BY <1>a DEF Stopped, Busy
  <2>2. ASSUME NEW t \in Streamed, Busy(t), t \notin cancelled PROVE running'[sess[t]] = t
    <3>1. running[sess[t]] = t /\ sess[t] # s /\ sess[t] \in Session
      BY <1>b, <2>2, HttpSessionAssumption DEF MapInv, Stopped, Busy, AskerInv, TypeOK
    <3> QED
      BY <1>b, <3>1
  <2>3. \A d \in Canceller : canceller'[d] # None => Stopped(canceller[d])'
    BY <1>a, <2>1 DEF MapInv, TypeOK, Stopped, Busy
  <2>4. \A r \in Session : running'[r] # None =>
          running'[r] \in Streamed /\ turn[running'[r]] # "idle" /\ sess[running'[r]] = r
    BY <1>b DEF MapInv
  <2> QED
    BY <1>a, <2>1, <2>2, <2>3, <2>4 DEF MapInv, StreamUntouched, Busy
<1> QED
  BY <1>1, <1>2, <1>3

\* Whoever finds no entry of the session finds no streamed turn that goes on.
LEMMA GuardKeeps ==
  ASSUME HttpIInv, NEW c \in Changer, NEW s \in Session, Guard(c, s)
  PROVE  HttpIInv'
<1> USE DEF HttpIInv, AskInv
<1>a. /\ s \in known /\ running[s] = None /\ changer' = [changer EXCEPT ![c] = s]
      /\ UNCHANGED <<turn, sess, known, running, cancelled, changed, canceller, askVars>>
  BY DEF Guard
<1>1. TypeOK'
  BY <1>a DEF TypeOK, askVars
<1>2. AskerInv' /\ SenderInv' /\ AnswerIsForQuestion'
  BY <1>a, QuestionsKept
<1>3. MapInv'
  <2>1. \A r : Stopped(r) => Stopped(r)'
    BY <1>a DEF Stopped, Busy
  <2>2. Stopped(s)
    BY <1>a, HttpSessionAssumption DEF Stopped, MapInv
  <2>3. \A d \in Changer : changer'[d] # None => Stopped(changer[d])'
    BY <1>a, <2>1, <2>2 DEF MapInv, TypeOK, Stopped, Busy
  <2> QED
    BY <1>a, <2>1, <2>3 DEF MapInv, StreamUntouched, Busy, Stopped
<1> QED
  BY <1>1, <1>2, <1>3

LEMMA ChangeKeeps ==
  ASSUME HttpIInv, NEW c \in Changer, Change(c)
  PROVE  HttpIInv'
<1> USE DEF HttpIInv, AskInv
<1>a. /\ changer[c] # None /\ changed' = changed \cup {t \in Turn : Busy(t) /\ sess[t] = changer[c]}
      /\ changer' = [changer EXCEPT ![c] = None]
      /\ UNCHANGED <<turn, sess, known, running, cancelled, canceller, askVars>>
  BY DEF Change
<1>1. TypeOK'
  BY <1>a DEF TypeOK, askVars
<1>2. AskerInv' /\ SenderInv' /\ AnswerIsForQuestion'
  BY <1>a, QuestionsKept
<1>3. MapInv'
  <2>1. \A r : Stopped(r) => Stopped(r)'
    BY <1>a DEF Stopped, Busy
  <2>2. StreamUntouched'
    BY <1>a DEF StreamUntouched, MapInv, Stopped
  <2>3. \A d \in Changer : changer'[d] # None => Stopped(changer[d])'
    BY <1>a, <2>1 DEF MapInv, TypeOK, Stopped, Busy
  <2> QED
    BY <1>a, <2>1, <2>2, <2>3 DEF MapInv, Busy
<1> QED
  BY <1>1, <1>2, <1>3

LEMMA NextHttp == HttpIInv /\ [Next]_vars => HttpIInv'
<1> SUFFICES ASSUME HttpIInv, [Next]_vars PROVE HttpIInv'
  OBVIOUS
<1>1. ASSUME NEW t \in Turn, Stream(t) \/ Converse(t) \/ Finish(t) \/ HangUp(t) PROVE HttpIInv'
  BY <1>1, StreamKeeps, ConverseKeeps, FinishKeeps, HangUpKeeps
<1>2. ASSUME NEW t \in Turn, NEW q \in Question, Ask(t, q) PROVE HttpIInv'
  BY <1>2, AskKeeps
<1>3. ASSUME NEW q \in Question, Waiter(q) PROVE HttpIInv'
  BY <1>3, ReceiveKeeps, ExpireKeeps, CleanUpKeeps DEF Waiter
<1>4. ASSUME NEW a \in Answerer, PutBack(a) \/ Deliver(a) \/ AnswererLeaves(a) PROVE HttpIInv'
  BY <1>4, PutBackKeeps, DeliverKeeps, AnswererLeavesKeeps
<1>5. ASSUME NEW a \in Answerer, NEW s \in Session, NEW q \in Question, Take(a, s, q) PROVE HttpIInv'
  BY <1>5, TakeKeeps
<1>6. ASSUME NEW c \in Canceller, CancelRemoves(c) \/ \E s \in Session : Cancel(c, s) PROVE HttpIInv'
  BY <1>6, CancelRemovesKeeps, CancelKeeps
<1>7. ASSUME NEW c \in Changer, Change(c) \/ \E s \in Session : Guard(c, s) PROVE HttpIInv'
  BY <1>7, ChangeKeeps, GuardKeeps
<1>8. CASE UNCHANGED vars
  <2>1. UNCHANGED <<turn, sess, known, regVars, askVars>>
    BY <1>8 DEF vars, regVars, askVars
  <2>2. TypeOK'
    BY <2>1 DEF HttpIInv, AskInv, TypeOK, regVars, askVars
  <2>3. AskerInv' /\ SenderInv' /\ AnswerIsForQuestion'
    BY <2>1, QuestionsKept
  <2>4. MapInv'
    BY <2>1, MapKept DEF Busy
  <2> QED
    BY <2>2, <2>3, <2>4 DEF HttpIInv, AskInv
<1> QED
  BY <1>1, <1>2, <1>3, <1>4, <1>5, <1>6, <1>7, <1>8 DEF Next

\* The inductive invariant of the endpoints holds in every reachable state.
THEOREM HttpIInvHolds == Spec => []HttpIInv
  BY InitHttp, NextHttp, PTL DEF Spec

\* An answer reaches the question it was given to, and a question that can still
\* be answered is under its session or with exactly one handler: HttpAskUser,
\* its timeout arm and answer_agent, in any order.
THEOREM QuestionsAreKept == Spec => []QuestionInv
<1>1. HttpIInv => QuestionInv
  <2> SUFFICES ASSUME HttpIInv PROVE SenderIsHeld
    BY DEF HttpIInv, AskInv, QuestionInv
  <2> SUFFICES ASSUME NEW q \in Question, sender[q] = "open"
               PROVE  Cardinality({s \in Session : pending[s] = q}
                                  \cup {a \in Answerer : answerer[a].held = q}) = 1
    BY DEF SenderIsHeld
  <2>0. SenderInv /\ q # None
    BY HttpSessionAssumption DEF HttpIInv, AskInv
  <2>1. CASE \E s \in Session : pending[s] = q
    <3>1. PICK s \in Session : pending[s] = q
      BY <2>1
    <3>2. {r \in Session : pending[r] = q} = {s}
      BY <2>0, <3>1 DEF SenderInv
    <3>3. {a \in Answerer : answerer[a].held = q} = {}
      BY <2>0, <3>1 DEF SenderInv
    <3>4. {r \in Session : pending[r] = q} \cup {a \in Answerer : answerer[a].held = q} = {s}
      BY <3>2, <3>3
    <3> QED
      BY <3>4, FS_Singleton
  <2>2. CASE \E a \in Answerer : answerer[a].held = q
    <3>1. PICK a \in Answerer : answerer[a].held = q
      BY <2>2
    <3>2. {b \in Answerer : answerer[b].held = q} = {a}
      BY <2>0, <3>1 DEF SenderInv
    <3>3. {r \in Session : pending[r] = q} = {}
      BY <2>0, <3>1 DEF SenderInv
    <3>4. {r \in Session : pending[r] = q} \cup {b \in Answerer : answerer[b].held = q} = {a}
      BY <3>2, <3>3
    <3> QED
      BY <3>4, FS_Singleton
  <2> QED
    BY <2>0, <2>1, <2>2 DEF SenderInv
<1> QED
  BY <1>1, HttpIInvHolds, PTL

\* A streamed turn nobody has cancelled is found by cancel_agent under its session,
\* and no rewind, checkpoint, restore or compaction changes its session.
THEOREM StreamsAreKept == Spec => []StreamInv
<1>1. HttpIInv => StreamInv
  BY DEF HttpIInv, MapInv, StreamInv, CancelReaches
<1> QED
  BY <1>1, HttpIInvHolds, PTL

-----------------------------------------------------------------------------
(* Delegation *)

LedgerHas(c) == \E i \in DOMAIN ledger : ledger[i].call = c
FiledAt(r, c) == \E x \in filed[r] : x.call = c

\* A call is noted in one place.
NotedInv ==
  /\ \A c \in Call : slot[c] > 0 <=> LedgerHas(c) \/ \E r \in Runner : FiledAt(r, c)
  /\ \A i, j \in DOMAIN ledger : ledger[i].call = ledger[j].call => i = j
  /\ \A c \in Call, r \in Runner : LedgerHas(c) => ~FiledAt(r, c)
  /\ \A c \in Call, q, r \in Runner : FiledAt(q, c) /\ FiledAt(r, c) => q = r
  /\ \A c \in Call : call[c] \in {"unmade", "starting"} => slot[c] = 0 /\ spent[c] = 0

\* What holds of a call whose window no other window overlaps.
Alone(c) ==
  /\ call[c] \in InWindow => counter = base[c] + spent[c]
  /\ call[c] \in {"running", "returned"} /\ slot[c] > 0 =>
       slot[c] \in DOMAIN ledger /\ ledger[slot[c]].call = c
  /\ call[c] = "running" => slot[c] > 0
  /\ call[c] = "returned" /\ slot[c] > 0 => ledger[slot[c]].tokens = spent[c]

WindowInv ==
  /\ IsFiniteSet(Windows(call))
  /\ \A c, d \in Windows(call) : c # d => c \in crossed
  /\ \A c \in Call : base[c] <= counter /\ spent[c] <= counter
  /\ \A c \in Call \ crossed : Alone(c)

DelegationIInv == DelegationTypeOK /\ NotedInv /\ WindowInv /\ SerialWindowExact

\* Two windows at once are counted as more than one.
LEMMA TwoAreMore ==
  ASSUME NEW S, IsFiniteSet(S), NEW a \in S, NEW b \in S, a # b
  PROVE  Cardinality(S) > 1
<1>1. Cardinality({a}) = 1 /\ IsFiniteSet({a})
  BY FS_Singleton
<1>2. Cardinality({a} \cup {b}) = 2 /\ IsFiniteSet({a} \cup {b})
  BY <1>1, FS_AddElement
<1>3. {a} \cup {b} \subseteq S
  OBVIOUS
<1>4. Cardinality({a} \cup {b}) <= Cardinality(S) /\ Cardinality(S) \in Nat
  BY <1>3, FS_Subset, FS_CardinalityType
<1> QED
  BY <1>2, <1>4

\* A call outside the windows, or crossed, makes no claim to be alone.
LEMMA OthersNotIn ==
  ASSUME WindowInv, NEW c \in Windows(call), NEW d \in Call \ crossed, d # c
  PROVE  call[d] \notin InWindow
  BY DEF WindowInv, Windows

LEMMA OutsideIsAlone ==
  ASSUME NEW c, call[c] \notin InWindow
  PROVE  Alone(c)
  BY DEF Alone, InWindow

LEMMA InitDelegation == DelegationInit => DelegationIInv
<1> SUFFICES ASSUME DelegationInit PROVE DelegationIInv
  OBVIOUS
<1>1. DelegationTypeOK
  BY DelegationAssumption DEF DelegationInit, DelegationTypeOK, CallState, NodeState
<1>2. NotedInv
  BY DEF DelegationInit, NotedInv, LedgerHas, FiledAt
<1>3. Windows(call) = {}
  BY DEF DelegationInit, Windows, InWindow
<1>4. WindowInv
  <2>1. \A c \in Call : Alone(c)
    BY DEF DelegationInit, Alone, InWindow
  <2>2. IsFiniteSet({})
    BY FS_EmptySet
  <2>3. \A c \in Call : base[c] <= counter /\ spent[c] <= counter
    BY DEF DelegationInit
  <2> QED
    BY <1>3, <2>1, <2>2, <2>3 DEF WindowInv
<1>5. SerialWindowExact
  BY DEF DelegationInit, SerialWindowExact
<1> QED
  BY <1>1, <1>2, <1>4, <1>5 DEF DelegationIInv

LEMMA DelegateKeeps ==
  ASSUME DelegationIInv, NEW c \in Call, Delegate(c)
  PROVE  DelegationIInv'
<1> USE DEF DelegationIInv
<1>a. PICK state \in {"starting", "returned"} : call' = [call EXCEPT ![c] = state]
  BY DEF Delegate
<1>b. /\ call[c] = "unmade" /\ base' = [base EXCEPT ![c] = counter]
      /\ crossed' = IF Cardinality(Windows(call')) > 1 THEN crossed \cup Windows(call') ELSE crossed
      /\ UNCHANGED <<ledger, slot, counter, spent, filed, nodeVars>>
  BY DEF Delegate
<1>c. call'[c] = state /\ (\A d \in Call : d # c => call'[d] = call[d])
      /\ base'[c] = counter /\ (\A d \in Call : d # c => base'[d] = base[d])
  BY <1>a, <1>b DEF DelegationTypeOK
<1>d. Windows(call') = Windows(call) \cup {c} /\ Windows(call') \subseteq Call
  BY <1>c DEF Windows, InWindow
<1>1. DelegationTypeOK'
  BY <1>a, <1>b, <1>d DEF DelegationTypeOK, nodeVars, CallState
<1>2. NotedInv'
  BY <1>b, <1>c DEF NotedInv, LedgerHas, FiledAt
<1>3. IsFiniteSet(Windows(call'))
  BY <1>d, FS_AddElement DEF WindowInv
<1>4. \A d, e \in Windows(call') : d # e => d \in crossed'
  BY <1>b, <1>3, TwoAreMore
<1>5. ASSUME NEW d \in Call \ crossed' PROVE Alone(d)'
  <2>1. CASE d = c
    <3>1. slot[c] = 0 /\ spent[c] = 0 /\ counter \in Nat
      BY <1>b DEF NotedInv, DelegationTypeOK
    <3> QED
      BY <1>b, <1>c, <2>1, <3>1 DEF Alone
  <2>2. CASE d # c
    <3>1. d \notin Windows(call')
      BY <1>4, <1>5, <1>d, <2>2
    <3>2. call'[d] \notin InWindow
      BY <3>1 DEF Windows
    <3> QED
      BY <3>2 DEF Alone, InWindow
  <2> QED
    BY <2>1, <2>2
<1>6. WindowInv'
  <2>1. \A d \in Call : base'[d] <= counter' /\ spent'[d] <= counter'
    BY <1>b, <1>c DEF WindowInv, DelegationTypeOK
  <2> QED
    BY <1>3, <1>4, <1>5, <2>1 DEF WindowInv
<1>7. SerialWindowExact'
  BY <1>b, <1>c DEF SerialWindowExact
<1> QED
  BY <1>1, <1>2, <1>6, <1>7

LEMMA AnchorKeeps ==
  ASSUME DelegationIInv, NEW c \in Call, Anchor(c)
  PROVE  DelegationIInv'
<1> USE DEF DelegationIInv
<1> DEFINE x == [call |-> c, tokens |-> Unknown]
           n == Len(ledger) + 1
<1>a. /\ call[c] = "starting" /\ call' = [call EXCEPT ![c] = "running"]
      /\ slot' = [slot EXCEPT ![c] = n] /\ ledger' = Append(ledger, x)
      /\ UNCHANGED <<counter, base, spent, filed, crossed, nodeVars>>
  BY DEF Anchor
<1>b. call'[c] = "running" /\ (\A d \in Call : d # c => call'[d] = call[d])
      /\ slot'[c] = n /\ (\A d \in Call : d # c => slot'[d] = slot[d])
  BY <1>a DEF DelegationTypeOK
<1>x. x \in Record /\ x.call = c /\ ledger \in Seq(Record)
  BY DelegationAssumption DEF Record, Unknown, DelegationTypeOK
<1> HIDE DEF x
<1>l. /\ ledger' \in Seq(Record) /\ n \in Nat /\ n > 0
      /\ DOMAIN ledger = 1 .. n - 1 /\ DOMAIN ledger' = 1 .. n
      /\ (\A i \in 1 .. n - 1 : ledger'[i] = ledger[i]) /\ ledger'[n] = x
  BY <1>a, <1>x
<1> HIDE DEF n
<1>w. Windows(call') = Windows(call) /\ c \in Windows(call)
  BY <1>a, <1>b DEF Windows, InWindow
<1>1. DelegationTypeOK'
  BY <1>a, <1>l DEF DelegationTypeOK, nodeVars, CallState
<1>2. NotedInv'
  <2>0. slot[c] = 0 /\ ~LedgerHas(c) /\ \A r \in Runner : ~FiledAt(r, c)
    <3>1. slot[c] = 0
      BY <1>a DEF NotedInv
    <3>2. ~(LedgerHas(c) \/ \E r \in Runner : FiledAt(r, c))
      BY <3>1 DEF NotedInv
    <3> QED
      BY <3>1, <3>2
  <2>1. \A d \in Call : LedgerHas(d)' <=> LedgerHas(d) \/ d = c
    <3>1. \A d \in Call : LedgerHas(d) => LedgerHas(d)'
      BY <1>l DEF LedgerHas
    <3>2. LedgerHas(c)'
      <4>1. n \in DOMAIN ledger' /\ ledger'[n].call = c
        BY <1>l, <1>x
      <4> QED
        BY <4>1 DEF LedgerHas
    <3>3. ASSUME NEW d \in Call, LedgerHas(d)', d # c PROVE LedgerHas(d)
      <4>1. PICK i \in 1 .. n : ledger'[i].call = d
        BY <1>l, <3>3 DEF LedgerHas
      <4>2. i \in 1 .. n - 1
        BY <1>l, <1>x, <3>3, <4>1
      <4> QED
        BY <1>l, <4>1, <4>2 DEF LedgerHas
    <3> QED
      BY <3>1, <3>2, <3>3
  <2>2. \A d \in Call, r \in Runner : FiledAt(r, d)' <=> FiledAt(r, d)
    BY <1>a DEF FiledAt
  <2>3. ASSUME NEW i \in DOMAIN ledger', NEW j \in DOMAIN ledger', ledger'[i].call = ledger'[j].call
        PROVE  i = j
    <3>1. \A k \in 1 .. n - 1 : ledger[k].call # c
      BY <1>l, <2>0 DEF LedgerHas
    <3>2. CASE i \in 1 .. n - 1 /\ j \in 1 .. n - 1
      BY <1>l, <2>3, <3>2 DEF NotedInv
    <3>3. CASE i = n \/ j = n
      BY <1>l, <1>x, <2>3, <3>1, <3>3
    <3> QED
      BY <1>l, <3>2, <3>3
  <2>4. \A d \in Call : slot'[d] > 0 <=> LedgerHas(d)' \/ \E r \in Runner : FiledAt(r, d)'
    BY <1>b, <1>l, <2>1, <2>2 DEF NotedInv
  <2>5. \A d \in Call, r \in Runner : LedgerHas(d)' => ~FiledAt(r, d)'
    BY <2>0, <2>1, <2>2 DEF NotedInv
  <2>6. \A d \in Call, q, r \in Runner : FiledAt(q, d)' /\ FiledAt(r, d)' => q = r
    BY <2>2 DEF NotedInv
  <2>7. \A d \in Call : call'[d] \in {"unmade", "starting"} => slot'[d] = 0 /\ spent'[d] = 0
    BY <1>a, <1>b DEF NotedInv
  <2> QED
    BY <2>3, <2>4, <2>5, <2>6, <2>7 DEF NotedInv
<1>3. ASSUME NEW d \in Call \ crossed' PROVE Alone(d)'
  <2>1. CASE d = c
    <3>1. counter = base[c] + spent[c]
      BY <1>3, <1>a, <2>1 DEF WindowInv, Alone, InWindow
    <3>2. slot'[c] \in DOMAIN ledger' /\ ledger'[slot'[c]].call = c /\ slot'[c] > 0
      BY <1>b, <1>l, <1>x
    <3> QED
      BY <1>a, <1>b, <2>1, <3>1, <3>2 DEF Alone
  <2>2. CASE d # c
    <3>1. call'[d] \notin InWindow
      BY <1>3, <1>a, <1>b, <1>w, <2>2, OthersNotIn
    <3> QED
      BY <3>1 DEF Alone, InWindow
  <2> QED
    BY <2>1, <2>2
<1>4. WindowInv'
  BY <1>3, <1>a, <1>w DEF WindowInv
<1>5. SerialWindowExact'
  BY <1>a, <1>b DEF SerialWindowExact
<1> QED
  BY <1>1, <1>2, <1>4, <1>5

LEMMA SpendKeeps ==
  ASSUME DelegationIInv, NEW c \in Call, Spend(c)
  PROVE  DelegationIInv'
<1> USE DEF DelegationIInv
<1>a. /\ call[c] = "running" /\ counter < MaxTokens /\ counter' = counter + 1
      /\ spent' = [spent EXCEPT ![c] = spent[c] + 1]
      /\ UNCHANGED <<call, ledger, slot, base, filed, crossed, nodeVars>>
  BY DEF Spend
<1>b. spent'[c] = spent[c] + 1 /\ \A d \in Call : d # c => spent'[d] = spent[d]
  BY <1>a DEF DelegationTypeOK
<1>t. /\ counter \in Nat /\ \A d \in Call : spent[d] \in Nat /\ base[d] \in Nat
      /\ \A d \in Call : base[d] <= counter /\ spent[d] <= counter
  BY DEF DelegationTypeOK, WindowInv
<1>1. DelegationTypeOK'
  <2>1. counter + 1 \in 0 .. MaxTokens /\ spent[c] + 1 \in 0 .. MaxTokens
    BY <1>a, <1>t, DelegationAssumption
  <2> QED
    BY <1>a, <2>1 DEF DelegationTypeOK, nodeVars
<1>2. NotedInv'
  BY <1>a, <1>b DEF NotedInv, LedgerHas, FiledAt
<1>w. c \in Windows(call)
  BY <1>a DEF Windows, InWindow
<1>3. ASSUME NEW d \in Call \ crossed' PROVE Alone(d)'
  <2>1. CASE d = c
    <3>1. Alone(c)
      BY <1>3, <1>a, <2>1 DEF WindowInv
    <3>2. counter' = base'[c] + spent'[c]
      BY <1>a, <1>b, <1>t, <3>1 DEF Alone, InWindow
    <3> QED
      BY <1>a, <2>1, <3>1, <3>2 DEF Alone
  <2>2. CASE d # c
    <3>1. call'[d] \notin InWindow
      BY <1>3, <1>a, <1>w, <2>2, OthersNotIn
    <3> QED
      BY <3>1 DEF Alone, InWindow
  <2> QED
    BY <2>1, <2>2
<1>4. WindowInv'
  <2>1. \A d \in Call : base'[d] <= counter' /\ spent'[d] <= counter'
    BY <1>a, <1>b, <1>t
  <2> QED
    BY <1>3, <1>a, <2>1 DEF WindowInv
<1>5. SerialWindowExact'
  BY <1>a, <1>b DEF SerialWindowExact
<1> QED
  BY <1>1, <1>2, <1>4, <1>5

\* Closing a window changes the tokens of one record and no call.
LEMMA CloseWindowKeeps ==
  ASSUME DelegationIInv, NEW c \in Call, CloseWindow(c)
  PROVE  DelegationIInv'
<1> USE DEF DelegationIInv
<1> DEFINE k == counter - base[c]
<1>a. /\ call[c] = "running" /\ call' = [call EXCEPT ![c] = "returned"]
      /\ ledger' = IF slot[c] \in DOMAIN ledger THEN [ledger EXCEPT ![slot[c]].tokens = k] ELSE ledger
      /\ UNCHANGED <<slot, counter, base, spent, filed, crossed, nodeVars>>
  BY DEF CloseWindow
<1>b. call'[c] = "returned" /\ \A d \in Call : d # c => call'[d] = call[d]
  BY <1>a DEF DelegationTypeOK
<1>k. k \in 0 .. Unknown
  BY DelegationAssumption DEF DelegationTypeOK, WindowInv, Unknown
<1> HIDE DEF k
<1>r. \A i \in DOMAIN ledger : ledger[i] \in Record
  BY DEF DelegationTypeOK
<1>l. /\ ledger' \in Seq(Record) /\ DOMAIN ledger' = DOMAIN ledger
      /\ \A i \in DOMAIN ledger : ledger'[i].call = ledger[i].call
      /\ slot[c] \in DOMAIN ledger => ledger'[slot[c]].tokens = k
  <2>1. CASE slot[c] \notin DOMAIN ledger
    BY <1>a, <2>1 DEF DelegationTypeOK
  <2>2. CASE slot[c] \in DOMAIN ledger
    <3> DEFINE y == [ledger[slot[c]] EXCEPT !.tokens = k]
    <3>1. y \in Record /\ y.call = ledger[slot[c]].call /\ y.tokens = k
      BY <1>k, <1>r, <2>2 DEF Record
    <3>2. ledger' = [ledger EXCEPT ![slot[c]] = y]
      BY <1>a, <2>2
    <3> HIDE DEF y
    <3>3. ledger \in Seq(Record)
      BY DEF DelegationTypeOK
    <3> QED
      BY <2>2, <3>1, <3>2, <3>3
  <2> QED
    BY <2>1, <2>2
<1>w. Windows(call') = Windows(call) /\ c \in Windows(call)
  BY <1>a, <1>b DEF Windows, InWindow
<1>1. DelegationTypeOK'
  BY <1>a, <1>l DEF DelegationTypeOK, nodeVars, CallState
<1>2. NotedInv'
  <2>1. \A d \in Call : LedgerHas(d)' <=> LedgerHas(d)
    BY <1>l DEF LedgerHas
  <2>2. \A d \in Call, r \in Runner : FiledAt(r, d)' <=> FiledAt(r, d)
    BY <1>a DEF FiledAt
  <2>3. \A i, j \in DOMAIN ledger' : ledger'[i].call = ledger'[j].call => i = j
    BY <1>l DEF NotedInv
  <2>4. \A d \in Call : call'[d] \in {"unmade", "starting"} => slot'[d] = 0 /\ spent'[d] = 0
    BY <1>a, <1>b DEF NotedInv
  <2> QED
    BY <1>a, <2>1, <2>2, <2>3, <2>4 DEF NotedInv
<1>3. ASSUME NEW d \in Call \ crossed' PROVE Alone(d)'
  <2>1. CASE d = c
    <3>1. Alone(c)
      BY <1>3, <1>a, <2>1 DEF WindowInv
    <3>2. counter = base[c] + spent[c] /\ slot[c] \in DOMAIN ledger /\ ledger[slot[c]].call = c
      BY <1>a, <3>1 DEF Alone, InWindow
    <3>3. k = spent[c]
      BY <3>2 DEF k, DelegationTypeOK
    <3> QED
      BY <1>a, <1>b, <1>l, <2>1, <3>2, <3>3 DEF Alone
  <2>2. CASE d # c
    <3>1. call'[d] \notin InWindow
      BY <1>3, <1>a, <1>b, <1>w, <2>2, OthersNotIn
    <3> QED
      BY <3>1 DEF Alone, InWindow
  <2> QED
    BY <2>1, <2>2
<1>4. WindowInv'
  BY <1>3, <1>a, <1>w DEF WindowInv
<1>5. SerialWindowExact'
  BY <1>a, <1>b DEF SerialWindowExact
<1> QED
  BY <1>1, <1>2, <1>4, <1>5

\* A drain moves the whole ledger into one journal.
LEMMA FlushKeeps ==
  ASSUME DelegationIInv, NEW c \in Call, Flush(c)
  PROVE  DelegationIInv'
<1> USE DEF DelegationIInv
<1> DEFINE o == CallOf[c]
<1>a. /\ call[c] = "returned" /\ call' = [call EXCEPT ![c] = "written"]
      /\ filed' = [filed EXCEPT ![o] = filed[o] \cup Drained] /\ ledger' = << >>
      /\ UNCHANGED <<slot, counter, base, spent, crossed, nodeVars>>
  BY DEF Flush
<1>b. /\ call'[c] = "written" /\ \A d \in Call : d # c => call'[d] = call[d]
      /\ o \in Runner /\ filed'[o] = filed[o] \cup Drained /\ \A r \in Runner : r # o => filed'[r] = filed[r]
  BY <1>a, DelegationAssumption DEF DelegationTypeOK
<1>d. Drained \subseteq Record
  BY DEF Drained, DelegationTypeOK
<1>w. Windows(call') \subseteq Windows(call) /\ c \in Windows(call)
  BY <1>a, <1>b DEF Windows, InWindow
<1>1. DelegationTypeOK'
  <2>1. filed' \in [Runner -> SUBSET Record]
    BY <1>a, <1>b, <1>d DEF DelegationTypeOK
  <2> QED
    BY <1>a, <2>1 DEF DelegationTypeOK, nodeVars, CallState
<1>2. NotedInv'
  <2>1. \A d \in Call : ~LedgerHas(d)'
    BY <1>a DEF LedgerHas
  <2>2. \A d \in Call : LedgerHas(d) <=> \E x \in Drained : x.call = d
    BY DEF LedgerHas, Drained
  <2>3. \A d \in Call, r \in Runner : FiledAt(r, d)' <=> FiledAt(r, d) \/ (r = o /\ LedgerHas(d))
    <3>1. \A d \in Call : FiledAt(o, d)' <=> FiledAt(o, d) \/ LedgerHas(d)
      BY <1>b, <2>2 DEF FiledAt
    <3>2. \A d \in Call, r \in Runner : r # o => (FiledAt(r, d)' <=> FiledAt(r, d))
      BY <1>b DEF FiledAt
    <3> QED
      BY <3>1, <3>2
  <2>4. \A d \in Call : slot'[d] > 0 <=> LedgerHas(d)' \/ \E r \in Runner : FiledAt(r, d)'
    BY <1>a, <1>b, <2>1, <2>3 DEF NotedInv
  <2>5. \A d \in Call, q, r \in Runner : FiledAt(q, d)' /\ FiledAt(r, d)' => q = r
    BY <2>3 DEF NotedInv
  <2>6. \A d \in Call : call'[d] \in {"unmade", "starting"} => slot'[d] = 0 /\ spent'[d] = 0
    BY <1>a, <1>b DEF NotedInv
  <2>7. \A i, j \in DOMAIN ledger' : ledger'[i].call = ledger'[j].call => i = j
    BY <1>a
  <2> QED
    BY <2>1, <2>4, <2>5, <2>6, <2>7 DEF NotedInv
<1>3. ASSUME NEW d \in Call \ crossed' PROVE Alone(d)'
  <2>1. call'[d] \notin InWindow
    BY <1>3, <1>a, <1>b, <1>w, OthersNotIn DEF InWindow
  <2> QED
    BY <2>1 DEF Alone, InWindow
<1>4. WindowInv'
  <2>1. IsFiniteSet(Windows(call'))
    BY <1>w, FS_Subset DEF WindowInv
  <2> QED
    BY <1>3, <1>a, <1>w, <2>1 DEF WindowInv
<1>5. SerialWindowExact'
  <2> SUFFICES ASSUME NEW d \in Call \ crossed, call'[d] = "written", slot[d] > 0
               PROVE  [call |-> d, tokens |-> spent[d]] \in filed'[CallOf[d]]
    BY <1>a DEF SerialWindowExact
  <2>1. CASE d # c
    <3>1. [call |-> d, tokens |-> spent[d]] \in filed[CallOf[d]]
      BY <1>b, <2>1 DEF SerialWindowExact
    <3>2. CallOf[d] \in Runner
      BY DelegationAssumption
    <3> QED
      BY <1>b, <3>1, <3>2
  <2>2. CASE d = c
    <3>1. Alone(c)
      BY <2>2 DEF WindowInv
    <3>2. slot[c] \in DOMAIN ledger /\ ledger[slot[c]].call = c /\ ledger[slot[c]].tokens = spent[c]
      BY <1>a, <2>2, <3>1 DEF Alone
    <3>3. ledger[slot[c]] \in Record
      BY <3>2 DEF DelegationTypeOK
    <3>4. ledger[slot[c]] = [call |-> c, tokens |-> spent[c]]
      BY <3>2, <3>3 DEF Record
    <3>5. ledger[slot[c]] \in Drained
      BY <3>2 DEF Drained
    <3> QED
      BY <1>b, <2>2, <3>4, <3>5
  <2> QED
    BY <2>1, <2>2
<1> QED
  BY <1>1, <1>2, <1>4, <1>5

\* The nodes of a layer have no part in the ledger.
LEMMA NodesKeep ==
  ASSUME DelegationIInv, UNCHANGED callVars, permits' = permits, node' \in [Node -> NodeState]
  PROVE  DelegationIInv'
<1> USE DEF DelegationIInv
<1>1. DelegationTypeOK'
  BY DEF DelegationTypeOK, callVars
<1>2. NotedInv'
  BY DEF NotedInv, LedgerHas, FiledAt, callVars
<1>3. \A c \in Call : Alone(c) => Alone(c)'
  BY DEF Alone, callVars
<1>4. WindowInv'
  BY <1>3 DEF WindowInv, callVars
<1>5. SerialWindowExact'
  BY DEF SerialWindowExact, callVars
<1> QED
  BY <1>1, <1>2, <1>4, <1>5

LEMMA NextDelegation == DelegationIInv /\ [DelegationNext]_delegationVars => DelegationIInv'
<1> SUFFICES ASSUME DelegationIInv, [DelegationNext]_delegationVars PROVE DelegationIInv'
  OBVIOUS
<1>t. node \in [Node -> NodeState]
  BY DEF DelegationIInv, DelegationTypeOK
<1>1. ASSUME NEW c \in Call, CallStep(c) PROVE DelegationIInv'
  BY <1>1, DelegateKeeps, AnchorKeeps, SpendKeeps, CloseWindowKeeps, FlushKeeps DEF CallStep
<1>2. CASE StartLayer
  BY <1>2, NodesKeep DEF StartLayer, NodeState
<1>3. ASSUME NEW n \in Node, NodeStep(n) PROVE DelegationIInv'
  <2>1. UNCHANGED callVars /\ permits' = permits
    BY <1>3 DEF NodeStep, Admit, NodeReturns
  <2>2. node' \in [Node -> NodeState]
    BY <1>3, <1>t DEF NodeStep, Admit, NodeReturns, NodeState
  <2> QED
    BY <2>1, <2>2, NodesKeep
<1>4. CASE UNCHANGED delegationVars
  BY <1>4, <1>t, NodesKeep DEF delegationVars, nodeVars
<1> QED
  BY <1>1, <1>2, <1>3, <1>4 DEF DelegationNext

\* The inductive invariant of the ledger holds in every reachable state.
THEOREM DelegationIInvHolds == DelegationSpec => []DelegationIInv
  BY InitDelegation, NextDelegation, PTL DEF DelegationSpec

\* Each sub-agent is noted exactly once, in the ledger or in one journal, and one
\* whose window overlapped no other with exactly its own tokens in its parent's
\* journal: delegate_inner and flush_delegate_spawns of runners that share a ledger.
THEOREM DelegationIsNoted == DelegationSpec => []DelegationInv
<1>1. DelegationIInv => DelegationInv
  <2> SUFFICES ASSUME DelegationIInv PROVE AnchoredOnce
    BY DEF DelegationIInv, DelegationInv
  <2> SUFFICES ASSUME NEW c \in Call, slot[c] > 0
               PROVE  Cardinality({i \in DOMAIN ledger : ledger[i].call = c})
                      + Cardinality({r \in Runner : \E x \in filed[r] : x.call = c}) = 1
    BY DEF AnchoredOnce
  <2> DEFINE L == {i \in DOMAIN ledger : ledger[i].call = c}
             F == {r \in Runner : \E x \in filed[r] : x.call = c}
  <2>0. NotedInv /\ Cardinality({}) = 0
    BY FS_EmptySet DEF DelegationIInv
  <2>1. CASE LedgerHas(c)
    <3>1. PICK i \in DOMAIN ledger : ledger[i].call = c
      BY <2>1 DEF LedgerHas
    <3>2. L = {i}
      BY <2>0, <3>1 DEF NotedInv
    <3>3. F = {}
      BY <2>0, <2>1 DEF NotedInv, FiledAt
    <3>4. Cardinality({i}) = 1
      BY FS_Singleton
    <3> HIDE DEF L, F
    <3>5. Cardinality(L) + Cardinality(F) = 1
      BY <2>0, <3>2, <3>3, <3>4
    <3> QED
      BY <3>5 DEF L, F
  <2>2. CASE \E r \in Runner : FiledAt(r, c)
    <3>1. PICK r \in Runner : FiledAt(r, c)
      BY <2>2
    <3>2. F = {r}
      BY <2>0, <3>1 DEF NotedInv, FiledAt
    <3>3. L = {}
      BY <2>0, <2>2 DEF NotedInv, LedgerHas
    <3>4. Cardinality({r}) = 1
      BY FS_Singleton
    <3> HIDE DEF L, F
    <3>5. Cardinality(L) + Cardinality(F) = 1
      BY <2>0, <3>2, <3>3, <3>4
    <3> QED
      BY <3>5 DEF L, F
  <2> QED
    BY <2>0, <2>1, <2>2 DEF NotedInv
<1> QED
  BY <1>1, DelegationIInvHolds, PTL

-----------------------------------------------------------------------------
(* SessionChain *)

\* A parent is an opened session, and only a session whose own depth leaves
\* room for a child forks.
RoomInv ==
  /\ \A s \in Sess : parent[s] # NoSess => parent[s] \in opened
  /\ \A s \in Sess : spawn[s] # "none" => s \in live
  /\ \A s \in Sess : spawn[s] \in {"sizing", "forking"} => ~Climbs(s, MaxDepth)

\* A runner that has overrun the budget never gets to the fork again.
LateInv ==
  /\ \A s \in Sess \ opened : late[s] = 0
  /\ \A s \in Sess : late[s] > 0 => tokens[chain[s]] >= Budget /\ spawn[s] # "forking"

\* A spawn past the proposal was approved for the present runner.
ApprovedInv ==
  /\ first_spawn_done \subseteq granted
  /\ \A s \in Sess : spawn[s] \in {"approved", "walking", "sizing", "forking"} => s \in granted

ChainIInv == ChainInv /\ RoomInv /\ LateInv /\ ApprovedInv
\* The bounds of a chain are numbers.
LEMMA ChainConstants ==
  MaxDepth \in Nat /\ Budget \in Nat /\ WatchTurns \in Nat /\ Chains \in Nat /\ TokenBound \in Nat
  BY SessionChainAssumption

\* A session that is not yet open is the parent of none, so that giving it a
\* parent makes no open session deeper.
LEMMA ClimbsKept ==
  ASSUME ChainIInv, NEW c \in Sess \ opened, NEW s \in opened, parent' = [parent EXCEPT ![c] = s],
         NEW x \in opened, NEW k \in Nat, Climbs(x, k)'
  PROVE  Climbs(x, k)
<1>1. PICK up \in [0 .. k -> Sess] : up[0] = x /\ \A i \in 1 .. k : up[i] = parent'[up[i - 1]]
  BY DEF Climbs
<1>2. parent \in [Sess -> Sess \cup {NoSess}] /\ NoSess \notin Sess /\ opened \subseteq Sess
  BY SessionChainAssumption DEF ChainIInv, ChainInv, ChainTypeOK
<1>3. \A y \in Sess : parent'[y] \in Sess => parent'[y] \in opened
  BY <1>2 DEF ChainIInv, RoomInv
<1>4. \A i \in 0 .. k : up[i] # c
  <2>1. ASSUME NEW i \in 1 .. k PROVE up[i] # c
    <3>1. i - 1 \in 0 .. k /\ i \in 0 .. k
      OBVIOUS
    <3> QED
      BY <1>1, <1>3, <3>1
  <2> QED
    BY <1>1, <2>1
<1>5. \A i \in 1 .. k : up[i] = parent[up[i - 1]]
  <2>1. ASSUME NEW i \in 1 .. k PROVE up[i] = parent[up[i - 1]]
    <3>1. i - 1 \in 0 .. k
      OBVIOUS
    <3>2. up[i - 1] \in Sess /\ up[i - 1] # c
      BY <1>4, <3>1
    <3> QED
      BY <1>1, <1>2, <3>2
  <2> QED
    BY <2>1
<1> QED
  BY <1>1, <1>5 DEF Climbs

\* The child is one hop deeper than its parent.
LEMMA ClimbsChild ==
  ASSUME ChainIInv, NEW c \in Sess \ opened, NEW s \in opened, parent' = [parent EXCEPT ![c] = s],
         NEW k \in Nat, Climbs(c, k + 1)'
  PROVE  Climbs(s, k)
<1>1. PICK up \in [0 .. k + 1 -> Sess] : up[0] = c /\ \A i \in 1 .. k + 1 : up[i] = parent'[up[i - 1]]
  BY DEF Climbs
<1>2. parent \in [Sess -> Sess \cup {NoSess}] /\ NoSess \notin Sess /\ opened \subseteq Sess
  BY SessionChainAssumption DEF ChainIInv, ChainInv, ChainTypeOK
<1>3. \A y \in Sess : parent'[y] \in Sess => parent'[y] \in opened
  BY <1>2 DEF ChainIInv, RoomInv
<1>4. \A i \in 1 .. k + 1 : up[i] # c /\ up[i] \in Sess
  <2>1. ASSUME NEW i \in 1 .. k + 1 PROVE up[i] # c /\ up[i] \in Sess
    <3>1. i - 1 \in 0 .. k + 1 /\ i \in 0 .. k + 1
      OBVIOUS
    <3> QED
      BY <1>1, <1>3, <3>1
  <2> QED
    BY <2>1
<1> DEFINE dn == [i \in 0 .. k |-> up[i + 1]]
<1>5. dn \in [0 .. k -> Sess] /\ dn[0] = s
  <2>1. up[1] = s
    BY <1>1, <1>2
  <2> QED
    BY <1>4, <2>1
<1>6. \A i \in 1 .. k : dn[i] = parent[dn[i - 1]]
  <2>1. ASSUME NEW i \in 1 .. k PROVE dn[i] = parent[dn[i - 1]]
    <3>1. i \in 1 .. k + 1 /\ i + 1 \in 1 .. k + 1 /\ i - 1 \in 0 .. k /\ (i + 1) - 1 = i /\ (i - 1) + 1 = i
      OBVIOUS
    <3>2. dn[i] = up[i + 1] /\ dn[i - 1] = up[i]
      BY <3>1
    <3>3. up[i + 1] = parent'[up[i]] /\ up[i] \in Sess /\ up[i] # c
      BY <1>1, <1>4, <3>1
    <3> HIDE DEF dn
    <3> QED
      BY <1>2, <3>2, <3>3
  <2> QED
    BY <2>1
<1> HIDE DEF dn
<1> QED
  BY <1>5, <1>6 DEF Climbs

\* A step of session_spawn before the fork.
LEMMA SpawnMove ==
  ASSUME ChainIInv, NEW s \in Sess, spawn[s] # "none" \/ s \in live, NEW state \in SpawnState, To(s, state),
         granted' = granted \/ granted' = granted \cup {s},
         state \in {"approved", "walking", "sizing", "forking"} => s \in granted',
         state \in {"sizing", "forking"} => ~Climbs(s, MaxDepth),
         state = "forking" => late[s] = 0,
         UNCHANGED <<parent, opened, turnVars, first_spawn_done, tokens, halted, repeats, late>>
  PROVE  ChainIInv'
<1> USE DEF ChainIInv, ChainInv
<1>1. spawn'[s] = state /\ (\A x \in Sess : x # s => spawn'[x] = spawn[x]) /\ s \in live /\ s \in opened
      /\ live' = live /\ chain' = chain
  BY DEF To, ChainTypeOK, RoomInv, turnVars
<1>2. \A x, k : Climbs(x, k)' <=> Climbs(x, k)
  BY DEF Climbs
<1>3. ChainTypeOK'
  BY <1>1 DEF ChainTypeOK, turnVars, To
<1>4. DepthHolds' /\ OneLateFork'
  BY <1>2 DEF DepthHolds, OneLateFork
<1>5. RoomInv'
  BY <1>1, <1>2 DEF RoomInv
<1>6. LateInv'
  BY <1>1 DEF LateInv, ChainTypeOK
<1>7. ApprovedInv'
  BY <1>1 DEF ApprovedInv
<1> QED
  BY <1>3, <1>4, <1>5, <1>6, <1>7

LEMMA SpawnStepsKeep ==
  ASSUME ChainIInv, NEW s \in Sess,
         \/ Propose(s) \/ HumanDecides(s) \/ CheckHalted(s) \/ CheckDepth(s)
         \/ CheckBudget(s) \/ ForkFails(s)
  PROVE  ChainIInv'
<1>t. {"none", "proposed", "approved", "walking", "sizing", "forking"} \subseteq SpawnState
  BY DEF SpawnState
<1>r. spawn[s] \in {"approved", "walking", "sizing", "forking"} => s \in granted
  BY DEF ChainIInv, ApprovedInv
<1>d. spawn[s] \in {"sizing", "forking"} => ~Climbs(s, MaxDepth)
  BY DEF ChainIInv, RoomInv
<1>1. CASE Propose(s)
  <2>1. first_spawn_done \subseteq granted
    BY DEF ChainIInv, ApprovedInv
  <2> QED
    BY <1>1, <1>t, <2>1, SpawnMove DEF Propose
<1>2. CASE HumanDecides(s)
  BY <1>2, <1>t, SpawnMove DEF HumanDecides
<1>3. CASE CheckHalted(s)
  BY <1>3, <1>r, <1>t, SpawnMove DEF CheckHalted
<1>4. CASE CheckDepth(s)
  <2>1. PICK state \in {"none", "sizing"} : To(s, state) /\ (state = "sizing" => ~Climbs(s, MaxDepth))
    BY <1>4 DEF CheckDepth
  <2> QED
    BY <1>4, <1>r, <1>t, <2>1, SpawnMove DEF CheckDepth
<1>5. CASE CheckBudget(s)
  <2>1. tokens[chain[s]] \in Nat /\ Budget \in Nat /\ late[s] \in Nat
    BY SessionChainAssumption DEF ChainIInv, ChainInv, ChainTypeOK
  <2>2. ~(tokens[chain[s]] >= Budget) => late[s] = 0
    BY <2>1 DEF ChainIInv, LateInv
  <2> QED
    BY <1>5, <1>d, <1>r, <1>t, <2>2, SpawnMove DEF CheckBudget
<1>6. CASE ForkFails(s)
  BY <1>6, <1>t, SpawnMove DEF ForkFails
<1> QED
  BY <1>1, <1>2, <1>3, <1>4, <1>5, <1>6

\* The fork itself: the guards were read before, and still hold for what they are for.
LEMMA ForkKeeps ==
  ASSUME ChainIInv, NEW s \in Sess, Fork(s)
  PROVE  ChainIInv'
<1> USE DEF ChainIInv, ChainInv
<1>c. PICK c \in Sess \ opened :
        /\ parent' = [parent EXCEPT ![c] = s] /\ opened' = opened \cup {c} /\ live' = live \cup {c}
        /\ watched' = [watched EXCEPT ![c] = TRUE] /\ chain' = [chain EXCEPT ![c] = chain[s]]
  BY DEF Fork
<1>a. /\ spawn[s] = "forking" /\ first_spawn_done' = first_spawn_done \cup {s} /\ repeats' = 1
      /\ (halted' = halted \/ halted' = halted \cup {chain[s]})
      /\ late' = [late EXCEPT ![s] = late[s] + IF tokens[chain[s]] >= Budget THEN 1 ELSE 0]
      /\ To(s, "none") /\ UNCHANGED <<granted, started, turns, errored, tokens>>
  BY DEF Fork
<1>b. /\ s \in live /\ s \in opened /\ s # c /\ s \in granted /\ ~Climbs(s, MaxDepth)
      /\ opened \subseteq Sess /\ live \subseteq opened
  BY <1>a DEF RoomInv, ApprovedInv, ChainTypeOK
<1>d. /\ spawn'[s] = "none" /\ \A x \in Sess : x # s => spawn'[x] = spawn[x]
      /\ parent'[c] = s /\ \A x \in Sess : x # c => parent'[x] = parent[x]
      /\ chain'[c] = chain[s] /\ \A x \in Sess : x # c => chain'[x] = chain[x]
      /\ late'[s] \in {0, 1} /\ (late'[s] = 1 => tokens[chain[s]] >= Budget)
      /\ \A x \in Sess : x # s => late'[x] = late[x]
  <2>1. late[s] = 0
    <3>1. late[s] \in Nat
      BY DEF ChainTypeOK
    <3> QED
      BY <1>a, <3>1 DEF LateInv
  <2>2. late'[s] = IF tokens[chain[s]] >= Budget THEN 1 ELSE 0
    BY <1>a, <2>1 DEF ChainTypeOK
  <2> QED
    BY <1>a, <1>c, <2>2 DEF ChainTypeOK, To
<1>1. ChainTypeOK'
  <2>1. late' \in [Sess -> Nat]
    BY <1>a DEF ChainTypeOK
  <2>2. spawn' \in [Sess -> SpawnState]
    BY <1>a DEF ChainTypeOK, To, SpawnState
  <2>3. 1 \in 0 .. RepeatHalt
    BY SessionChainAssumption
  <2> QED
    BY <1>a, <1>b, <1>c, <2>1, <2>2, <2>3 DEF ChainTypeOK
<1>2. DepthHolds'
  <2>1. MaxDepth \in Nat /\ MaxDepth + 1 \in Nat
    BY SessionChainAssumption
  <2>2. ~Climbs(c, MaxDepth + 1)'
    BY <1>b, <1>c, <2>1, ClimbsChild
  <2>3. \A x \in opened : ~Climbs(x, MaxDepth + 1)'
    BY <1>b, <1>c, <2>1, ClimbsKept DEF DepthHolds
  <2> QED
    BY <1>c, <2>2, <2>3 DEF DepthHolds
<1>3. OneLateFork'
  BY <1>d DEF OneLateFork
<1>4. RoomInv'
  <2>1. \A x \in Sess : parent'[x] # NoSess => parent'[x] \in opened'
    BY <1>b, <1>c, <1>d DEF RoomInv
  <2>2. \A x \in Sess : spawn'[x] # "none" => x \in live'
    BY <1>c, <1>d DEF RoomInv
  <2>3. ASSUME NEW x \in Sess, spawn'[x] \in {"sizing", "forking"} PROVE ~Climbs(x, MaxDepth)'
    <3>1. x \in opened /\ ~Climbs(x, MaxDepth)
      BY <1>b, <1>d, <2>3 DEF RoomInv
    <3>2. MaxDepth \in Nat
      BY SessionChainAssumption
    <3> QED
      BY <1>b, <1>c, <3>1, <3>2, ClimbsKept
  <2> QED
    BY <2>1, <2>2, <2>3 DEF RoomInv
<1>5. LateInv'
  <2>1. \A x \in Sess \ opened' : late'[x] = 0
    BY <1>b, <1>c, <1>d DEF LateInv
  <2>2. ASSUME NEW x \in Sess, late'[x] > 0 PROVE tokens'[chain'[x]] >= Budget /\ spawn'[x] # "forking"
    <3>1. CASE x = s
      BY <1>a, <1>b, <1>d, <2>2, <3>1
    <3>2. CASE x # s
      <4>1. late[x] > 0 /\ x # c
        BY <1>d, <2>2, <3>2 DEF LateInv
      <4> QED
        BY <1>a, <1>d, <3>2, <4>1 DEF LateInv
    <3> QED
      BY <3>1, <3>2
  <2> QED
    BY <2>1, <2>2 DEF LateInv
<1>6. ApprovedInv'
  BY <1>a, <1>b, <1>d DEF ApprovedInv
<1> QED
  BY <1>1, <1>2, <1>3, <1>4, <1>5, <1>6

LEMMA SpendTokensKeeps ==
  ASSUME ChainIInv, NEW s \in Sess, SpendTokens(s)
  PROVE  ChainIInv'
<1> USE DEF ChainIInv, ChainInv
<1> DEFINE k == chain[s]
<1>a. /\ tokens[k] < TokenBound /\ tokens' = [tokens EXCEPT ![k] = tokens[k] + 1]
      /\ UNCHANGED <<parent, opened, spawnVars, turnVars, halted, repeats, late>>
  BY DEF SpendTokens
<1>b. k \in 1 .. Chains /\ tokens[k] + 1 \in 0 .. TokenBound
  BY <1>a, SessionChainAssumption DEF ChainTypeOK
<1>1. ChainTypeOK'
  BY <1>a, <1>b DEF ChainTypeOK, turnVars, spawnVars
<1>2. \A x, d : Climbs(x, d)' <=> Climbs(x, d)
  BY <1>a DEF Climbs
<1>3. DepthHolds' /\ OneLateFork' /\ RoomInv' /\ ApprovedInv'
  BY <1>2, <1>a DEF DepthHolds, OneLateFork, RoomInv, ApprovedInv, turnVars, spawnVars
<1>4. LateInv'
  <2>1. \A j \in 1 .. Chains : tokens[j] >= Budget => tokens'[j] >= Budget
    <3>1. \A j \in 1 .. Chains : tokens[j] \in Nat /\ (tokens'[j] = tokens[j] \/ tokens'[j] = tokens[j] + 1)
      BY <1>a, <1>b, ChainConstants DEF ChainTypeOK
    <3> QED
      BY <3>1, ChainConstants
  <2>2. \A x \in Sess : chain[x] \in 1 .. Chains
    BY DEF ChainTypeOK
  <2> QED
    BY <1>a, <2>1, <2>2 DEF LateInv, turnVars, spawnVars
<1> QED
  BY <1>1, <1>3, <1>4

LEMMA TurnEndsKeeps ==
  ASSUME ChainIInv, NEW s \in Sess, TurnEnds(s)
  PROVE  ChainIInv'
<1> USE DEF ChainIInv, ChainInv
<1>a. /\ spawn[s] = "none" /\ turns[s] < WatchTurns /\ live' = live \ {s}
      /\ turns' = [turns EXCEPT ![s] = turns[s] + 1]
      /\ (errored' = errored \/ (errored[s] = turns[s] /\ errored' = [errored EXCEPT ![s] = errored[s] + 1]))
      /\ (halted' = halted \/ halted' = halted \cup {chain[s]})
      /\ watched' = [watched EXCEPT ![s] = FALSE]
      /\ UNCHANGED <<parent, opened, spawnVars, chain, started, tokens, repeats, late>>
  BY DEF TurnEnds
<1>t. turns[s] \in 0 .. WatchTurns /\ chain[s] \in 1 .. Chains
  BY DEF ChainTypeOK
<1>b. turns[s] + 1 \in 0 .. WatchTurns
  BY <1>a, <1>t, ChainConstants
<1>1. ChainTypeOK'
  <2>1. errored' \in [Sess -> 0 .. WatchTurns] /\ turns' \in [Sess -> 0 .. WatchTurns]
    <3>1. errored \in [Sess -> 0 .. WatchTurns] /\ turns \in [Sess -> 0 .. WatchTurns]
      BY DEF ChainTypeOK
    <3>2. errored[s] = turns[s] => errored[s] + 1 \in 0 .. WatchTurns
      BY <1>b
    <3> QED
      BY <1>a, <1>b, <3>1, <3>2
  <2>2. live' \subseteq opened /\ halted' \subseteq 1 .. Chains
    BY <1>a, <1>t DEF ChainTypeOK
  <2>3. watched' \in [Sess -> BOOLEAN]
    BY <1>a DEF ChainTypeOK
  <2> QED
    BY <1>a, <2>1, <2>2, <2>3 DEF ChainTypeOK, spawnVars
<1>2. \A x, d : Climbs(x, d)' <=> Climbs(x, d)
  BY <1>a DEF Climbs
<1>3. DepthHolds' /\ OneLateFork' /\ RoomInv' /\ ApprovedInv' /\ LateInv'
  BY <1>2, <1>a DEF DepthHolds, OneLateFork, RoomInv, ApprovedInv, LateInv, spawnVars
<1> QED
  BY <1>1, <1>3

\* A new runner starts over: a chain of its own, no approval, no late fork.
LEMMA ContinueKeeps ==
  ASSUME ChainIInv, NEW s \in Sess, Continue(s)
  PROVE  ChainIInv'
<1> USE DEF ChainIInv, ChainInv
<1>a. /\ s \in opened /\ s \notin live /\ started < Chains /\ live' = live \cup {s} /\ started' = started + 1
      /\ chain' = [chain EXCEPT ![s] = started + 1] /\ first_spawn_done' = first_spawn_done \ {s}
      /\ granted' = granted \ {s} /\ late' = [late EXCEPT ![s] = 0]
      /\ UNCHANGED <<parent, opened, spawn, watched, turns, errored, tokens, halted, repeats>>
  BY DEF Continue
<1>t. started \in 1 .. Chains /\ spawn[s] = "none"
  BY <1>a DEF ChainTypeOK, RoomInv
<1>b. started + 1 \in 1 .. Chains /\ spawn[s] = "none"
  BY <1>a, <1>t, ChainConstants
<1>c. /\ late'[s] = 0 /\ \A x \in Sess : x # s => late'[x] = late[x] /\ chain'[x] = chain[x]
  BY <1>a DEF ChainTypeOK
<1>1. ChainTypeOK'
  BY <1>a, <1>b DEF ChainTypeOK
<1>2. \A x, d : Climbs(x, d)' <=> Climbs(x, d)
  BY <1>a DEF Climbs
<1>3. DepthHolds' /\ OneLateFork' /\ RoomInv'
  BY <1>2, <1>a, <1>c DEF DepthHolds, OneLateFork, RoomInv
<1>4. ApprovedInv'
  BY <1>a, <1>b DEF ApprovedInv
<1>5. LateInv'
  BY <1>a, <1>c DEF LateInv
<1> QED
  BY <1>1, <1>3, <1>4, <1>5

LEMMA InitChain == ChainInit => ChainIInv
<1> SUFFICES ASSUME ChainInit PROVE ChainIInv
  OBVIOUS
<1>1. ChainTypeOK
  <2>1. 1 \in 1 .. Chains /\ 0 \in 0 .. TokenBound /\ 0 \in 0 .. RepeatHalt /\ 0 \in 0 .. WatchTurns
    BY SessionChainAssumption
  <2> QED
    BY <2>1, SessionChainAssumption DEF ChainInit, ChainTypeOK, SpawnState
<1>2. DepthHolds
  <2>1. \A x \in Sess, k \in Nat \ {0} : ~Climbs(x, k)
    <3> SUFFICES ASSUME NEW x \in Sess, NEW k \in Nat \ {0}, NEW up \in [0 .. k -> Sess], up[0] = x,
                        \A i \in 1 .. k : up[i] = parent[up[i - 1]]
                 PROVE  FALSE
      BY DEF Climbs
    <3>1. 1 \in 1 .. k /\ 1 \in 0 .. k /\ 1 - 1 = 0
      OBVIOUS
    <3>2. up[1] = parent[x] /\ up[1] \in Sess
      BY <3>1
    <3> QED
      BY <3>2, SessionChainAssumption DEF ChainInit
  <2>2. MaxDepth + 1 \in Nat \ {0} /\ opened \subseteq Sess
    BY SessionChainAssumption DEF ChainInit
  <2> QED
    BY <2>1, <2>2 DEF DepthHolds
<1>3. OneLateFork /\ RoomInv /\ LateInv /\ ApprovedInv
  BY DEF ChainInit, OneLateFork, RoomInv, LateInv, ApprovedInv
<1> QED
  BY <1>1, <1>2, <1>3 DEF ChainIInv, ChainInv

LEMMA NextChain == ChainIInv /\ [ChainNext]_chainVars => ChainIInv'
<1> SUFFICES ASSUME ChainIInv, [ChainNext]_chainVars PROVE ChainIInv'
  OBVIOUS
<1>1. ASSUME NEW s \in Sess, SpawnStep(s) PROVE ChainIInv'
  BY <1>1, SpawnStepsKeep, ForkKeeps DEF SpawnStep
<1>2. ASSUME NEW s \in Sess, SpendTokens(s) \/ TurnEnds(s) \/ Continue(s) PROVE ChainIInv'
  BY <1>2, SpendTokensKeeps, TurnEndsKeeps, ContinueKeeps
<1>3. CASE UNCHANGED chainVars
  <2>1. \A x, d : Climbs(x, d)' <=> Climbs(x, d)
    BY <1>3 DEF Climbs, chainVars
  <2> QED
    BY <1>3, <2>1 DEF ChainIInv, ChainInv, ChainTypeOK, DepthHolds, OneLateFork, RoomInv, LateInv, ApprovedInv,
       chainVars, turnVars, spawnVars
<1> QED
  BY <1>1, <1>2, <1>3 DEF ChainNext

\* The inductive invariant of a chain holds in every reachable state.
THEOREM ChainIInvHolds == ChainSpec => []ChainIInv
  BY InitChain, NextChain, PTL DEF ChainSpec

\* No session is deeper than MAX_CHAIN_DEPTH, and each runner overruns the token
\* budget by one child at the most, although both guards of session_spawn are
\* read before the await on the fork.
THEOREM ChainIsCapped == ChainSpec => []ChainInv
<1>1. ChainIInv => ChainInv
  BY DEF ChainIInv
<1> QED
  BY <1>1, ChainIInvHolds, PTL

\* No session forks unless a human has approved a spawn of its present runner.
THEOREM ForksAreApproved == ChainSpec => FirstSpawnApproved
<1>1. ASSUME ChainIInv, [ChainNext]_chainVars
      PROVE  \A s \in Sess : s \in opened' \ opened => parent'[s] \in granted
  <2>1. ASSUME NEW s \in Sess, Fork(s)
        PROVE  \A c \in Sess : c \in opened' \ opened => parent'[c] \in granted
    <3>1. PICK c \in Sess \ opened : parent' = [parent EXCEPT ![c] = s] /\ opened' = opened \cup {c}
      BY <2>1 DEF Fork
    <3>2. parent'[c] = s /\ s \in granted
      BY <1>1, <2>1, <3>1 DEF Fork, ChainIInv, ChainInv, ChainTypeOK, ApprovedInv
    <3> QED
      BY <3>1, <3>2
  <2>2. ASSUME NEW s \in Sess, SpawnStep(s), ~Fork(s) PROVE opened' = opened
    BY <2>2 DEF SpawnStep, Propose, HumanDecides, CheckHalted, CheckDepth, CheckBudget, ForkFails
  <2>3. ASSUME NEW s \in Sess, SpendTokens(s) \/ TurnEnds(s) \/ Continue(s) PROVE opened' = opened
    BY <2>3 DEF SpendTokens, TurnEnds, Continue
  <2>4. CASE UNCHANGED chainVars
    BY <2>4 DEF chainVars
  <2> QED
    BY <1>1, <2>1, <2>2, <2>3, <2>4 DEF ChainNext
<1> QED
  BY <1>1, ChainIInvHolds, PTL DEF ChainSpec, FirstSpawnApproved
=============================================================================
