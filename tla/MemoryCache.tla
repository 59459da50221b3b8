----------------------------- MODULE MemoryCache -----------------------------
(***************************************************************************)
(* The agents' memory (agent/memory.rs).  Facts live in the engine: every  *)
(* write, deletion (a null fact, a tombstone) and rewrite appends a        *)
(* version.  Each MemoryManager mirrors the records it has seen in a cache *)
(* that is corrected by projection reads (get_scoped) and by the check of  *)
(* the whole cache against the server (verify_cache_against_server).       *)
(* Recalled events are counted in usage_pending, and flush_usage writes    *)
(* the counts back; events used often enough are proposed for promotion    *)
(* (apply_lifecycle_transitions), with a marker fact against proposing     *)
(* them again.                                                             *)
(*                                                                         *)
(* Each manager has a session of its own; the shared table belongs to all. *)
(* A manager is used through &mut self: its operations do not overlap each *)
(* other, those of different managers meet in the shared table.  A fact's  *)
(* number is its place in the table and stands for fact_id and version.    *)
(* Values that are not records, the TTL of records, confidence, and the    *)
(* archiving and decay of records by age are left out.                     *)
(***************************************************************************)
EXTENDS Integers, Sequences, FiniteSets, SequencesExt

CONSTANTS
  Manager,
  SessionKey,   \* keys of session scope
  Event,        \* keys of the events domain, in shared scope
  Content_,     \* contents of records
  Null,         \* the value of a tombstone
  Nothing,      \* no record
  PrefixOf,     \* {<<k, l>>}: the path of l begins with the path of k
  Nested,       \* events whose key has a part before "events."
  Gate,         \* promote_gate is enabled, with a data set
  PromoteUses,  \* promote_min_uses
  MaxFacts,     \* bound: facts in a table
  MaxHits,      \* bound: increments of a fact that wait
  MaxUsage      \* bound: where usage_count saturates

Marker == {<<"promoted", e>> : e \in Event}
SharedKey == Event \cup Marker
Record == [value: Content_, usage: 0..MaxUsage, life: {"Captured", "Reinforced", "Promoted", "Settled"}]
Number == 1..MaxFacts

ASSUME MemoryAssumption ==
  /\ MaxFacts \in Nat /\ MaxHits \in Nat /\ MaxUsage \in Nat
  /\ IsFiniteSet(Event)
  /\ Null \notin Record /\ Nothing \notin Record \cup {Null}

VARIABLES
  session,  \* [Manager -> the facts of its session, the oldest first]
  shared,   \* the shared facts, the oldest first
  up,       \* the engine can be reached
  local,    \* [Manager -> [key -> record or Nothing]]: its cache
  counted,  \* [Manager -> [Number -> increments]]: usage_pending, by fact
  staged,   \* [Manager -> [Event -> record or Nothing]]: hydration_pending, the first record of each key
  lex,      \* [Manager -> the shared facts in its LexStore]; 0: none
  op        \* not in the code: the last operation, if it set, read or verified records or promoted events

tableVars == <<session, shared>>
countVars == <<counted, staged, lex>>
memoryVars == <<session, shared, up, local, counted, staged, lex, op>>

Key == SessionKey \cup SharedKey
SessionFact == [key: SessionKey, value: Record \cup {Null}]
SharedFact == [key: SharedKey, value: Record \cup {Null}]

\* Every variable of the memory has its type.
MemoryTypeOK ==
  /\ \A m \in Manager : \A i \in DOMAIN session[m] : i <= MaxFacts /\ session[m][i] \in SessionFact
  /\ \A i \in DOMAIN shared : i <= MaxFacts /\ shared[i] \in SharedFact
  /\ up \in BOOLEAN
  /\ local \in [Manager -> [Key -> Record \cup {Nothing}]]
  /\ counted \in [Manager -> [Number -> 0..MaxHits]]
  /\ staged \in [Manager -> [Event -> Record \cup {Nothing}]]
  /\ lex \in [Manager -> 0..MaxFacts]

\* The sum of the f[i], for i in S.
SumOver(f, S) == Cardinality(UNION {{i} \X (1..f[i]) : i \in S})

NoOp == [name |-> "none"]

MemoryInit ==
  /\ session = [m \in Manager |-> <<>>]
  /\ shared = <<>>
  /\ up = TRUE
  /\ local = [m \in Manager |-> [k \in Key |-> Nothing]]
  /\ counted = [m \in Manager |-> [n \in Number |-> 0]]
  /\ staged = [m \in Manager |-> [e \in Event |-> Nothing]]
  /\ lex = [m \in Manager |-> 0]
  /\ op = NoOp

(***************************************************************************)
(* Reading a table.                                                        *)
(***************************************************************************)
\* The value of the latest fact of a key: a record, a tombstone, or Nothing.
Latest_(table, k) ==
  LET i == SelectLastInSubSeq(table, 1, Len(table), LAMBDA f : f.key = k)
  IN IF i = 0 THEN Nothing ELSE table[i].value

\* latest_values_by_path: the latest version of each key decides; a tombstone suppresses the key.
AliveVersions(table, k) == LET i == SelectLastInSubSeq(table, 1, Len(table), LAMBDA f : f.key = k /\ f.value # Null)
                           IN IF i = 0 THEN Nothing ELSE table[i].value
Alive(table, k) == IF Latest_(table, k) = Null THEN Nothing ELSE Latest_(table, k)

\* The server's query by prefix also returns the keys that k is a prefix of.
Matches_(k, l) == l = k \/ <<k, l>> \in PrefixOf

\* project_scoped_inner in session scope: the last fact of the query by prefix.
ProjectSession(m, k) ==
  LET i == SelectLastInSubSeq(session[m], 1, Len(session[m]), LAMBDA f : Matches_(k, f.key))
  IN IF i = 0 \/ session[m][i].value = Null THEN Nothing ELSE session[m][i].value

\* project_shared_inner: the facts of the query are filtered by their exact path.
ProjectShared(k) == Alive(shared, k)

(***************************************************************************)
(* Operations on one record.                                               *)
(***************************************************************************)
Room(m, k) == IF k \in SessionKey THEN Len(session[m]) < MaxFacts ELSE Len(shared) < MaxFacts

\* update_payload: the engine appends a fact.
Append_(m, k, v) ==
  IF k \in SessionKey
  THEN session' = [session EXCEPT ![m] = Append(@, [key |-> k, value |-> v])] /\ UNCHANGED shared
  ELSE shared' = Append(shared, [key |-> k, value |-> v]) /\ UNCHANGED session

\* set_scoped: the cache first; an unreachable engine leaves the record in the cache only (CacheOnly).
\* Markers are written by the promotion alone.
Set(m, k, c) ==
  LET r == [value |-> c, usage |-> 0, life |-> IF k \in Event THEN "Captured" ELSE "Settled"]
  IN /\ k \notin Marker
     /\ Room(m, k)
     /\ local' = [local EXCEPT ![m][k] = r]
     /\ IF up THEN Append_(m, k, r) ELSE UNCHANGED tableVars
     /\ op' = [name |-> "set"]
     /\ UNCHANGED <<up, countVars>>

\* get_scoped: the engine's record replaces the cached one; no record there clears it; the cache
\* answers for an unreachable engine.
Get(m, k) ==
  LET found == CASE ~up -> local[m][k]
                 [] up /\ k \in SessionKey -> ProjectSession(m, k)
                 [] up /\ k \in SharedKey -> ProjectShared(k)
  IN /\ local' = [local EXCEPT ![m][k] = found]
     /\ op' = [name |-> "get", by |-> m, key |-> k, found |-> found, online |-> up]
     /\ UNCHANGED <<tableVars, up, countVars>>

\* remove_scoped: a failing tombstone is reported, the record leaves the cache all the same.
Forget(m, k) ==
  /\ Room(m, k)
  /\ local' = [local EXCEPT ![m][k] = Nothing]
  /\ IF up THEN Append_(m, k, Null) ELSE UNCHANGED tableVars
  /\ op' = NoOp
  /\ UNCHANGED <<up, countVars>>

\* memory_tombstone_exec: straight to the engine; the path must exist there, the cache is not touched.
Tombstone(e) ==
  /\ up /\ Len(shared) < MaxFacts
  /\ \E i \in DOMAIN shared : shared[i].key = e
  /\ shared' = Append(shared, [key |-> e, value |-> Null])
  /\ op' = NoOp
  /\ UNCHANGED <<session, up, local, countVars>>

(***************************************************************************)
(* The cache against the server.                                           *)
(***************************************************************************)
\* sync_from_evorule (session scope, at the start of a session): records enter, tombstones remove.
Sync(m) ==
  /\ up
  /\ local' = [local EXCEPT ![m] = [k \in Key |->
                 CASE k \notin SessionKey \/ Latest_(session[m], k) = Nothing -> @[k]
                   [] OTHER -> Alive(session[m], k)]]
  /\ op' = NoOp
  /\ UNCHANGED <<tableVars, up, countVars>>

AuthoritativeAny(m, k) == IF k \in SessionKey THEN AliveVersions(session[m], k) ELSE AliveVersions(shared, k)
Authoritative(m, k) == IF k \in SessionKey THEN Alive(session[m], k) ELSE Alive(shared, k)

\* verify_cache_against_server: what the server does not have is removed, what the cache does not
\* have is filled in; different values stay as they are.
Verify(m) ==
  /\ up
  /\ local' = [local EXCEPT ![m] = [k \in Key |->
                 IF Authoritative(m, k) = Nothing \/ @[k] = Nothing THEN Authoritative(m, k) ELSE @[k]]]
  /\ op' = [name |-> "verify", by |-> m]
  /\ UNCHANGED <<tableVars, up, countVars>>

(***************************************************************************)
(* Recalls and their counts.                                               *)
(***************************************************************************)
\* The events part of recall_context: every version that is a record is counted and staged, of the
\* facts of the engine, or of the LexStore's while they are young enough (recall_facts_cached).
Recall(m) ==
  \E n \in (IF up THEN {Len(shared)} ELSE {}) \cup {lex[m]} :
    LET got(e) == {i \in 1..n : shared[i].key = e /\ shared[i].value # Null}
    IN /\ \E e \in Event : got(e) # {}
       /\ \A e \in Event : \A i \in got(e) : counted[m][i] < MaxHits
       /\ staged' = [staged EXCEPT ![m] = [e \in Event |->
                       IF @[e] = Nothing /\ got(e) # {} THEN shared[Min(got(e))].value ELSE @[e]]]
       /\ counted' = [counted EXCEPT ![m] = [i \in Number |->
                       IF \E e \in Event : i \in got(e) THEN @[i] + 1 ELSE @[i]]]
       /\ lex' = [lex EXCEPT ![m] = n]
       /\ op' = NoOp
       /\ UNCHANGED <<tableVars, up, local>>

\* What is staged enters the cache where the cache has no record (entry().or_insert).
Absorbed(m) == [k \in Key |-> IF k \in Event /\ local[m][k] = Nothing THEN staged[m][k] ELSE local[m][k]]

SaturatingNot(n) == n
Saturating(n) == IF n > MaxUsage THEN MaxUsage ELSE n

\* The increments of the facts of e among the first n of an order: usage_count grows fact by fact.
Increments(m, order, e, n) == SumOver(counted[m], {order[j] : j \in {j \in 1..n : shared[order[j]].key = e}})

\* What a failing batch leaves in usage_pending: its increments are put back, with those that have
\* come meanwhile; the other ones are gone.
PutBackNot(m, batch) == [i \in Number |-> 0]
PutBack(m, batch) == [i \in Number |-> IF i \in batch THEN counted[m][i] ELSE 0]

\* flush_usage, with a LexStore: each waiting increment, in the order of a HashMap, is added to the
\* cached record, and one fact per increment goes to the engine in one batch.  Where the batch fails
\* the increments are put back although the cache has them already.  An increment without a cached
\* record is given up.
FlushUsage(m) ==
  LET mine == Absorbed(m)
      batch == {i \in Number : counted[m][i] > 0 /\ mine[shared[i].key] # Nothing}
  IN /\ staged' = [staged EXCEPT ![m] = [e \in Event |-> Nothing]]
     /\ Len(shared) + Cardinality(batch) <= MaxFacts
     /\ \E order \in SetToSeqs(batch) :
          LET used(e, n) == [mine[e] EXCEPT !.usage = Saturating(@ + Increments(m, order, e, n)),
                                            !.life = "Reinforced"]
          IN /\ local' = [local EXCEPT ![m] = [k \in Key |->
                            IF \E i \in batch : shared[i].key = k THEN used(k, Len(order)) ELSE mine[k]]]
             /\ shared' = IF up THEN shared \o [n \in DOMAIN order |->
                                        [key |-> shared[order[n]].key, value |-> used(shared[order[n]].key, n)]]
                          ELSE shared
     /\ counted' = [counted EXCEPT ![m] = IF up THEN [i \in Number |-> 0] ELSE PutBack(m, batch)]
     /\ op' = NoOp
     /\ UNCHANGED <<session, up, lex>>

(***************************************************************************)
(* Promotion.                                                              *)
(***************************************************************************)
\* The events that the markers in a cache stand for.  The marker of a nested key has lost its
\* ".events." and names no event.
RecognisedNot(m) == {}
Recognised(m) == {e \in Event \ Nested : local[m][<<"promoted", e>>] # Nothing}

\* apply_lifecycle_transitions: events with a marker count as promoted; events used often enough are
\* promoted, with the gate those whose proposal the engine takes (ok); each gets a marker.
Lifecycle(m) ==
  LET mine == Absorbed(m)
      early(e) == mine[e] # Nothing /\ mine[e].life \in {"Captured", "Reinforced"}
      candidates == {e \in Event \ Recognised(m) : early(e) /\ mine[e].usage >= PromoteUses}
  IN \E ok \in (IF Gate THEN SUBSET candidates ELSE {candidates}) :
       LET promoted == ok \cup {e \in Recognised(m) : early(e)}
           markers == SetToSeq(ok)
           markerRecord(e) == [value |-> mine[e].value, usage |-> 0, life |-> "Settled"]
       IN /\ Len(shared) + Len(markers) <= MaxFacts
          /\ staged' = [staged EXCEPT ![m] = [e \in Event |-> Nothing]]
          /\ local' = [local EXCEPT ![m] = [k \in Key |->
                         CASE k \in promoted -> [mine[k] EXCEPT !.life = "Promoted"]
                           [] k \in Marker /\ k[2] \in ok -> markerRecord(k[2])
                           [] OTHER -> mine[k]]]
          /\ shared' = IF up THEN shared \o [i \in DOMAIN markers |->
                                     [key |-> <<"promoted", markers[i]>>, value |-> markerRecord(markers[i])]]
                       ELSE shared
          /\ op' = [name |-> "lifecycle", by |-> m, proposed |-> ok]
          /\ UNCHANGED <<session, up, counted, lex>>

\* The engine becomes unreachable, or reachable again.
Connection ==
  /\ up' = ~up
  /\ op' = NoOp
  /\ UNCHANGED <<tableVars, local, countVars>>

\* The operations of the managers M on the keys K, and those of all managers on all keys.
MemoryStep(M, K) ==
  \/ \E m \in M :
       \/ \E k \in K : Get(m, k) \/ Forget(m, k) \/ \E c \in Content_ : Set(m, k, c)
       \/ Sync(m)
       \/ Verify(m)
       \/ Recall(m)
       \/ FlushUsage(m)
       \/ Lifecycle(m)
  \/ \E e \in Event : Tombstone(e)
  \/ Connection

MemoryNext == MemoryStep(Manager, SessionKey \cup Event)

MemorySpec == MemoryInit /\ [][MemoryNext]_memoryVars

(***************************************************************************)
(* Properties.                                                             *)
(***************************************************************************)
\* After a check against the server the cache holds a record for exactly the keys whose newest
\* version there is one: no entry the server does not know, no deleted entry revived by an older
\* version, none missing (verify_cache_against_server, R04).
VerifyAligns ==
  op.name = "verify" =>
    \A k \in Key :
      LET latest == Latest_(IF k \in SessionKey THEN session[op.by] ELSE shared, k)
      IN local[op.by][k] # Nothing <=> latest \notin {Nothing, Null}

\* Types, and a cache that agrees with the server after a check.
MemoryInv == MemoryTypeOK /\ VerifyAligns

\* No recall is forgotten: an increment stops waiting only when a fact with it reaches the engine in
\* the same step, or when the manager has no record of the event, not even a staged one; a batch that
\* fails loses none (flush_usage).
IncrementsKept ==
  [][\A m \in Manager : \A i \in Number :
       counted'[m][i] < counted[m][i] =>
         \/ \E j \in DOMAIN shared' \ DOMAIN shared : shared'[j].key = shared[i].key
         \/ Absorbed(m)[shared[i].key] = Nothing]_memoryVars

\* A manager whose cache holds the promotion marker of an event does not propose the event again,
\* although recalls have set it back to Reinforced meanwhile (apply_lifecycle_transitions).
MarkedNotProposed ==
  [][op'.name = "lifecycle" => \A e \in op'.proposed : local[op'.by][<<"promoted", e>>] = Nothing]_memoryVars

\* What no step of the memory does: forget a recall, or propose a promoted event again.
UsageKept == IncrementsKept /\ MarkedNotProposed

\* A read of session scope returns a version of the key asked for.
SessionReadOwn ==
  op.name = "get" /\ op.key \in SessionKey /\ op.online => op.found = Alive(session[op.by], op.key)

\* A deleted event stays deleted until somebody sets it: "latest version is now null: the entry is
\* view-invisible (recall/search filter it out)".
TombstoneHolds ==
  [][\A e \in Event : Latest_(shared, e) = Null /\ Alive(shared', e) # Nothing => op'.name = "set"]_memoryVars
=============================================================================
