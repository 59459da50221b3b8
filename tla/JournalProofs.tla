--------------------------- MODULE JournalProofs ---------------------------
(***************************************************************************)
(* What a session leaves behind: the journal, proved for any set of        *)
(* openers, any number of handles of a writer and any number of lines and  *)
(* crashes; below it the message history (History), for any number of      *)
(* messages, retries and crashes and any names of tools; and the memory    *)
(* (MemoryCache), for any managers, keys and outages of the engine.        *)
(*                                                                         *)
(* The registry of active writers allows at most one owner: a writer with  *)
(* a handle that is not being dropped.  Only an owner appends, and as long *)
(* as no open is overtaken it knows the end of the file and how many turns *)
(* the file has.                                                           *)
(***************************************************************************)
EXTENDS Journal, History, MemoryCache, FiniteSetTheorems, WellFoundedInduction, TLAPS

WriterState ==
  [pc : {"closed", "scanned", "claimed", "open", "ending"}, last_seq : Nat,
   chain_tail : Nat, cut : BOOLEAN, turn_count : Nat, turn_open : BOOLEAN,
   mark : {"none", "session_opened", "session_crashed"},
   rc : 0 .. Handles, leaving : 0 .. Handles, since : Nat]

Claimed(r) == r.pc \in {"claimed", "open", "ending"}

\* A writer with a handle that is not being dropped.
Owns(r) == Claimed(r) /\ r.leaving < r.rc

\* The handles of a writer, and when they go.
Handled(r) ==
  /\ Claimed(r) <=> r.rc > 0
  /\ r.leaving <= r.rc
  /\ r.leaving > 0 => r.pc = "open" /\ ~r.turn_open
  /\ r.pc # "open" => ~r.turn_open

\* The registry has an entry while there is an owner, and there is one at most.
Registered ==
  /\ \A w \in Opener : Owns(writer[w]) => active
  /\ \A v, w \in Opener : Owns(writer[v]) /\ Owns(writer[w]) => v = w

TailOf(f) == IF f = << >> THEN Genesis ELSE f[Len(f)].hash

\* Every turn that was started has ended or was marked as crashed.
Settled(f) ==
  \A i \in DOMAIN f : f[i].kind = "turn_started" =>
    \E k \in DOMAIN f : k > i /\ f[k].kind \in {"turn_ended", "session_crashed"}

\* What a writer knows of the file it is to append to.
Knows(r, f) ==
  /\ r.turn_count = Cardinality(Starts(f))
  /\ r.pc \in {"scanned", "claimed"} /\ r.mark = "none" => Settled(f)
  /\ r.pc \in {"scanned", "claimed"} /\ r.mark = "session_opened" => f = << >>
  /\ r.pc = "open" /\ ~r.turn_open => Settled(f)

InFile(f, h) == h = Genesis \/ \E i \in DOMAIN f : f[i].hash = h

\* A scan is true as long as the file has not grown since, the owner knows the
\* end of the file, and a tail that may still be anchored is in the file.
UpToDate(r, f) ==
  /\ r.pc = "scanned" => r.last_seq <= Len(f) /\ (r.last_seq = Len(f) => Knows(r, f))
  /\ Owns(r) => r.last_seq = Len(f) /\ r.chain_tail = TailOf(f) /\ Knows(r, f)
  /\ Claimed(r) => InFile(f, r.chain_tail)

\* Turns are counted, and each is settled before the next one starts.
Delimited(f) ==
  /\ \A i \in DOMAIN f : f[i].kind = "turn_started" => f[i].turn <= Cardinality(Starts(f))
  /\ \A i, j \in DOMAIN f :
       i < j /\ f[i].kind = "turn_started" /\ f[j].kind = "turn_started" =>
         /\ f[i].turn < f[j].turn
         /\ \E k \in i + 1 .. j - 1 : f[k].kind \in {"turn_ended", "session_crashed"}

FileInv ==
  /\ Verified(file) /\ Delimited(file) /\ InFile(file, anchor)
  /\ \A w \in Opener : UpToDate(writer[w], file)

\* The inductive invariant.
IInv ==
  /\ TypeOK
  /\ \A w \in Opener : Handled(writer[w])
  /\ Registered
  /\ ~overtaken => FileInv

-----------------------------------------------------------------------------
(* Lines *)

\* A file one line longer: the old lines, then the new one.
LEMMA Longer ==
  ASSUME NEW f \in Seq(Line), NEW l \in Line
  PROVE  /\ Append(f, l) \in Seq(Line) /\ Len(Append(f, l)) = Len(f) + 1
         /\ DOMAIN f = 1 .. Len(f) /\ DOMAIN Append(f, l) = 1 .. Len(f) + 1
         /\ \A i \in 1 .. Len(f) : Append(f, l)[i] = f[i]
         /\ Append(f, l)[Len(f) + 1] = l /\ Append(f, l) # << >>
         /\ Len(f) \in Nat
  OBVIOUS

\* The fields of a line of the file.
LEMMA LineTypes ==
  ASSUME NEW f \in Seq(Line), NEW i \in 1 .. Len(f)
  PROVE  f[i] \in Line /\ f[i].turn \in Nat /\ f[i].hash \in Nat
<1>1. f[i] \in Line
  OBVIOUS
<1> QED
  BY <1>1 DEF Line

\* The turns of a file can be counted.
LEMMA StartsFinite ==
  ASSUME NEW f \in Seq(Line)
  PROVE  IsFiniteSet(Starts(f)) /\ Cardinality(Starts(f)) \in Nat
<1>1. IsFiniteSet(1 .. Len(f))
  BY FS_Interval
<1>2. Starts(f) \subseteq 1 .. Len(f)
  BY DEF Starts
<1> QED
  BY <1>1, <1>2, FS_Subset, FS_CardinalityType

\* A line that starts a turn adds one to their number, any other line nothing.
LEMMA StartsAppend ==
  ASSUME NEW f \in Seq(Line), NEW l \in Line
  PROVE  Cardinality(Starts(Append(f, l))) =
           Cardinality(Starts(f)) + (IF l.kind = "turn_started" THEN 1 ELSE 0)
<1> DEFINE g == Append(f, l)
<1>1. \A i \in 1 .. Len(f) : i \in Starts(g) <=> i \in Starts(f)
  BY Longer DEF Starts
<1>2. Starts(f) \subseteq 1 .. Len(f) /\ Starts(g) \subseteq 1 .. Len(f) + 1 /\ Len(f) \in Nat
  BY Longer DEF Starts
<1>3. CASE l.kind = "turn_started"
  <2>1. Len(f) + 1 \in Starts(g) /\ Len(f) + 1 \notin Starts(f)
    BY <1>2, <1>3, Longer DEF Starts
  <2>2. Starts(g) = Starts(f) \cup {Len(f) + 1}
    BY <1>1, <1>2, <2>1
  <2> QED
    BY <1>3, <2>1, <2>2, StartsFinite, FS_AddElement
<1>4. CASE l.kind # "turn_started"
  <2>1. Len(f) + 1 \notin Starts(g)
    BY <1>2, <1>4, Longer DEF Starts
  <2>2. Starts(g) \subseteq 1 .. Len(f)
    BY <1>2, <2>1
  <2>3. Starts(g) = Starts(f)
    BY <1>1, <1>2, <2>2
  <2> QED
    BY <1>4, <2>3, StartsFinite
<1> QED
  BY <1>3, <1>4

\* The next line of a chain.
Fits(f, l) == l.seq = Len(f) + 1 /\ l.prev = TailOf(f)

LEMMA VerifiedAppend ==
  ASSUME NEW f \in Seq(Line), NEW l \in Line, Verified(f), Fits(f, l)
  PROVE  Verified(Append(f, l))
<1> SUFFICES ASSUME NEW i \in 1 .. Len(f) + 1
             PROVE  /\ Append(f, l)[i].seq = i
                    /\ Append(f, l)[i].prev = IF i = 1 THEN Genesis ELSE Append(f, l)[i - 1].hash
  BY Longer DEF Verified
<1>1. CASE i \in 1 .. Len(f)
  BY <1>1, Longer DEF Verified
<1>2. CASE i = Len(f) + 1
  <2>1. Len(f) = 0 <=> f = << >>
    OBVIOUS
  <2> QED
    BY <1>2, <2>1, Longer DEF Fits, TailOf
<1> QED
  BY <1>1, <1>2, Longer

\* An ordinary line leaves every turn settled; an end or a crash mark settles them.
LEMMA SettledAppend ==
  ASSUME NEW f \in Seq(Line), NEW l \in Line,
         \/ Settled(f) /\ l.kind # "turn_started"
         \/ l.kind \in {"turn_ended", "session_crashed"}
  PROVE  Settled(Append(f, l))
<1> SUFFICES ASSUME NEW i \in 1 .. Len(f) + 1, Append(f, l)[i].kind = "turn_started"
             PROVE  \E k \in 1 .. Len(f) + 1 :
                      k > i /\ Append(f, l)[k].kind \in {"turn_ended", "session_crashed"}
  BY Longer DEF Settled
<1>1. i \in 1 .. Len(f) /\ f[i].kind = "turn_started"
  BY Longer
<1>2. CASE Settled(f)
  <2>1. PICK k \in 1 .. Len(f) : k > i /\ f[k].kind \in {"turn_ended", "session_crashed"}
    BY <1>1, <1>2, Longer DEF Settled
  <2> QED
    BY <2>1, Longer
<1>3. CASE l.kind \in {"turn_ended", "session_crashed"}
  <2>1. Len(f) + 1 \in 1 .. Len(f) + 1 /\ Len(f) + 1 > i
    BY <1>1, Longer
  <2> QED
    BY <2>1, <1>3, Longer
<1> QED
  BY <1>2, <1>3

\* The next turn, or any other line, on a file whose turns are delimited.
LEMMA DelimitedAppend ==
  ASSUME NEW f \in Seq(Line), NEW l \in Line, Delimited(f),
         l.kind = "turn_started" => Settled(f) /\ l.turn = Cardinality(Starts(f)) + 1
  PROVE  Delimited(Append(f, l))
<1> DEFINE g == Append(f, l)
           n == Cardinality(Starts(f))
<1>0. n \in Nat /\ Cardinality(Starts(g)) \in Nat /\ n <= Cardinality(Starts(g))
      /\ (l.kind = "turn_started" => Cardinality(Starts(g)) = n + 1)
  BY StartsFinite, StartsAppend, Longer
<1>1. ASSUME NEW i \in 1 .. Len(f) + 1, g[i].kind = "turn_started"
      PROVE  g[i].turn <= Cardinality(Starts(g))
  <2>1. CASE i \in 1 .. Len(f)
    <3>1. f[i].turn <= n /\ f[i].turn \in Nat
      BY <1>1, <2>1, Longer, LineTypes DEF Delimited
    <3> QED
      BY <1>0, <2>1, <3>1, Longer
  <2>2. CASE i = Len(f) + 1
    BY <1>0, <1>1, <2>2, Longer
  <2> QED
    BY <2>1, <2>2, Longer
<1>2. ASSUME NEW i \in 1 .. Len(f) + 1, NEW j \in 1 .. Len(f) + 1, i < j,
             g[i].kind = "turn_started", g[j].kind = "turn_started"
      PROVE  /\ g[i].turn < g[j].turn
             /\ \E k \in i + 1 .. j - 1 : g[k].kind \in {"turn_ended", "session_crashed"}
  <2>a. i \in 1 .. Len(f) /\ g[i] = f[i]
    BY <1>2, Longer
  <2>0. i \in 1 .. Len(f) /\ g[i] = f[i] /\ f[i].turn <= n /\ f[i].turn \in Nat
    BY <1>2, <2>a, Longer, LineTypes DEF Delimited
  <2>1. CASE j \in 1 .. Len(f)
    <3>1. f[i].turn < f[j].turn
      BY <1>2, <2>0, <2>1, Longer DEF Delimited
    <3>2. PICK k \in i + 1 .. j - 1 : f[k].kind \in {"turn_ended", "session_crashed"}
      BY <1>2, <2>0, <2>1, Longer DEF Delimited
    <3>3. k \in 1 .. Len(f)
      BY <2>0, <2>1
    <3> QED
      BY <2>0, <2>1, <3>1, <3>2, <3>3, Longer
  <2>2. CASE j = Len(f) + 1
    <3>1. l.kind = "turn_started" /\ g[j].turn = n + 1
      BY <1>2, <2>2, Longer
    <3>2. PICK k \in 1 .. Len(f) : k > i /\ f[k].kind \in {"turn_ended", "session_crashed"}
      BY <1>2, <2>0, <3>1, Longer DEF Settled
    <3>3. k \in i + 1 .. j - 1 /\ g[k] = f[k]
      BY <2>0, <2>2, <3>2, Longer
    <3> QED
      BY <1>0, <2>0, <3>1, <3>2, <3>3
  <2> QED
    BY <2>1, <2>2, Longer
<1> QED
  BY <1>1, <1>2, Longer DEF Delimited

\* What is in a file stays in it, and the new line is in it.
LEMMA InFileAppend ==
  ASSUME NEW f \in Seq(Line), NEW l \in Line
  PROVE  InFile(Append(f, l), l.hash) /\ \A h : InFile(f, h) => InFile(Append(f, l), h)
<1>1. InFile(Append(f, l), l.hash)
  <2>1. Len(f) + 1 \in 1 .. Len(f) + 1
    BY Longer
  <2> QED
    BY <2>1, Longer DEF InFile
<1>2. ASSUME NEW h, InFile(f, h) PROVE InFile(Append(f, l), h)
  <2>1. CASE h = Genesis
    BY <2>1 DEF InFile
  <2>2. CASE \E i \in DOMAIN f : f[i].hash = h
    <3>1. PICK i \in 1 .. Len(f) : f[i].hash = h
      BY <2>2, Longer
    <3>2. i \in 1 .. Len(f) + 1
      BY Longer
    <3> QED
      BY <3>1, <3>2, Longer DEF InFile
  <2> QED
    BY <1>2, <2>1, <2>2 DEF InFile
<1> QED
  BY <1>1, <1>2

\* Whoever does not own the file has no use for its end.
LEMMA OthersUpToDate ==
  ASSUME NEW f \in Seq(Line), NEW l \in Line, NEW r \in WriterState, UpToDate(r, f), ~Owns(r)
  PROVE  UpToDate(r, Append(f, l))
<1>1. r.pc = "scanned" => r.last_seq <= Len(Append(f, l)) /\ r.last_seq # Len(Append(f, l))
  BY Longer DEF UpToDate, WriterState
<1>2. Claimed(r) => InFile(Append(f, l), r.chain_tail)
  BY InFileAppend DEF UpToDate
<1> QED
  BY <1>1, <1>2 DEF UpToDate

-----------------------------------------------------------------------------
(* The steps of a writer *)

\* A step of one writer that leaves the file as it is.
LEMMA WriterStep ==
  ASSUME IInv, NEW w \in Opener, NEW r \in WriterState, Handled(r),
         writer' = [writer EXCEPT ![w] = r],
         file' = file, stamp' = stamp, crashes' = crashes, overtaken' = overtaken,
         created' \in BOOLEAN, partial' \in BOOLEAN, active' \in BOOLEAN, anchor' \in Nat,
         Owns(r) => active' /\ \A v \in Opener : Owns(writer[v]) => v = w,
         active /\ ~active' => Owns(writer[w]),
         ~overtaken => UpToDate(r, file) /\ InFile(file, anchor')
  PROVE  IInv'
<1> USE DEF IInv
<1>1. writer \in [Opener -> WriterState] /\ writer' \in [Opener -> WriterState]
  BY DEF TypeOK, WriterState
<1>2. writer'[w] = r /\ \A v \in Opener : v # w => writer'[v] = writer[v]
  BY <1>1
<1>3. TypeOK'
  BY <1>1 DEF TypeOK, WriterState
<1>4. \A v \in Opener : Handled(writer'[v])
  BY <1>2
<1>5. Registered'
  BY <1>2 DEF Registered
<1>6. ~overtaken => FileInv'
  BY <1>2 DEF FileInv
<1> QED
  BY <1>3, <1>4, <1>5, <1>6

\* A line is written by the owner of the file.
LEMMA AppendStep ==
  ASSUME IInv, NEW w \in Opener, Owns(writer[w]), NEW r \in WriterState, Handled(r), Owns(r),
         NEW kind \in Kind, NEW turn \in Nat, AppendLine(w, kind, turn),
         writer' = [writer EXCEPT ![w] = r],
         r.last_seq = writer[w].last_seq + 1, r.chain_tail = stamp + 1,
         UNCHANGED <<created, partial, active, anchor, crashes, overtaken>>,
         ~overtaken => Knows(r, file'),
         ~overtaken /\ kind = "turn_started" => Settled(file) /\ turn = Cardinality(Starts(file)) + 1
  PROVE  IInv'
<1> USE DEF IInv
<1> DEFINE l == [seq |-> writer[w].last_seq + 1, prev |-> writer[w].chain_tail,
                 hash |-> stamp + 1, kind |-> kind, turn |-> turn]
<1>1. writer \in [Opener -> WriterState] /\ writer' \in [Opener -> WriterState]
  BY DEF TypeOK, WriterState
<1>2. writer'[w] = r /\ \A v \in Opener : v # w => writer'[v] = writer[v]
  BY <1>1
<1>3. stamp \in Nat /\ stamp' = stamp + 1 /\ stamp' \in 0 .. MaxWrites
  BY JournalAssumption DEF TypeOK, AppendLine
<1>4. writer[w] \in WriterState /\ writer[w].last_seq \in Nat /\ writer[w].chain_tail \in Nat
  BY <1>1 DEF WriterState
<1>5. l \in Line
  BY <1>3, <1>4 DEF Line
<1>6. file \in Seq(Line) /\ file' = Append(file, l)
  BY DEF TypeOK, AppendLine
<1>7. file' \in Seq(Line)
  BY <1>5, <1>6, Longer
<1>8. TypeOK'
  BY <1>1, <1>3, <1>7 DEF TypeOK, WriterState
<1>9. \A v \in Opener : Handled(writer'[v])
  BY <1>2
<1>10. \A v \in Opener : v # w => ~Owns(writer[v])
  BY DEF Registered
<1>11. Registered'
  BY <1>2, <1>10 DEF Registered
<1>12. ASSUME ~overtaken PROVE FileInv'
  <2>1. Verified(file) /\ Delimited(file) /\ InFile(file, anchor)
        /\ \A v \in Opener : UpToDate(writer[v], file)
    BY <1>12 DEF FileInv
  <2>2. writer[w].last_seq = Len(file) /\ writer[w].chain_tail = TailOf(file)
    BY <2>1 DEF UpToDate
  <2>3. Verified(file')
    BY <1>5, <1>6, <2>1, <2>2, VerifiedAppend DEF Fits
  <2>4. Delimited(file')
    BY <1>5, <1>6, <1>12, <2>1, DelimitedAppend
  <2>5. InFile(file', anchor')
    BY <1>5, <1>6, <2>1, InFileAppend
  <2>6. ASSUME NEW v \in Opener, v # w PROVE UpToDate(writer'[v], file')
    BY <1>1, <1>2, <1>5, <1>6, <1>10, <2>1, <2>6, OthersUpToDate
  <2>7. UpToDate(r, file')
    <3>1. InFile(file', r.chain_tail)
      BY <1>5, <1>6, InFileAppend
    <3>2. r.last_seq = Len(file') /\ r.chain_tail = TailOf(file')
      BY <1>5, <1>6, <2>2, Longer DEF TailOf
    <3> QED
      BY <1>12, <3>1, <3>2 DEF UpToDate, Owns, Claimed
  <2> QED
    BY <1>2, <2>3, <2>4, <2>5, <2>6, <2>7 DEF FileInv
<1> QED
  BY <1>8, <1>9, <1>11, <1>12

\* The state of one writer, and of the file if nobody was overtaken.
LEMMA OfWriter ==
  ASSUME IInv, NEW w \in Opener
  PROVE  /\ writer[w] \in WriterState /\ Handled(writer[w]) /\ file \in Seq(Line)
         /\ active \in BOOLEAN /\ created \in BOOLEAN /\ partial \in BOOLEAN /\ anchor \in Nat
         /\ overtaken \in BOOLEAN /\ stamp \in Nat
         /\ ~overtaken => UpToDate(writer[w], file) /\ InFile(file, anchor)
  BY DEF IInv, TypeOK, WriterState, FileInv

\* A file in which no turn hangs, or whose last line is a crash mark, has only settled turns.
LEMMA ScanSettles ==
  ASSUME NEW f \in Seq(Line), ~(TailHung(f) /\ ~LastIsCrash(f))
  PROVE  Settled(f)
<1> SUFFICES ASSUME NEW i \in 1 .. Len(f), f[i].kind = "turn_started"
             PROVE  \E k \in 1 .. Len(f) : k > i /\ f[k].kind \in {"turn_ended", "session_crashed"}
  BY DEF Settled
<1>1. CASE LastIsCrash(f)
  <2>1. f[Len(f)].kind = "session_crashed" /\ Len(f) \in 1 .. Len(f)
    BY <1>1 DEF LastIsCrash, Last
  <2>2. Len(f) > i
    BY <2>1
  <2> QED
    BY <2>1, <2>2
<1>2. CASE ~TailHung(f)
  <2>1. PICK k \in i + 1 .. Len(f) : f[k].kind = "turn_ended"
    BY <1>2 DEF TailHung
  <2> QED
    BY <2>1
<1> QED
  BY <1>1, <1>2

LEMMA ClosedIsFine == Closed \in WriterState /\ Handled(Closed) /\ ~Owns(Closed) /\ \A f : UpToDate(Closed, f)
  BY JournalAssumption DEF Closed, WriterState, Handled, Owns, Claimed, UpToDate, Genesis

LEMMA ScanKeeps ==
  ASSUME IInv, NEW w \in Opener, NEW how \in {"New", "Resume"}, Scan(w, how)
  PROVE  IInv'
<1> DEFINE r == [Closed EXCEPT
          !.pc = "scanned",
          !.last_seq = Len(file),
          !.chain_tail = IF file = << >> THEN Genesis ELSE Last(file).hash,
          !.cut = created,
          !.turn_count = Cardinality(Starts(file)),
          !.mark = IF how = "New" THEN "session_opened"
                   ELSE IF TailHung(file) /\ ~LastIsCrash(file) THEN "session_crashed"
                   ELSE "none"]
<1>1. writer' = [writer EXCEPT ![w] = r] /\ (how = "New" => file = << >>)
  BY DEF Scan
<1>2. UNCHANGED <<created, file, partial, stamp, active, anchor, crashes, overtaken>>
  BY DEF Scan
<1>3. (IF file = << >> THEN Genesis ELSE Last(file).hash) \in Nat
  <2>1. CASE file = << >>
    BY <2>1 DEF Genesis
  <2>2. CASE file # << >>
    <3>1. Len(file) \in 1 .. Len(file)
      BY <2>2, OfWriter
    <3> QED
      BY <2>2, <3>1, OfWriter, LineTypes DEF Last
  <2> QED
    BY <2>1, <2>2
<1>4. r.pc = "scanned" /\ r.rc = 0 /\ r.leaving = 0 /\ ~r.turn_open /\ r.last_seq = Len(file)
      /\ r.turn_count = Cardinality(Starts(file))
      /\ (r.mark = "none" => Settled(file)) /\ (r.mark = "session_opened" => file = << >>)
  BY <1>1, ScanSettles, OfWriter DEF Closed
<1>5. r \in WriterState
  <2>1. Len(file) \in Nat /\ Cardinality(Starts(file)) \in Nat /\ created \in BOOLEAN
    BY OfWriter, StartsFinite
  <2>2. 0 \in 0 .. Handles
    BY JournalAssumption
  <2> QED
    BY <1>3, <2>1, <2>2 DEF WriterState, Closed
<1>6. Handled(r) /\ ~Owns(r) /\ UpToDate(r, file)
  BY <1>4, OfWriter DEF Handled, Owns, Claimed, UpToDate, Knows
<1> HIDE DEF r
<1> QED
  BY <1>1, <1>2, <1>5, <1>6, OfWriter, WriterStep

\* Whoever claims the session finds no owner; it may cut the file only if it
\* has scanned it at its present length, and then cuts nothing.
LEMMA ClaimKeeps ==
  ASSUME IInv, NEW w \in Opener, Claim(w)
  PROVE  IInv'
<1> DEFINE r == [writer[w] EXCEPT !.pc = "claimed", !.rc = 1]
           x == writer[w]
<1>1. x \in WriterState /\ Handled(x) /\ x.pc = "scanned"
  BY OfWriter DEF Claim
<1>2. writer' = [writer EXCEPT ![w] = r]
  BY <1>1 DEF Claim, IInv, TypeOK
<1>3. r \in WriterState
  <2>1. 1 \in 0 .. Handles
    BY JournalAssumption
  <2> QED
    BY <1>1, <2>1 DEF WriterState
<1>4. r.pc = "claimed" /\ r.rc = 1 /\ r.leaving = 0 /\ ~r.turn_open /\ r.last_seq = x.last_seq
      /\ r.chain_tail = x.chain_tail /\ r.turn_count = x.turn_count /\ r.mark = x.mark
  BY <1>1 DEF WriterState, Handled, Claimed
<1>5. ~active /\ active' = TRUE /\ created' = TRUE /\ partial' = FALSE
      /\ UNCHANGED <<stamp, anchor, crashes>> /\ overtaken' = (overtaken \/ Outdated(w)) /\ file' = CutTo(w)
  BY DEF Claim
<1>6. Handled(r) /\ Owns(r) /\ \A v \in Opener : ~Owns(writer[v])
  BY <1>4, <1>5 DEF Handled, Owns, Claimed, IInv, Registered
<1> HIDE DEF r, x
<1>7. CASE ~overtaken /\ ~Outdated(w)
  <2>1. UpToDate(x, file) /\ file \in Seq(Line) /\ x.last_seq = Len(file) /\ x.chain_tail = TailOf(file)
    BY <1>7, OfWriter DEF x, Outdated, TailOf, Last
  <2>2. file' = file
    <3>1. CASE ~x.cut
      BY <1>5, <3>1 DEF CutTo, x
    <3>2. CASE Len(file) = 0
      <4>1. file = << >> /\ SubSeq(file, 1, 0) = << >>
        BY <2>1, <3>2
      <4> QED
        BY <1>5, <2>1, <3>2, <4>1 DEF CutTo, x
    <3>3. CASE Len(file) > 0
      <4>1. file # << >> /\ SubSeq(file, 1, Len(file)) = file /\ file[Len(file)].hash = x.chain_tail
        BY <2>1, <3>3 DEF TailOf
      <4> QED
        BY <1>5, <2>1, <4>1 DEF CutTo, x
    <3> QED
      BY <2>1, <3>1, <3>2, <3>3
  <2>3. Knows(r, file)
    BY <1>1, <1>4, <2>1 DEF UpToDate, Knows
  <2>4. InFile(file, r.chain_tail)
    <3>1. CASE file = << >>
      BY <1>4, <2>1, <3>1 DEF InFile, TailOf
    <3>2. CASE file # << >>
      <4>1. Len(file) \in DOMAIN file
        BY <2>1, <3>2
      <4> QED
        BY <1>4, <2>1, <3>2, <4>1 DEF InFile, TailOf
    <3> QED
      BY <3>1, <3>2
  <2>5. UpToDate(r, file)
    BY <1>4, <2>1, <2>3, <2>4 DEF UpToDate
  <2>6. overtaken' = overtaken
    BY <1>5, <1>7, OfWriter
  <2> QED
    BY <1>2, <1>3, <1>5, <1>6, <2>2, <2>5, <2>6, OfWriter, WriterStep
<1>8. CASE overtaken \/ Outdated(w)
  <2>1. overtaken' = TRUE
    BY <1>5, <1>8
  <2>2. writer \in [Opener -> WriterState] /\ writer' \in [Opener -> WriterState]
    BY <1>2, <1>3 DEF IInv, TypeOK, WriterState
  <2>3. writer'[w] = r /\ \A v \in Opener : v # w => writer'[v] = writer[v]
    BY <1>2, <2>2
  <2>4. file' \in Seq(Line)
    <3>1. file \in Seq(Line) /\ x.last_seq \in Nat /\ Garbage \in Line
      BY <1>1, OfWriter DEF WriterState, Garbage, Line, Kind, Genesis
    <3>2. \A n \in Nat : n <= Len(file) => SubSeq(file, 1, n) \in Seq(Line)
      BY <3>1
    <3>3. CASE ~x.cut
      BY <1>5, <3>1, <3>3 DEF CutTo, x
    <3>4. CASE x.last_seq = 0
      BY <1>5, <3>1, <3>2, <3>4 DEF CutTo, x
    <3>5. CASE x.last_seq # 0 /\ x.last_seq <= Len(file)
      <4>1. SubSeq(file, 1, x.last_seq) \in Seq(Line)
        BY <3>1, <3>2, <3>5
      <4>2. SubSeq(file, 1, x.last_seq - 1) \in Seq(Line)
        BY <3>1, <3>2, <3>5
      <4>3. Append(SubSeq(file, 1, x.last_seq - 1), Garbage) \in Seq(Line)
        BY <3>1, <4>2
      <4> QED
        BY <1>5, <3>1, <3>5, <4>1, <4>3 DEF CutTo, x
    <3>6. CASE x.last_seq # 0 /\ x.last_seq > Len(file)
      <4>1. Append(SubSeq(file, 1, Len(file)), Garbage) \in Seq(Line)
        BY <3>1, <3>2
      <4>2. ~(x.last_seq <= Len(file))
        BY <3>1, <3>6
      <4> QED
        BY <1>5, <3>1, <3>6, <4>1, <4>2 DEF CutTo, x
    <3> QED
      BY <3>1, <3>3, <3>4, <3>5, <3>6
  <2>5. TypeOK'
    BY <1>5, <2>1, <2>2, <2>4 DEF IInv, TypeOK, WriterState
  <2>6. \A v \in Opener : Handled(writer'[v])
    BY <1>6, <2>3 DEF IInv
  <2>7. Registered'
    BY <1>5, <1>6, <2>3 DEF Registered
  <2> QED
    BY <2>1, <2>5, <2>6, <2>7 DEF IInv
<1> QED
  BY <1>7, <1>8

LEMMA RefuseKeeps ==
  ASSUME IInv, NEW w \in Opener, Refuse(w)
  PROVE  IInv'
  BY ClosedIsFine, OfWriter, WriterStep DEF Refuse

\* Whoever is between two lines of an open session is its owner.
LEMMA ClaimedOwns ==
  ASSUME NEW r \in WriterState, Handled(r), r.pc \in {"claimed", "ending"} \/ (r.pc = "open" /\ r.rc > r.leaving)
  PROVE  Owns(r) /\ (r.pc \in {"claimed", "ending"} => r.leaving = 0)
  BY DEF WriterState, Handled, Owns, Claimed

\* The writer after a line, with whatever else the action changes.
LEMMA AdvancedTypes ==
  ASSUME IInv, NEW w \in Opener
  PROVE  /\ Advanced(w) \in WriterState
         /\ Advanced(w).last_seq = writer[w].last_seq + 1 /\ Advanced(w).chain_tail = stamp + 1
         /\ Advanced(w).pc = writer[w].pc /\ Advanced(w).rc = writer[w].rc
         /\ Advanced(w).leaving = writer[w].leaving /\ Advanced(w).turn_open = writer[w].turn_open
         /\ Advanced(w).turn_count = writer[w].turn_count /\ Advanced(w).mark = writer[w].mark
<1> DEFINE x == writer[w]
<1>1. x \in WriterState /\ stamp \in Nat
  BY OfWriter
<1>2. x.last_seq + 1 \in Nat /\ x.since + 1 \in Nat /\ stamp + 1 \in Nat
  BY <1>1 DEF WriterState
<1>3. Advanced(w) = [x EXCEPT !.last_seq = x.last_seq + 1, !.chain_tail = stamp + 1, !.since = x.since + 1]
  BY <1>1 DEF Advanced, WriterState
<1> HIDE DEF x
<1>4. Advanced(w) \in WriterState
  BY <1>1, <1>2, <1>3 DEF WriterState
<1>5. /\ Advanced(w).last_seq = x.last_seq + 1 /\ Advanced(w).chain_tail = stamp + 1
      /\ Advanced(w).pc = x.pc /\ Advanced(w).rc = x.rc
      /\ Advanced(w).leaving = x.leaving /\ Advanced(w).turn_open = x.turn_open
      /\ Advanced(w).turn_count = x.turn_count /\ Advanced(w).mark = x.mark
  BY <1>1, <1>3 DEF WriterState
<1> QED
  BY <1>4, <1>5 DEF x

\* The file after a line.
LEMMA AppendedFile ==
  ASSUME IInv, NEW w \in Opener, NEW kind \in Kind, NEW turn \in Nat, AppendLine(w, kind, turn)
  PROVE  \E l \in Line : file' = Append(file, l) /\ l.kind = kind
<1>1. writer[w] \in WriterState /\ stamp \in Nat
  BY OfWriter
<1>2. writer[w].last_seq + 1 \in Nat /\ writer[w].chain_tail \in Nat
  BY <1>1 DEF WriterState
<1> DEFINE l == [seq |-> writer[w].last_seq + 1, prev |-> writer[w].chain_tail,
                 hash |-> stamp + 1, kind |-> kind, turn |-> turn]
<1>3. l \in Line /\ l.kind = kind
  BY <1>1, <1>2 DEF Line
<1>4. file' = Append(file, l)
  BY DEF AppendLine
<1> QED
  BY <1>3, <1>4

\* What the owner knows goes on with the line it writes.
LEMMA KnowsAppend ==
  ASSUME NEW f \in Seq(Line), NEW l \in Line, NEW r, NEW q, Knows(r, f), q.pc = "open",
         q.turn_count = r.turn_count + (IF l.kind = "turn_started" THEN 1 ELSE 0),
         ~q.turn_open => (Settled(f) /\ l.kind # "turn_started") \/ l.kind \in {"turn_ended", "session_crashed"}
  PROVE  Knows(q, Append(f, l))
<1>1. q.turn_count = Cardinality(Starts(Append(f, l)))
  BY StartsAppend DEF Knows
<1>2. ~q.turn_open => Settled(Append(f, l))
  BY SettledAppend
<1> QED
  BY <1>1, <1>2 DEF Knows

LEMMA MarkKeeps ==
  ASSUME IInv, NEW w \in Opener, Mark(w)
  PROVE  IInv'
<1> DEFINE x == writer[w]
<1>1. x \in WriterState /\ Handled(x) /\ x.pc = "claimed" /\ Owns(x) /\ x.leaving = 0 /\ x.rc > 0
  BY OfWriter, ClaimedOwns DEF Mark, Handled, Claimed
<1>2. ~x.turn_open
  BY <1>1 DEF Handled
<1>3. UNCHANGED <<created, partial, active, anchor, crashes, overtaken>>
  BY DEF Mark
<1>4. ~overtaken => Knows(x, file) /\ UpToDate(x, file)
  BY <1>1, OfWriter DEF UpToDate
<1>5. CASE x.mark # "none" /\ AppendLine(w, x.mark, 0)
           /\ writer' = [writer EXCEPT ![w] = [Advanced(w) EXCEPT !.pc = "open", !.mark = "none"]]
  <2> DEFINE r == [Advanced(w) EXCEPT !.pc = "open", !.mark = "none"]
  <2>1. r \in WriterState
    BY AdvancedTypes DEF WriterState
  <2>2. r.pc = "open" /\ r.rc = x.rc /\ r.leaving = 0 /\ ~r.turn_open /\ r.last_seq = x.last_seq + 1
        /\ r.chain_tail = stamp + 1 /\ r.turn_count = x.turn_count
    BY <1>1, <1>2, AdvancedTypes DEF WriterState
  <2>3. x.mark \in {"session_opened", "session_crashed"} /\ x.mark \in Kind
    BY <1>1, <1>5 DEF WriterState, Kind
  <2>4. Handled(r) /\ Owns(r)
    BY <1>1, <2>2 DEF Handled, Owns, Claimed
  <2>5. ASSUME ~overtaken PROVE Knows(r, file')
    <3>1. PICK l \in Line : file' = Append(file, l) /\ l.kind = x.mark
      BY <1>5, <2>3, AppendedFile
    <3>2. x.mark = "session_opened" => Settled(file)
      BY <1>1, <1>4, <2>5 DEF Knows, Settled
    <3>3. r.turn_count = x.turn_count + 0
      BY <1>1, <2>2 DEF WriterState
    <3> HIDE DEF r, x
    <3> QED
      BY <1>4, <2>2, <2>3, <2>5, <3>1, <3>2, <3>3, OfWriter, KnowsAppend
  <2> HIDE DEF r
  <2> QED
    BY <1>1, <1>3, <1>5, <2>1, <2>2, <2>3, <2>4, <2>5, AppendStep DEF r
<1>6. CASE x.mark = "none" /\ writer' = [writer EXCEPT ![w].pc = "open"] /\ UNCHANGED <<file, stamp>>
  <2> DEFINE r == [x EXCEPT !.pc = "open"]
  <2>1. r \in WriterState
    BY <1>1 DEF WriterState
  <2>2. r.pc = "open" /\ r.rc = x.rc /\ r.leaving = 0 /\ ~r.turn_open /\ r.last_seq = x.last_seq
        /\ r.chain_tail = x.chain_tail /\ r.turn_count = x.turn_count
    BY <1>1, <1>2 DEF WriterState
  <2>3. Handled(r) /\ Owns(r)
    BY <1>1, <2>2 DEF Handled, Owns, Claimed
  <2>4. ~overtaken => UpToDate(r, file)
    BY <1>1, <1>4, <1>6, <2>2 DEF UpToDate, Knows, Claimed
  <2>5. writer' = [writer EXCEPT ![w] = r]
    BY <1>6
  <2>6. active /\ \A v \in Opener : Owns(writer[v]) => v = w
    BY <1>1 DEF IInv, Registered
  <2> HIDE DEF r
  <2> QED
    BY <1>3, <1>6, <2>1, <2>3, <2>4, <2>5, <2>6, OfWriter, WriterStep
<1> QED
  BY <1>5, <1>6 DEF Mark

\* A step of the owner that adds a line and goes on as the owner r.
LEMMA OwnerAppends ==
  ASSUME IInv, NEW w \in Opener, Owns(writer[w]), NEW r \in WriterState, Handled(r), Owns(r), r.pc = "open",
         NEW kind \in Kind, NEW turn \in Nat, AppendLine(w, kind, turn),
         writer' = [writer EXCEPT ![w] = r],
         r.last_seq = writer[w].last_seq + 1, r.chain_tail = stamp + 1,
         r.turn_count = writer[w].turn_count + (IF kind = "turn_started" THEN 1 ELSE 0),
         UNCHANGED <<created, partial, active, anchor, crashes, overtaken>>,
         ~overtaken /\ ~r.turn_open => (Settled(file) /\ kind # "turn_started") \/ kind = "turn_ended",
         ~overtaken /\ kind = "turn_started" => Settled(file) /\ turn = writer[w].turn_count + 1
  PROVE  IInv'
<1>1. ASSUME ~overtaken
      PROVE  Knows(writer[w], file)
  BY <1>1, OfWriter DEF UpToDate
<1>2. ASSUME ~overtaken
      PROVE  Knows(r, file')
  <2>1. PICK l \in Line : file' = Append(file, l) /\ l.kind = kind
    BY AppendedFile
  <2> QED
    BY <1>1, <1>2, <2>1, OfWriter, KnowsAppend
<1>3. ~overtaken => writer[w].turn_count = Cardinality(Starts(file))
  BY <1>1 DEF Knows
<1> QED
  BY <1>2, <1>3, AppendStep

LEMMA PushKeeps ==
  ASSUME IInv, NEW w \in Opener, Push(w)
  PROVE  IInv'
<1> DEFINE x == writer[w]
           r == Advanced(w)
<1>1. x \in WriterState /\ Handled(x) /\ x.pc = "open" /\ Owns(x)
  BY OfWriter, ClaimedOwns DEF Push
<1>2. r \in WriterState /\ r.pc = "open" /\ r.rc = x.rc /\ r.leaving = x.leaving
      /\ r.turn_open = x.turn_open /\ r.last_seq = x.last_seq + 1 /\ r.chain_tail = stamp + 1
      /\ r.turn_count = x.turn_count
  BY <1>1, AdvancedTypes
<1>3. Handled(r) /\ Owns(r)
  BY <1>1, <1>2 DEF Handled, Owns, Claimed
<1>4. AppendLine(w, "event", 0) /\ writer' = [writer EXCEPT ![w] = r]
      /\ UNCHANGED <<created, partial, active, anchor, crashes, overtaken>>
  BY DEF Push
<1>5. ~overtaken /\ ~x.turn_open => Settled(file)
  BY <1>1, OfWriter DEF UpToDate, Knows
<1>6. "event" \in Kind /\ 0 \in Nat /\ r.turn_count = x.turn_count + 0
  BY <1>1, <1>2 DEF Kind, WriterState
<1> HIDE DEF r
<1> QED
  BY <1>1, <1>2, <1>3, <1>4, <1>5, <1>6, OwnerAppends

LEMMA BeginTurnKeeps ==
  ASSUME IInv, NEW w \in Opener, BeginTurn(w)
  PROVE  IInv'
<1> DEFINE x == writer[w]
           r == [Advanced(w) EXCEPT !.turn_count = @ + 1, !.turn_open = TRUE, !.rc = @ + 1]
<1>1. x \in WriterState /\ Handled(x) /\ x.pc = "open" /\ x.leaving = 0 /\ ~x.turn_open /\ x.rc < Handles
  BY OfWriter DEF BeginTurn
<1>2. x.rc \in 0 .. Handles /\ x.rc > 0 /\ x.turn_count + 1 \in Nat
  BY <1>1 DEF WriterState, Handled, Claimed
<1>3. Owns(x) /\ x.rc + 1 \in 0 .. Handles
  BY <1>1, <1>2, ClaimedOwns, JournalAssumption
<1>a. Advanced(w) \in WriterState
  BY AdvancedTypes
<1>4. r = [Advanced(w) EXCEPT !.turn_count = x.turn_count + 1, !.turn_open = TRUE, !.rc = x.rc + 1]
  BY AdvancedTypes DEF WriterState
<1>5. r \in WriterState
  BY <1>2, <1>3, <1>4, <1>a DEF WriterState
<1>6. r.pc = "open" /\ r.rc = x.rc + 1 /\ r.leaving = 0 /\ r.turn_open = TRUE
      /\ r.last_seq = x.last_seq + 1 /\ r.chain_tail = stamp + 1 /\ r.turn_count = x.turn_count + 1
  BY <1>1, <1>4, AdvancedTypes DEF WriterState
<1>7. Handled(r) /\ Owns(r)
  BY <1>1, <1>2, <1>6 DEF Handled, Owns, Claimed
<1>8. AppendLine(w, "turn_started", x.turn_count + 1) /\ writer' = [writer EXCEPT ![w] = r]
      /\ UNCHANGED <<created, partial, active, anchor, crashes, overtaken>>
  BY DEF BeginTurn
<1>9. ~overtaken => Settled(file)
  BY <1>1, <1>3, OfWriter DEF UpToDate, Knows
<1>10. "turn_started" \in Kind
  BY DEF Kind
<1> HIDE DEF r
<1> QED
  BY <1>2, <1>3, <1>5, <1>6, <1>7, <1>8, <1>9, <1>10, OwnerAppends

LEMMA EndTurnLineKeeps ==
  ASSUME IInv, NEW w \in Opener, EndTurnLine(w)
  PROVE  IInv'
<1> DEFINE x == writer[w]
           r == [Advanced(w) EXCEPT !.pc = "open"]
<1>1. x \in WriterState /\ Handled(x) /\ x.pc = "ending" /\ Owns(x) /\ x.leaving = 0
  BY OfWriter, ClaimedOwns DEF EndTurnLine
<1>2. r \in WriterState
  BY AdvancedTypes DEF WriterState
<1>3. r.pc = "open" /\ r.rc = x.rc /\ r.leaving = x.leaving
      /\ r.turn_open = x.turn_open /\ r.last_seq = x.last_seq + 1 /\ r.chain_tail = stamp + 1
      /\ r.turn_count = x.turn_count
  BY <1>1, AdvancedTypes DEF WriterState
<1>4. Handled(r) /\ Owns(r)
  BY <1>1, <1>3 DEF Handled, Owns, Claimed
<1>5. AppendLine(w, "turn_ended", 0) /\ writer' = [writer EXCEPT ![w] = r]
      /\ UNCHANGED <<created, partial, active, anchor, crashes, overtaken>>
  BY DEF EndTurnLine
<1>6. "turn_ended" \in Kind /\ 0 \in Nat /\ r.turn_count = x.turn_count + 0
  BY <1>1, <1>3 DEF Kind, WriterState
<1> HIDE DEF r
<1> QED
  BY <1>1, <1>2, <1>3, <1>4, <1>5, <1>6, OwnerAppends

LEMMA EndTurnFlagKeeps ==
  ASSUME IInv, NEW w \in Opener, EndTurnFlag(w)
  PROVE  IInv'
<1> DEFINE x == writer[w]
           r == [x EXCEPT !.turn_open = FALSE, !.pc = "ending"]
<1>1. x \in WriterState /\ Handled(x) /\ x.pc = "open" /\ x.turn_open
  BY OfWriter DEF EndTurnFlag
<1>2. x.leaving = 0 /\ x.rc > 0 /\ Owns(x) /\ x.rc \in Nat
  BY <1>1 DEF WriterState, Handled, Claimed, Owns
<1>3. r \in WriterState
  BY <1>1 DEF WriterState
<1>4. r.pc = "ending" /\ r.rc = x.rc /\ r.leaving = x.leaving /\ ~r.turn_open /\ r.last_seq = x.last_seq
      /\ r.chain_tail = x.chain_tail /\ r.turn_count = x.turn_count
  BY <1>1 DEF WriterState
<1>5. Handled(r) /\ Owns(r)
  BY <1>2, <1>4 DEF Handled, Owns, Claimed
<1>6. writer' = [writer EXCEPT ![w] = r]
      /\ UNCHANGED <<created, file, partial, stamp, active, anchor, crashes, overtaken>>
  BY DEF EndTurnFlag
<1>7. ~overtaken => UpToDate(r, file)
  BY <1>2, <1>4, OfWriter DEF UpToDate, Knows, Owns
<1>8. active /\ \A v \in Opener : Owns(writer[v]) => v = w
  BY <1>2 DEF IInv, Registered
<1> HIDE DEF r
<1> QED
  BY <1>3, <1>5, <1>6, <1>7, <1>8, OfWriter, WriterStep

\* A tail that may still be anchored is in the file, even if its writer is the
\* last one to go.
LEMMA AnchorKeeps ==
  ASSUME IInv, NEW w \in Opener, Anchor(w)
  PROVE  IInv'
<1> DEFINE x == writer[w]
           r == [x EXCEPT !.since = 0]
<1>1. x \in WriterState /\ Handled(x) /\ x.pc = "open" /\ x.chain_tail \in Nat
  BY OfWriter DEF Anchor, WriterState
<1>2. r \in WriterState
  BY <1>1 DEF WriterState
<1>3. r.pc = x.pc /\ r.rc = x.rc /\ r.leaving = x.leaving /\ r.turn_open = x.turn_open /\ r.last_seq = x.last_seq
      /\ r.chain_tail = x.chain_tail /\ r.turn_count = x.turn_count /\ r.mark = x.mark
  BY <1>1 DEF WriterState
<1>4. Handled(r) /\ (Owns(r) <=> Owns(x))
  BY <1>1, <1>3 DEF Handled, Owns, Claimed
<1>5. writer' = [writer EXCEPT ![w] = r] /\ anchor' = x.chain_tail
      /\ UNCHANGED <<created, file, partial, stamp, active, crashes, overtaken>>
  BY DEF Anchor
<1>6. ~overtaken => UpToDate(r, file) /\ InFile(file, x.chain_tail)
  BY <1>1, <1>3, <1>4, OfWriter DEF UpToDate, Knows, Claimed
<1>7. Owns(r) => active /\ \A v \in Opener : Owns(writer[v]) => v = w
  BY <1>4 DEF IInv, Registered
<1> HIDE DEF r
<1> QED
  BY <1>1, <1>2, <1>4, <1>5, <1>6, <1>7, OfWriter, WriterStep

\* Only the last handle of the owner frees the registry.
LEMMA DropCheckKeeps ==
  ASSUME IInv, NEW w \in Opener, DropCheck(w)
  PROVE  IInv'
<1> DEFINE x == writer[w]
           r == [x EXCEPT !.leaving = x.leaving + 1]
<1>1. x \in WriterState /\ Handled(x) /\ x.pc = "open" /\ ~x.turn_open /\ x.leaving < x.rc
  BY OfWriter DEF DropCheck
<1>2. Owns(x) /\ x.rc \in 0 .. Handles /\ x.leaving \in 0 .. Handles
  BY <1>1 DEF WriterState, Owns, Claimed
<1>3. x.leaving + 1 \in 0 .. Handles
  BY <1>1, <1>2, JournalAssumption
<1>4. r \in WriterState
  BY <1>1, <1>3 DEF WriterState
<1>5. r.pc = x.pc /\ r.rc = x.rc /\ r.leaving = x.leaving + 1 /\ r.turn_open = x.turn_open /\ r.last_seq = x.last_seq
      /\ r.chain_tail = x.chain_tail /\ r.turn_count = x.turn_count /\ r.mark = x.mark
  BY <1>1 DEF WriterState
<1>6. Handled(r) /\ (Owns(r) => x.rc > 1)
  BY <1>1, <1>2, <1>5 DEF Handled, Owns, Claimed
<1>7. writer' = [writer EXCEPT ![w] = r] /\ active' = (active /\ x.rc > 1)
      /\ UNCHANGED <<created, file, partial, stamp, anchor, crashes, overtaken>>
  BY DEF DropCheck
<1>8. ~overtaken => UpToDate(r, file)
  BY <1>1, <1>2, <1>5, OfWriter DEF UpToDate, Knows, Claimed
<1>9. active /\ \A v \in Opener : Owns(writer[v]) => v = w
  BY <1>2 DEF IInv, Registered
<1> HIDE DEF r
<1> QED
  BY <1>2, <1>4, <1>6, <1>7, <1>8, <1>9, OfWriter, WriterStep

LEMMA DropReleaseKeeps ==
  ASSUME IInv, NEW w \in Opener, DropRelease(w)
  PROVE  IInv'
<1> DEFINE x == writer[w]
           r == [x EXCEPT !.rc = x.rc - 1, !.leaving = x.leaving - 1]
<1>1. x \in WriterState /\ Handled(x) /\ x.leaving > 0 /\ x.rc \in 0 .. Handles /\ x.leaving \in 0 .. Handles
  BY OfWriter DEF DropRelease, WriterState
<1>2. x.pc = "open" /\ ~x.turn_open /\ x.rc > 0 /\ x.leaving <= x.rc
  BY <1>1, JournalAssumption DEF Handled
<1>3. UNCHANGED <<created, file, partial, stamp, active, anchor, crashes, overtaken>>
  BY DEF DropRelease
<1>4. writer' = [writer EXCEPT ![w] = IF x.rc = 1 THEN Closed ELSE r]
  BY <1>1 DEF DropRelease, WriterState
<1>5. CASE x.rc = 1
  BY <1>3, <1>4, <1>5, ClosedIsFine, OfWriter, WriterStep
<1>6. CASE x.rc # 1
  <2>1. x.rc - 1 \in 0 .. Handles /\ x.leaving - 1 \in 0 .. Handles
    BY <1>1, <1>2, JournalAssumption
  <2>2. r \in WriterState
    BY <1>1, <2>1 DEF WriterState
  <2>3. r.pc = "open" /\ r.rc = x.rc - 1 /\ r.leaving = x.leaving - 1 /\ ~r.turn_open /\ r.last_seq = x.last_seq
        /\ r.chain_tail = x.chain_tail /\ r.turn_count = x.turn_count /\ r.mark = x.mark
    BY <1>1, <1>2 DEF WriterState
  <2>4. Handled(r) /\ (Owns(r) <=> Owns(x))
    BY <1>1, <1>2, <1>6, <2>3, JournalAssumption DEF Handled, Owns, Claimed
  <2>5. ~overtaken => UpToDate(r, file)
    BY <1>2, <2>3, <2>4, OfWriter DEF UpToDate, Knows, Claimed
  <2>6. Owns(r) => active /\ \A v \in Opener : Owns(writer[v]) => v = w
    BY <2>4 DEF IInv, Registered
  <2>7. writer' = [writer EXCEPT ![w] = r]
    BY <1>4, <1>6
  <2> HIDE DEF r
  <2> QED
    BY <1>3, <2>2, <2>4, <2>5, <2>6, <2>7, OfWriter, WriterStep
<1> QED
  BY <1>5, <1>6

\* The file survives the process; its writers do not.
LEMMA CrashKeeps ==
  ASSUME IInv, Crash
  PROVE  IInv'
<1>1. writer' = [w \in Opener |-> Closed] /\ active' = FALSE /\ crashes' = crashes + 1
      /\ UNCHANGED <<created, file, stamp, anchor, overtaken>>
  BY DEF Crash
<1>2. partial' \in BOOLEAN
  BY DEF Crash, IInv, TypeOK
<1>3. writer' \in [Opener -> WriterState] /\ \A v \in Opener : writer'[v] = Closed
  BY <1>1, ClosedIsFine
<1>a. crashes + 1 \in Nat
  BY DEF IInv, TypeOK
<1>4. TypeOK'
  BY <1>1, <1>2, <1>3, <1>a DEF IInv, TypeOK, WriterState
<1>5. Registered' /\ \A v \in Opener : Handled(writer'[v])
  BY <1>3, ClosedIsFine DEF Registered
<1>6. ~overtaken' => FileInv'
  BY <1>1, <1>3, ClosedIsFine DEF IInv, FileInv
<1> QED
  BY <1>4, <1>5, <1>6 DEF IInv

-----------------------------------------------------------------------------
(* The invariant *)

LEMMA InitHolds == Init => IInv
<1> SUFFICES ASSUME Init PROVE IInv
  OBVIOUS
<1>1. writer = [w \in Opener |-> Closed] /\ file = << >> /\ anchor = Genesis
  BY DEF Init
<1>2. writer \in [Opener -> WriterState] /\ \A v \in Opener : writer[v] = Closed
  BY <1>1, ClosedIsFine
<1>a. << >> \in Seq(Line) /\ 0 \in 0 .. MaxWrites /\ Genesis \in Nat
  BY JournalAssumption DEF Genesis
<1>3. TypeOK
  BY <1>2, <1>a DEF Init, TypeOK, WriterState
<1>4. Registered /\ \A v \in Opener : Handled(writer[v])
  BY <1>2, ClosedIsFine DEF Registered
<1>5. Verified(file) /\ Delimited(file) /\ InFile(file, anchor)
  BY <1>1 DEF Verified, Delimited, InFile
<1>6. FileInv
  BY <1>2, <1>5, ClosedIsFine DEF FileInv
<1> QED
  BY <1>3, <1>4, <1>6 DEF IInv

LEMMA NextKeeps == IInv /\ [Next]_vars => IInv'
<1> SUFFICES ASSUME IInv, [Next]_vars PROVE IInv'
  OBVIOUS
<1>1. ASSUME NEW w \in Opener, Open(w) PROVE IInv'
  BY <1>1, ScanKeeps, ClaimKeeps, RefuseKeeps, MarkKeeps DEF Open
<1>2. ASSUME NEW w \in Opener, Write(w) PROVE IInv'
  BY <1>2, PushKeeps, BeginTurnKeeps, EndTurnFlagKeeps, EndTurnLineKeeps, AnchorKeeps DEF Write
<1>3. ASSUME NEW w \in Opener, DropCheck(w) \/ DropRelease(w) PROVE IInv'
  BY <1>3, DropCheckKeeps, DropReleaseKeeps
<1>4. CASE Crash
  BY <1>4, CrashKeeps
<1>5. CASE UNCHANGED vars
  BY <1>5 DEF IInv, TypeOK, Registered, FileInv, vars
<1> QED
  BY <1>1, <1>2, <1>3, <1>4, <1>5 DEF Next

\* The inductive invariant holds in every reachable state.
THEOREM JournalIInv == Spec => []IInv
  BY InitHolds, NextKeeps, PTL DEF Spec

\* Two openers never hold the file at once (but for one that is on its way out),
\* turns are numbered in order and can be told apart after a crash, and a tail
\* anchored in the engine's chain stays in the file: open_with_mode, push_with,
\* begin_turn, end_turn, Drop and any crash between them.
THEOREM JournalIsSound == Spec => []JournalInv
<1>1. IInv => JournalInv
  <2> SUFFICES ASSUME IInv PROVE JournalInv
    OBVIOUS
  <2>1. TypeOK
    BY DEF IInv
  <2>2. OneWriter
    <3> SUFFICES ASSUME NEW v \in Opener, NEW w \in Opener, Claimed(writer[v]), Claimed(writer[w]), v # w
                 PROVE  writer[v].leaving > 0 \/ writer[w].leaving > 0
      BY DEF OneWriter, Claimed
    <3>1. ~Owns(writer[v]) \/ ~Owns(writer[w])
      BY DEF IInv, Registered
    <3>2. ASSUME NEW u \in Opener, Claimed(writer[u]), ~Owns(writer[u])
          PROVE  writer[u].leaving > 0
      <4>a. writer[u] \in WriterState /\ Handled(writer[u])
        BY OfWriter
      <4>1. writer[u].rc \in Nat /\ writer[u].leaving \in Nat
        BY <4>a DEF WriterState
      <4> QED
        BY <3>2, <4>1, <4>a DEF Owns, Handled
    <3> QED
      BY <3>1, <3>2
  <2>3. TurnsAreDelimited
    BY DEF IInv, FileInv, Delimited, TurnsAreDelimited
  <2>4. AnchorHolds
    BY DEF IInv, FileInv, InFile, AnchorHolds
  <2> QED
    BY <2>1, <2>2, <2>3, <2>4 DEF JournalInv
<1> QED
  BY <1>1, JournalIInv, PTL

\* As long as no writer has claimed a file that changed after its own scan of it
\* (~overtaken; open_with_mode reads the file before it registers as the writer),
\* every file the writers leave behind verifies when it is opened again: the
\* checks of open_with_mode and verify_journal_file pass over half lines, mending
\* and crashes.
THEOREM JournalAlwaysVerifies == Spec => []JournalVerifies
<1>1. IInv => JournalVerifies
  BY DEF IInv, FileInv, JournalVerifies
<1> QED
  BY <1>1, JournalIInv, PTL

\* The repair of a tail at open takes away no complete line: only a half line goes.
LEMMA ClaimCutsNothing ==
  ASSUME IInv, NEW w \in Opener, Claim(w), ~overtaken'
  PROVE  file' = file
<1> DEFINE x == writer[w]
<1>1. file \in Seq(Line) /\ x.last_seq = Len(file) /\ x.chain_tail = TailOf(file) /\ file' = CutTo(w)
  BY OfWriter DEF Claim, Outdated, TailOf, Last
<1>2. CASE ~x.cut
  BY <1>1, <1>2 DEF CutTo
<1>3. CASE Len(file) = 0
  <2>1. file = << >> /\ SubSeq(file, 1, 0) = << >>
    BY <1>1, <1>3
  <2> QED
    BY <1>1, <1>3, <2>1 DEF CutTo
<1>4. CASE Len(file) > 0
  <2>1. file # << >> /\ SubSeq(file, 1, Len(file)) = file /\ file[Len(file)].hash = x.chain_tail
    BY <1>1, <1>4 DEF TailOf
  <2> QED
    BY <1>1, <2>1 DEF CutTo
<1> QED
  BY <1>1, <1>2, <1>3, <1>4

\* Complete lines are never taken away: the file of a session only grows, over
\* any writers, refused opens and crashes, unless an open was overtaken.
THEOREM JournalGrowsOnly == Spec => GrowsOnly
<1>1. ASSUME NEW f \in Seq(Line) PROVE IsPrefix(f, f)
  BY <1>1 DEF IsPrefix
<1>2. ASSUME NEW f \in Seq(Line), NEW l \in Line PROVE IsPrefix(f, Append(f, l))
  BY <1>2 DEF IsPrefix
<1>3. ASSUME IInv, [Next]_vars, ~overtaken' PROVE IsPrefix(file, file')
  <2>1. file \in Seq(Line)
    BY <1>3 DEF IInv, TypeOK
  <2>2. ASSUME NEW w \in Opener, NEW kind \in Kind, NEW turn \in Nat, AppendLine(w, kind, turn)
        PROVE  IsPrefix(file, file')
    BY <1>2, <1>3, <2>1, <2>2, AppendedFile
  <2>3. ASSUME NEW w \in Opener, Open(w) PROVE IsPrefix(file, file')
    <3>1. CASE \E how \in {"New", "Resume"} : Scan(w, how)
      BY <1>1, <2>1, <3>1 DEF Scan
    <3>2. CASE Claim(w)
      BY <1>1, <1>3, <2>1, <3>2, ClaimCutsNothing
    <3>3. CASE Refuse(w)
      BY <1>1, <2>1, <3>3 DEF Refuse
    <3>4. CASE Mark(w)
      <4>1. CASE writer[w].mark # "none" /\ AppendLine(w, writer[w].mark, 0)
        <5>1. writer[w].mark \in Kind
          BY <1>3, <4>1, OfWriter DEF WriterState, Kind
        <5> QED
          BY <2>2, <4>1, <5>1
      <4>2. CASE file' = file
        BY <1>1, <2>1, <4>2
      <4> QED
        BY <3>4, <4>1, <4>2 DEF Mark
    <3> QED
      BY <2>3, <3>1, <3>2, <3>3, <3>4 DEF Open
  <2>4. ASSUME NEW w \in Opener, Write(w) PROVE IsPrefix(file, file')
    <3>1. "event" \in Kind /\ "turn_started" \in Kind /\ "turn_ended" \in Kind
          /\ writer[w].turn_count + 1 \in Nat
      BY <1>3, OfWriter DEF WriterState, Kind
    <3>2. CASE Push(w) \/ BeginTurn(w) \/ EndTurnLine(w)
      BY <2>2, <3>1, <3>2 DEF Push, BeginTurn, EndTurnLine
    <3>3. CASE EndTurnFlag(w) \/ Anchor(w)
      BY <1>1, <2>1, <3>3 DEF EndTurnFlag, Anchor
    <3> QED
      BY <2>4, <3>2, <3>3 DEF Write
  <2>5. ASSUME NEW w \in Opener, DropCheck(w) \/ DropRelease(w) PROVE IsPrefix(file, file')
    BY <1>1, <2>1, <2>5 DEF DropCheck, DropRelease
  <2>6. CASE Crash \/ UNCHANGED vars
    BY <1>1, <2>1, <2>6 DEF Crash, vars
  <2> QED
    BY <1>3, <2>3, <2>4, <2>5, <2>6 DEF Next
<1> QED
  BY <1>3, JournalIInv, PTL DEF Spec, GrowsOnly

-----------------------------------------------------------------------------
(* History *)

\* Messages and records of the first n messages spoken.
Role == {"system", "user", "assistant", "tool"}
AnsweredTool == ToolName \cup {""}
MessageOf(n) == [n : 0 .. n, role : Role, calls : Calls, tool : AnsweredTool]
RecordOf(n) == [idx : 0 .. n, msg : MessageOf(n)]

\* The types by what they are about: what has been written, what the turn
\* holds, and the rest.  Nothing has a number or an index beyond what has been spoken.
StoreShape ==
  /\ DOMAIN store \subseteq 0 .. spoken /\ \A i \in DOMAIN store : store[i] \in MessageOf(spoken)
  /\ gone \subseteq 0 .. spoken
VectorShape ==
  /\ messages \in Seq(MessageOf(spoken)) /\ Len(messages) <= spoken + 1
  /\ pending \in Seq(RecordOf(spoken)) /\ (mode = "every_message" => pending = << >>)
  /\ phase \in Phase
  /\ phase \in {"idle", "open"} => messages = << >> /\ pending = << >>
  /\ rejected \in 0 .. GuardRetries
CountShape ==
  /\ mode \in PersistMode /\ crashed \in BOOLEAN /\ skipped \in BOOLEAN
  /\ report \in Nat /\ spoken \in 0 .. MaxMessages /\ trouble \in 0 .. MaxTrouble

\* The records of st are those of the indices below c, in the order in which
\* they were spoken.
Stored(st, c) ==
  /\ DOMAIN st = 0 .. c - 1
  /\ \A i, j \in 0 .. c - 1 : i < j => st[i].n < st[j].n

\* The vector ms begins with the records of st; the batch ps is its rest.
InStep(ms, ps, st, c) ==
  /\ Len(ms) = c + Len(ps)
  /\ \A i \in 0 .. c - 1 : ms[i + 1].n = st[i].n
  /\ \A j \in 1 .. Len(ps) : ps[j].idx = c + j - 1 /\ ps[j].msg.n = ms[c + j].n
  /\ \A j, k \in 1 .. Len(ms) : j < k => ms[j].n < ms[k].n

\* As long as nothing has been skipped.
Straight ==
  ~skipped =>
    /\ gone = {}
    /\ \E c \in Nat : Stored(store, c) /\ (phase # "idle" => InStep(messages, pending, store, c))

\* The message at a in h has calls and is the last that is no result; not all have one yet.
Asking(h, a) ==
  /\ h[a].role = "assistant"
  /\ Len(h) - a < Len(h[a].calls)
  /\ \A j \in a + 1 .. Len(h) : h[j].role = "tool"
  /\ \A i \in DOMAIN h : i # a => Answered(h, i)

\* Only the message whose tools are running lacks a result.
Paired ==
  IF phase = "tools"
  THEN \E a \in DOMAIN messages : Asking(messages, a)
  ELSE \A i \in DOMAIN messages : Answered(messages, i)

HistoryIInv == StoreShape /\ VectorShape /\ CountShape /\ Straight /\ Paired

\* The mending of a history, and what is loaded.
LEMMA CallsAreSequences ==
  /\ << >> \in Calls
  /\ \A cs \in Calls : cs \in Seq(ToolName) /\ DOMAIN cs = 1 .. Len(cs) /\ Len(cs) \in Nat
<1>1. << >> \in [1 .. 0 -> ToolName]
  OBVIOUS
<1>2. \A cs : cs \in Calls <=> \E n \in 0 .. 2 : cs \in [1 .. n -> ToolName]
  BY DEF Calls
<1>3. << >> \in Calls
  <2>1. 0 \in 0 .. 2
    OBVIOUS
  <2> QED
    BY <1>1, <1>2, <2>1, Zenon
<1>4. ASSUME NEW cs \in Calls PROVE cs \in Seq(ToolName) /\ DOMAIN cs = 1 .. Len(cs) /\ Len(cs) \in Nat
  <2>1. PICK n \in 0 .. 2 : cs \in [1 .. n -> ToolName]
    BY <1>2
  <2>2. cs \in Seq(ToolName)
    BY <2>1
  <2> QED
    BY <2>2
<1> QED
  BY <1>3, <1>4

LEMMA GreatestExists ==
  ASSUME NEW n \in Nat, NEW S \in SUBSET (1 .. n), S # {}
  PROVE  \E i \in S : \A j \in S : j <= i
<1> DEFINE T == {n - i : i \in S}
<1>1. T \subseteq Nat /\ T # {}
  <2>1. \A i \in S : i \in 1 .. n
    OBVIOUS
  <2>2. \A i \in 1 .. n : n - i \in Nat
    OBVIOUS
  <2> QED
    BY <2>1, <2>2
<1>2. PICK x \in T : \A y \in T : ~ (<<y, x>> \in OpToRel(<, Nat))
  BY <1>1, NatLessThanWellFounded, WFMin, Zenon
<1>3. \A y \in T : ~ (y < x)
  BY <1>1, <1>2 DEF OpToRel
<1>4. PICK i \in S : x = n - i
  BY <1>2
<1>5. ASSUME NEW j \in S PROVE j <= i
  <2>1. ~ (n - j < n - i)
    BY <1>3, <1>4
  <2> QED
    BY <2>1
<1> QED
  BY <1>5

LEMMA SanitizeIsPaired ==
  ASSUME NEW n \in Nat, NEW h \in Seq(MessageOf(n))
  PROVE  /\ Sanitize(h) \in Seq(MessageOf(n)) /\ Len(Sanitize(h)) = Len(h)
         /\ \A i \in 1 .. Len(h) : Sanitize(h)[i].n = h[i].n
         /\ \A i \in 1 .. Len(h) : Answered(Sanitize(h), i)
<1> DEFINE r == Reclaimed(h)
           s == Sanitize(h)
<1>1. DOMAIN h = 1 .. Len(h) /\ Len(h) \in Nat /\ \A i \in 1 .. Len(h) : h[i] \in MessageOf(n)
  OBVIOUS
<1>2. DOMAIN r = 1 .. Len(h) /\ \A i \in 1 .. Len(h) : r[i] \in MessageOf(n) /\ r[i].n = h[i].n
  <2>1. r = [i \in 1 .. Len(h) |->
               IF i \in Orphans(h) THEN [h[i] EXCEPT !.role = "user", !.tool = ""] ELSE h[i]]
    BY <1>1 DEF Reclaimed
  <2> HIDE DEF r
  <2> QED
    BY <1>1, <2>1 DEF MessageOf, Role, AnsweredTool
<1> HIDE DEF r
<1>3. /\ s = [i \in 1 .. Len(h) |-> IF i \in Unanswered(r) THEN [r[i] EXCEPT !.calls = << >>] ELSE r[i]]
  BY <1>2 DEF Sanitize, r
<1> HIDE DEF s
<1>4. \A i \in 1 .. Len(h) : /\ s[i] \in MessageOf(n) /\ s[i].n = r[i].n /\ s[i].role = r[i].role
                             /\ s[i].calls = IF i \in Unanswered(r) THEN << >> ELSE r[i].calls
  <2> SUFFICES ASSUME NEW i \in 1 .. Len(h)
               PROVE  /\ s[i] \in MessageOf(n) /\ s[i].n = r[i].n /\ s[i].role = r[i].role
                      /\ s[i].calls = IF i \in Unanswered(r) THEN << >> ELSE r[i].calls
    OBVIOUS
  <2>1. s[i] = IF i \in Unanswered(r) THEN [r[i] EXCEPT !.calls = << >>] ELSE r[i]
    BY <1>3
  <2> QED
    BY <1>2, <2>1, CallsAreSequences DEF MessageOf
<1>5. DOMAIN s = 1 .. Len(h)
  BY <1>3
<1>6. s \in Seq(MessageOf(n)) /\ Len(s) = Len(h)
  BY <1>1, <1>3, <1>4, <1>5
<1>7. ASSUME NEW i \in 1 .. Len(h) PROVE Answered(s, i)
  <2>1. CASE i \in Unanswered(r)
    BY <1>4, <2>1 DEF Answered
  <2>2. CASE i \notin Unanswered(r)
    <3>1. Answered(r, i) /\ s[i].calls = r[i].calls
      BY <1>2, <1>4, <2>2 DEF Unanswered
    <3> QED
      BY <1>2, <1>4, <1>5, <3>1 DEF Answered
  <2> QED
    BY <2>1, <2>2
<1> QED
  BY <1>2, <1>4, <1>6, <1>7 DEF s

\* Nothing dangles in what sanitize_tool_pairing leaves.
LEMMA NothingDangles ==
  ASSUME NEW n \in Nat, NEW h \in Seq(MessageOf(n)), \A i \in 1 .. Len(h) : Answered(h, i)
  PROVE  PlanDanglingRepair(h) = << >>
<1> DEFINE calling == {i \in DOMAIN h : h[i].calls # << >>}
           last == CHOOSE i \in calling : \A j \in calling : j <= i
<1>1. CASE calling = {}
  BY <1>1 DEF PlanDanglingRepair
<1>2. CASE calling # {}
  <2>1. Len(h) \in Nat /\ DOMAIN h = 1 .. Len(h) /\ calling \in SUBSET (1 .. Len(h))
    OBVIOUS
  <2>2. last \in calling
    BY <1>2, <2>1, GreatestExists
  <2>3. last \in 1 .. Len(h) /\ h[last].calls # << >> /\ Answered(h, last) /\ h[last] \in MessageOf(n)
    BY <2>1, <2>2
  <2>4. h[last].calls \in Calls
    BY <2>3 DEF MessageOf
  <2>5. 1 \in DOMAIN h[last].calls
    <3> DEFINE cs == h[last].calls
    <3>1. cs \in Seq(ToolName) /\ cs # << >>
      BY <2>3, <2>4, CallsAreSequences
    <3> HIDE DEF cs
    <3>2. 1 \in DOMAIN cs
      BY <3>1
    <3> QED
      BY <3>2 DEF cs
  <2>6. last + 1 \in DOMAIN h /\ h[last + 1].role = "tool"
    BY <2>3, <2>5 DEF Answered
  <2> HIDE DEF last
  <2>7. \E j \in DOMAIN h : j > last /\ h[j].role = "tool"
    BY <2>1, <2>3, <2>6
  <2> QED
    BY <2>7 DEF PlanDanglingRepair, last
<1> QED
  BY <1>1, <1>2

\* The elements of a finite set of numbers, by how many are less.
LEMMA EveryRankIsTaken ==
  ASSUME NEW n \in Nat, NEW S \in SUBSET (0 .. n)
  PROVE  /\ Cardinality(S) \in Nat /\ Cardinality(S) <= n + 1
         /\ \A k \in 0 .. Cardinality(S) - 1 : \E i \in S : Cardinality({j \in S : j < i}) = k
<1> DEFINE below(i) == {j \in S : j < i}
           f == [i \in S |-> Cardinality(below(i))]
<1>1. IsFiniteSet(0 .. n) /\ Cardinality(0 .. n) = n + 1
  BY FS_Interval
<1>2. IsFiniteSet(S) /\ Cardinality(S) <= n + 1
  BY <1>1, FS_Subset
<1>3. Cardinality(S) \in Nat
  BY <1>2, FS_CardinalityType
<1>4. ASSUME NEW T \in SUBSET S, NEW i \in S, i \notin T
      PROVE  IsFiniteSet(T) /\ Cardinality(T) \in Nat /\ Cardinality(T) < Cardinality(S)
  <2>1. IsFiniteSet(T) /\ Cardinality(T) <= Cardinality(S) /\ (Cardinality(S) = Cardinality(T) => S = T)
    BY <1>2, FS_Subset
  <2>2. Cardinality(T) \in Nat
    BY <2>1, FS_CardinalityType
  <2> QED
    BY <1>3, <1>4, <2>1, <2>2
<1>5. \A i \in S : below(i) \in SUBSET S /\ i \notin below(i)
  OBVIOUS
<1>6. \A i \in S : Cardinality(below(i)) \in 0 .. Cardinality(S) - 1
  <2> SUFFICES ASSUME NEW i \in S PROVE Cardinality(below(i)) \in 0 .. Cardinality(S) - 1
    OBVIOUS
  <2>1. Cardinality(below(i)) \in Nat /\ Cardinality(below(i)) < Cardinality(S)
    BY <1>4, <1>5
  <2> QED
    BY <1>3, <2>1
<1>7. \A i, k \in S : i < k => Cardinality(below(i)) < Cardinality(below(k))
  <2> SUFFICES ASSUME NEW i \in S, NEW k \in S, i < k PROVE Cardinality(below(i)) < Cardinality(below(k))
    OBVIOUS
  <2>1. below(i) \in SUBSET below(k) /\ i \in below(k) /\ i \notin below(i)
    <3>1. i \in Nat /\ k \in Nat /\ \A j \in S : j \in Nat
      OBVIOUS
    <3>2. \A j \in S : j < i => j < k
      BY <3>1
    <3>3. ~(i < i)
      BY <3>1
    <3> QED
      BY <3>2, <3>3
  <2>2. IsFiniteSet(below(k)) /\ Cardinality(below(k)) \in Nat
    BY <1>4, <1>5
  <2>3. Cardinality(below(i)) \in Nat
    BY <1>4, <1>5
  <2>4. Cardinality(below(i)) <= Cardinality(below(k)) /\ (Cardinality(below(k)) = Cardinality(below(i)) => below(k) = below(i))
    BY <2>1, <2>2, FS_Subset
  <2> HIDE DEF below
  <2> QED
    BY <2>1, <2>2, <2>3, <2>4
<1> HIDE DEF below
<1>8. f \in Injection(S, 0 .. Cardinality(S) - 1)
  <2>1. f \in [S -> 0 .. Cardinality(S) - 1]
    BY <1>6
  <2>2. \A i, k \in S : i # k => f[i] # f[k]
    <3>1. \A i, k \in S : i < k \/ k < i \/ i = k
      OBVIOUS
    <3>2. \A i \in S : f[i] = Cardinality(below(i)) /\ f[i] \in Nat
      BY <1>3, <1>6
    <3> QED
      BY <1>7, <3>1, <3>2
  <2> QED
    BY <2>1, <2>2 DEF Injection, IsInjective
<1> DEFINE R == 0 .. Cardinality(S) - 1
<1>9. IsFiniteSet(R) /\ Cardinality(R) = Cardinality(S)
  <2>1. 0 \in Int /\ Cardinality(S) - 1 \in Int
    BY <1>3
  <2>2. IsFiniteSet(R) /\ Cardinality(R) = IF 0 > Cardinality(S) - 1 THEN 0 ELSE Cardinality(S) - 1 - 0 + 1
    BY <2>1, FS_Interval
  <2> QED
    BY <1>3, <2>2
<1>10. f \in Surjection(S, R)
  BY <1>8, <1>9, FS_Injection
<1>11. \A k \in R : \E i \in S : f[i] = k
  BY <1>10 DEF Surjection
<1> QED
  BY <1>2, <1>3, <1>11 DEF below

LEMMA MessagesGrow ==
  ASSUME NEW k \in Nat, NEW n \in Nat, k <= n
  PROVE  /\ MessageOf(k) \subseteq MessageOf(n) /\ RecordOf(k) \subseteq RecordOf(n)
         /\ Seq(MessageOf(k)) \subseteq Seq(MessageOf(n)) /\ Seq(RecordOf(k)) \subseteq Seq(RecordOf(n))
<1>1. 0 .. k \subseteq 0 .. n
  OBVIOUS
<1>2. MessageOf(k) \subseteq MessageOf(n)
  BY <1>1 DEF MessageOf
<1>3. RecordOf(k) \subseteq RecordOf(n)
  BY <1>1, <1>2 DEF RecordOf
<1> QED
  BY <1>2, <1>3

\* What load_messages_from_payload returns.
LEMMA LoadIsStored ==
  ASSUME StoreShape, spoken \in Nat
  PROVE  /\ LoadMessages \in Seq(MessageOf(spoken)) /\ Len(LoadMessages) <= spoken + 1
         /\ \A c \in Nat : DOMAIN store = 0 .. c - 1 =>
              Len(LoadMessages) = c /\ \A k \in 1 .. c : LoadMessages[k] = store[k - 1]
<1> DEFINE S == DOMAIN store
           below(i) == Cardinality({j \in S : j < i})
           at(k) == CHOOSE i \in S : below(i) = k - 1
           h == LoadMessages
<1>1. h = [k \in 1 .. Cardinality(S) |-> store[at(k)]]
  BY DEF LoadMessages
<1>2. S \in SUBSET (0 .. spoken) /\ \A i \in S : store[i] \in MessageOf(spoken)
  BY DEF StoreShape
<1>3. /\ Cardinality(S) \in Nat /\ Cardinality(S) <= spoken + 1
      /\ \A k \in 0 .. Cardinality(S) - 1 : \E i \in S : below(i) = k
  BY <1>2, EveryRankIsTaken
<1>4. \A k \in 1 .. Cardinality(S) : at(k) \in S /\ below(at(k)) = k - 1
  <2> SUFFICES ASSUME NEW k \in 1 .. Cardinality(S) PROVE at(k) \in S /\ below(at(k)) = k - 1
    OBVIOUS
  <2>1. k - 1 \in 0 .. Cardinality(S) - 1
    BY <1>3
  <2>2. \E i \in S : below(i) = k - 1
    BY <1>3, <2>1
  <2> HIDE DEF S, below
  <2> QED
    BY <2>2
<1> HIDE DEF h, at
<1>5. h \in Seq(MessageOf(spoken)) /\ Len(h) = Cardinality(S)
  <2>1. \A k \in 1 .. Cardinality(S) : store[at(k)] \in MessageOf(spoken)
    BY <1>2, <1>4
  <2> QED
    BY <1>1, <1>3, <2>1
<1>6. ASSUME NEW c \in Nat, S = 0 .. c - 1
      PROVE  Len(h) = c /\ \A k \in 1 .. c : h[k] = store[k - 1]
  <2>1. \A i \in 0 .. c : Cardinality(0 .. i - 1) = i
    <3> SUFFICES ASSUME NEW i \in 0 .. c PROVE Cardinality(0 .. i - 1) = i
      OBVIOUS
    <3>1. Cardinality(0 .. i - 1) = IF 0 > i - 1 THEN 0 ELSE i - 1 - 0 + 1
      BY FS_Interval
    <3> QED
      BY <3>1
  <2>2. Cardinality(S) = c
    BY <1>6, <2>1
  <2>3. \A i \in S : below(i) = i
    <3> SUFFICES ASSUME NEW i \in S PROVE below(i) = i
      OBVIOUS
    <3>1. i \in 0 .. c /\ {j \in S : j < i} = 0 .. i - 1
      BY <1>6
    <3> QED
      BY <2>1, <3>1
  <2>4. \A k \in 1 .. c : at(k) = k - 1
    BY <1>4, <2>2, <2>3
  <2> QED
    BY <1>1, <1>5, <2>2, <2>4
<1> QED
  BY <1>3, <1>5, <1>6 DEF h

\* What a write leaves in the payload.
LEMMA AppendShape ==
  ASSUME StoreShape, spoken \in Nat, spoken' \in Nat, spoken <= spoken',
         NEW rs, rs \subseteq RecordOf(spoken'), Append_messages(rs)
  PROVE  StoreShape'
<1>1. /\ store' = Written(rs)
      /\ gone' = gone \cup {store[i].n : i \in {i \in DOMAIN store : Written(rs)[i].n # store[i].n}}
  BY DEF Append_messages
<1>2. DOMAIN Written(rs) = DOMAIN store \cup {r.idx : r \in rs}
  BY DEF Written
<1>3. \A r \in rs : r.idx \in 0 .. spoken' /\ r.msg \in MessageOf(spoken')
  BY DEF RecordOf
<1>4. DOMAIN store \subseteq 0 .. spoken' /\ \A i \in DOMAIN store : store[i] \in MessageOf(spoken')
  BY MessagesGrow DEF StoreShape
<1>5. DOMAIN store' \subseteq 0 .. spoken'
  BY <1>1, <1>2, <1>3, <1>4
<1>6. ASSUME NEW i \in DOMAIN store' PROVE store'[i] \in MessageOf(spoken')
  <2> DEFINE w == CHOOSE r \in rs : r.idx = i
  <2>1. store'[i] = IF \E r \in rs : r.idx = i THEN w.msg ELSE store[i]
    BY <1>1, <1>2, <1>6 DEF Written
  <2>2. CASE \E r \in rs : r.idx = i
    <3>1. w \in rs
      BY <2>2
    <3> QED
      BY <1>3, <2>1, <2>2, <3>1
  <2>3. CASE ~ \E r \in rs : r.idx = i
    <3>1. i \in DOMAIN store
      BY <1>1, <1>2, <2>3
    <3> QED
      BY <1>4, <2>1, <2>3, <3>1
  <2> QED
    BY <2>2, <2>3
<1>7. gone' \subseteq 0 .. spoken'
  <2>1. \A i \in DOMAIN store : store[i].n \in 0 .. spoken'
    BY <1>4 DEF MessageOf
  <2>2. gone \subseteq 0 .. spoken'
    BY DEF StoreShape
  <2> QED
    BY <1>1, <2>1, <2>2
<1> QED
  BY <1>5, <1>6, <1>7 DEF StoreShape

LEMMA FlushShape ==
  ASSUME StoreShape, CountShape, spoken \in Nat, spoken' \in Nat, spoken <= spoken',
         NEW rs, rs \subseteq RecordOf(spoken'), Flush_messages(rs)
  PROVE  /\ StoreShape' /\ trouble' \in 0 .. MaxTrouble /\ skipped' \in BOOLEAN
         /\ ~skipped' => ~skipped /\ Append_messages(rs)
<1>1. PICK bad \in SUBSET rs : /\ Append_messages(rs \ bad)
                               /\ IF bad = {} THEN UNCHANGED <<trouble, skipped>> ELSE Trouble /\ skipped' = TRUE
  BY DEF Flush_messages
<1>2. StoreShape'
  <2>1. rs \ bad \subseteq RecordOf(spoken')
    OBVIOUS
  <2> QED
    BY <1>1, <2>1, AppendShape
<1>3. trouble' \in 0 .. MaxTrouble /\ skipped' \in BOOLEAN
  <2>1. trouble \in 0 .. MaxTrouble /\ MaxTrouble \in Nat /\ skipped \in BOOLEAN
    BY HistoryAssumption DEF CountShape
  <2>2. CASE bad = {}
    BY <1>1, <2>1, <2>2
  <2>3. CASE bad # {}
    <3>1. trouble < MaxTrouble /\ trouble' = trouble + 1 /\ skipped' = TRUE
      BY <1>1, <2>3 DEF Trouble
    <3> QED
      BY <2>1, <3>1
  <2> QED
    BY <2>2, <2>3
<1>4. ASSUME ~skipped' PROVE ~skipped /\ Append_messages(rs)
  <2>1. bad = {} /\ rs \ {} = rs
    BY <1>1, <1>4
  <2> QED
    BY <1>1, <1>4, <2>1
<1> QED
  BY <1>2, <1>3, <1>4

\* The vector and the batch grow together.
LEMMA InStepGrows ==
  ASSUME NEW n, messages \in Seq(MessageOf(n)), NEW k, pending \in Seq(RecordOf(k)), NEW c \in Nat,
         InStep(messages, pending, store, c),
         NEW m, \A j \in 1 .. Len(messages) : messages[j].n < m.n
  PROVE  InStep(Append(messages, m), Append(pending, [idx |-> Len(messages), msg |-> m]), store, c)
<1> DEFINE rec == [idx |-> Len(messages), msg |-> m]
           ms == Append(messages, m)
           ps == Append(pending, rec)
<1>1. /\ Len(messages) \in Nat /\ Len(pending) \in Nat /\ Len(messages) = c + Len(pending)
      /\ rec.idx = Len(messages) /\ rec.msg = m
  BY DEF InStep
<1> HIDE DEF rec
<1>2. /\ Len(ms) = Len(messages) + 1 /\ ms[Len(messages) + 1] = m
      /\ \A i \in 1 .. Len(messages) : ms[i] = messages[i]
  OBVIOUS
<1>3. /\ Len(ps) = Len(pending) + 1 /\ ps[Len(pending) + 1] = rec
      /\ \A i \in 1 .. Len(pending) : ps[i] = pending[i]
  OBVIOUS
<1> HIDE DEF ms, ps
<1>4. \A i \in 0 .. c - 1 : ms[i + 1].n = store[i].n
  <2> SUFFICES ASSUME NEW i \in 0 .. c - 1 PROVE ms[i + 1].n = store[i].n
    OBVIOUS
  <2>1. i + 1 \in 1 .. Len(messages) /\ messages[i + 1].n = store[i].n
    BY <1>1 DEF InStep
  <2> QED
    BY <1>2, <2>1
<1>5. ASSUME NEW j \in 1 .. Len(ps) PROVE ps[j].idx = c + j - 1 /\ ps[j].msg.n = ms[c + j].n
  <2>1. CASE j \in 1 .. Len(pending)
    <3>1. pending[j].idx = c + j - 1 /\ pending[j].msg.n = messages[c + j].n /\ c + j \in 1 .. Len(messages)
      BY <1>1, <2>1 DEF InStep
    <3> QED
      BY <1>2, <1>3, <2>1, <3>1
  <2>2. CASE j = Len(pending) + 1
    BY <1>1, <1>2, <1>3, <2>2
  <2> QED
    BY <1>1, <1>3, <2>1, <2>2
<1>6. ASSUME NEW i \in 1 .. Len(ms), NEW j \in 1 .. Len(ms), i < j PROVE ms[i].n < ms[j].n
  <2>1. i \in 1 .. Len(messages) /\ (j \in 1 .. Len(messages) \/ j = Len(messages) + 1)
    <3>1. Len(messages) \in Nat /\ i \in 1 .. Len(messages) + 1 /\ j \in 1 .. Len(messages) + 1
      BY <1>1, <1>2
    <3> QED
      BY <1>6, <3>1
  <2>2. CASE j \in 1 .. Len(messages)
    <3>1. messages[i].n < messages[j].n
      BY <1>6, <2>1, <2>2 DEF InStep
    <3> QED
      BY <1>2, <2>1, <2>2, <3>1
  <2>3. CASE j = Len(messages) + 1
    BY <1>2, <2>1, <2>3
  <2> QED
    BY <2>1, <2>2, <2>3
<1>7. Len(ms) = c + Len(ps)
  BY <1>1, <1>2, <1>3
<1> QED
  BY <1>4, <1>5, <1>6, <1>7 DEF InStep, ms, ps, rec

\* A batch that is written in full.
LEMMA StoredGrows ==
  ASSUME NEW n \in Nat, NEW c \in Nat, NEW k, NEW ps \in Seq(RecordOf(k)), NEW ms \in Seq(MessageOf(n)),
         Stored(store, c), InStep(ms, ps, store, c), gone = {}, Append_messages(Range(ps))
  PROVE  /\ gone' = {} /\ c + Len(ps) \in Nat /\ Stored(store', c + Len(ps))
         /\ InStep(ms, << >>, store', c + Len(ps))
<1> DEFINE d == c + Len(ps)
<1>1. /\ Len(ps) \in Nat /\ Len(ms) = d /\ d \in Nat /\ DOMAIN ps = 1 .. Len(ps)
      /\ \A j \in 1 .. Len(ps) : ps[j].idx = c + j - 1 /\ ps[j].msg.n = ms[c + j].n
      /\ \A i, j \in 1 .. d : i < j => ms[i].n < ms[j].n
  <2>1. Len(ps) \in Nat /\ DOMAIN ps = 1 .. Len(ps)
    OBVIOUS
  <2>2. Len(ms) = d /\ d \in Nat
    BY <2>1 DEF InStep
  <2> QED
    BY <2>1, <2>2 DEF InStep
<1>2. DOMAIN store = 0 .. c - 1 /\ \A i \in 0 .. c - 1 : ms[i + 1].n = store[i].n
  BY DEF Stored, InStep
<1>3. store' = Written(Range(ps))
  BY DEF Append_messages
<1>4. /\ \A r \in Range(ps) : \E j \in 1 .. Len(ps) : r = ps[j]
      /\ \A j \in 1 .. Len(ps) : ps[j] \in Range(ps)
  BY <1>1 DEF Range
<1> HIDE DEF d
<1>5. DOMAIN store' = 0 .. d - 1
  <2>1. {r.idx : r \in Range(ps)} = c .. d - 1
    <3>1. ASSUME NEW r \in Range(ps) PROVE r.idx \in c .. d - 1
      BY <1>1, <1>4 DEF d
    <3>2. ASSUME NEW i \in c .. d - 1 PROVE \E r \in Range(ps) : r.idx = i
      <4>1. i - c + 1 \in 1 .. Len(ps)
        BY <1>1 DEF d
      <4>2. ps[i - c + 1] \in Range(ps) /\ ps[i - c + 1].idx = c + (i - c + 1) - 1
        BY <1>1, <1>4, <4>1
      <4>3. ps[i - c + 1].idx = i
        BY <4>2
      <4> QED
        BY <4>2, <4>3
    <3> QED
      BY <3>1, <3>2
  <2>2. 0 .. d - 1 = (0 .. c - 1) \cup (c .. d - 1)
    BY <1>1 DEF d
  <2> QED
    BY <1>2, <1>3, <2>1, <2>2 DEF Written
<1>6. \A i \in 0 .. c - 1 : store'[i] = store[i]
  <2> SUFFICES ASSUME NEW i \in 0 .. c - 1 PROVE store'[i] = store[i]
    OBVIOUS
  <2>1. ~ \E r \in Range(ps) : r.idx = i
    <3> SUFFICES ASSUME NEW r \in Range(ps), r.idx = i PROVE FALSE
      OBVIOUS
    <3>1. PICK j \in 1 .. Len(ps) : r = ps[j]
      BY <1>4
    <3> QED
      BY <1>1, <3>1
  <2> QED
    BY <1>2, <1>3, <2>1 DEF Written
<1>7. \A i \in 0 .. d - 1 : store'[i].n = ms[i + 1].n
  <2> SUFFICES ASSUME NEW i \in 0 .. d - 1 PROVE store'[i].n = ms[i + 1].n
    OBVIOUS
  <2>1. CASE i < c
    BY <1>2, <1>6, <2>1
  <2>2. CASE i >= c
    <3> DEFINE w == CHOOSE r \in Range(ps) : r.idx = i
    <3>1. i - c + 1 \in 1 .. Len(ps)
      BY <1>1, <2>2 DEF d
    <3>2. ps[i - c + 1] \in Range(ps) /\ ps[i - c + 1].idx = c + (i - c + 1) - 1
      BY <1>1, <1>4, <3>1
    <3>3. ps[i - c + 1].idx = i
      BY <3>2
    <3>4. w \in Range(ps) /\ w.idx = i
      BY <3>2, <3>3
    <3>5. store'[i] = w.msg
      BY <1>3, <1>5, <3>4 DEF Written
    <3>6. PICK j \in 1 .. Len(ps) : w = ps[j]
      BY <1>4, <3>4
    <3> HIDE DEF w
    <3>7. j = i - c + 1 /\ c + j = i + 1
      BY <1>1, <3>4, <3>6
    <3> QED
      BY <1>1, <3>5, <3>6, <3>7
  <2> QED
    BY <2>1, <2>2
<1>8. gone' = {}
  <2>1. gone' = {} \cup {store[i].n : i \in {i \in DOMAIN store : store'[i].n # store[i].n}}
    BY <1>3 DEF Append_messages
  <2>2. {i \in DOMAIN store : store'[i].n # store[i].n} = {}
    BY <1>2, <1>6
  <2> QED
    BY <2>1, <2>2
<1>9. Stored(store', d)
  <2>1. \A i, j \in 0 .. d - 1 : i < j => store'[i].n < store'[j].n
    BY <1>1, <1>7
  <2> QED
    BY <1>5, <2>1 DEF Stored
<1>10. InStep(ms, << >>, store', d)
  <2>1. Len(<< >>) = 0 /\ 1 .. 0 = {} /\ Len(ms) = d + 0
    BY <1>1
  <2>2. \A i \in 0 .. d - 1 : ms[i + 1].n = store'[i].n
    BY <1>7
  <2>3. \A j, l \in 1 .. Len(ms) : j < l => ms[j].n < ms[l].n
    BY <1>1
  <2> QED
    BY <2>1, <2>2, <2>3 DEF InStep
<1> QED
  BY <1>1, <1>8, <1>9, <1>10 DEF d

\* The end of a turn leaves the records.
LEMMA TurnEnds ==
  ASSUME EndTurn, CountShape, spoken' \in Nat
  PROVE  /\ mode' = mode => VectorShape'
         /\ Paired'
         /\ ~skipped' /\ gone' = {} /\ (\E c \in Nat : Stored(store', c)) => Straight'
         /\ skipped' => Straight'
<1>1. messages' = << >> /\ pending' = << >> /\ phase' = "idle" /\ rejected' = 0
  BY DEF EndTurn
<1>2. << >> \in Seq(MessageOf(spoken')) /\ << >> \in Seq(RecordOf(spoken')) /\ Len(<< >>) = 0 /\ DOMAIN << >> = {}
  OBVIOUS
<1>3. 0 \in 0 .. GuardRetries /\ "idle" \in Phase
  BY HistoryAssumption DEF Phase
<1>4. VectorShape'
  <2>1. \A k \in Nat : 0 <= k + 1
    OBVIOUS
  <2> QED
    BY <1>1, <1>2, <1>3, <2>1 DEF VectorShape
<1>5. Paired'
  BY <1>1, <1>2 DEF Paired
<1> QED
  BY <1>1, <1>4, <1>5 DEF Straight

\* persist_message_with_reasoning, whether it writes, buffers or fails.
LEMMA PersistKeeps ==
  ASSUME StoreShape, VectorShape, CountShape, Straight, phase # "idle",
         NEW next \in Phase \ {"idle", "open"}, spoken' \in Nat, spoken <= spoken', spoken' <= MaxMessages,
         NEW m \in MessageOf(spoken'), Len(messages) <= spoken',
         \A j \in 1 .. Len(messages) : messages[j].n < m.n,
         Persist(m, next)
  PROVE  /\ StoreShape' /\ VectorShape' /\ CountShape' /\ Straight'
         /\ EndTurn \/ (messages' = Append(messages, m) /\ phase' = next)
<1> DEFINE rec == [idx |-> Len(messages), msg |-> m]
           buffered == Append(pending, rec)
           grown == Append(messages, m)
           GoesOn == messages' = grown /\ phase' = next /\ UNCHANGED rejected
<1>1. /\ UNCHANGED <<mode, crashed, report>>
      /\ \/ /\ mode = "every_message"
            /\ Append_messages({rec}) /\ GoesOn
            /\ UNCHANGED <<pending, trouble, skipped>>
         \/ /\ mode = "every_message"
            /\ Trouble /\ EndTurn
            /\ Append_messages({rec}) \/ UNCHANGED recordVars
            /\ UNCHANGED skipped
         \/ /\ Flush_messages(Range(buffered)) /\ GoesOn
            /\ pending' = << >>
         \/ /\ mode # "every_message"
            /\ pending' = buffered /\ GoesOn
            /\ UNCHANGED <<recordVars, trouble, skipped>>
  BY DEF Persist, NextIndex
<1>2. /\ messages \in Seq(MessageOf(spoken)) /\ pending \in Seq(RecordOf(spoken))
      /\ (mode = "every_message" => pending = << >>) /\ Len(messages) \in Nat
      /\ rejected \in 0 .. GuardRetries /\ spoken \in Nat
  BY HistoryAssumption DEF VectorShape, CountShape
<1>3. rec \in RecordOf(spoken')
  BY <1>2 DEF RecordOf
<1>4. grown \in Seq(MessageOf(spoken')) /\ buffered \in Seq(RecordOf(spoken')) /\ pending \in Seq(RecordOf(spoken'))
      /\ Len(grown) <= spoken' + 1
  <2>1. messages \in Seq(MessageOf(spoken')) /\ pending \in Seq(RecordOf(spoken'))
    BY <1>2, MessagesGrow
  <2> HIDE DEF rec
  <2>2. grown \in Seq(MessageOf(spoken')) /\ buffered \in Seq(RecordOf(spoken')) /\ Len(grown) = Len(messages) + 1
    BY <1>3, <2>1
  <2> QED
    BY <1>2, <2>1, <2>2
<1>5. Range(buffered) \subseteq RecordOf(spoken') /\ (pending = << >> => Range(buffered) = {rec})
  <2> HIDE DEF rec
  <2>1. \A j \in DOMAIN buffered : buffered[j] \in RecordOf(spoken')
    BY <1>4
  <2>2. ASSUME pending = << >> PROVE DOMAIN buffered = {1} /\ buffered[1] = rec
    BY <2>2
  <2> QED
    BY <2>1, <2>2 DEF Range
<1>6. ASSUME ~skipped
      PROVE  \E c \in Nat : Stored(store, c) /\ InStep(grown, buffered, store, c)
  <2>1. PICK c \in Nat : Stored(store, c) /\ InStep(messages, pending, store, c)
    BY <1>6 DEF Straight
  <2>2. InStep(grown, buffered, store, c)
    BY <1>2, <2>1, InStepGrows
  <2> QED
    BY <2>1, <2>2
<1>7. ASSUME ~skipped, Append_messages(Range(buffered))
      PROVE  \E c \in Nat : gone' = {} /\ Stored(store', c) /\ InStep(grown, << >>, store', c)
  <2>1. PICK c \in Nat : Stored(store, c) /\ InStep(grown, buffered, store, c)
    BY <1>6, <1>7
  <2>2. gone = {}
    BY <1>7 DEF Straight
  <2> HIDE DEF grown, buffered
  <2>3. /\ gone' = {} /\ c + Len(buffered) \in Nat /\ Stored(store', c + Len(buffered))
        /\ InStep(grown, << >>, store', c + Len(buffered))
    BY <1>4, <1>7, <2>1, <2>2, StoredGrows
  <2> QED
    BY <2>3
<1>8. << >> \in Seq(RecordOf(spoken')) /\ next \in Phase /\ next \notin {"idle", "open"}
  OBVIOUS
<1>9. ASSUME GoesOn, pending' \in {<< >>, buffered}, mode = "every_message" => pending' = << >>
      PROVE  VectorShape'
  BY <1>1, <1>2, <1>4, <1>8, <1>9 DEF VectorShape
<1>10. ASSUME trouble' \in 0 .. MaxTrouble, skipped' \in BOOLEAN PROVE CountShape'
  BY <1>1, <1>10, HistoryAssumption DEF CountShape
<1> HIDE DEF grown, buffered, rec
<1>11. CASE /\ mode = "every_message"
            /\ Append_messages({rec}) /\ GoesOn
            /\ UNCHANGED <<pending, trouble, skipped>>
  <2>1. pending = << >> /\ Append_messages(Range(buffered))
    BY <1>2, <1>5, <1>11
  <2>2. StoreShape'
    BY <1>2, <1>5, <2>1, AppendShape
  <2>3. VectorShape' /\ CountShape'
    BY <1>9, <1>10, <1>11, <2>1 DEF CountShape
  <2>4. Straight'
    BY <1>7, <1>11, <2>1 DEF Straight
  <2> QED
    BY <1>11, <2>2, <2>3, <2>4 DEF grown
<1>12. CASE /\ mode = "every_message"
            /\ Trouble /\ EndTurn
            /\ Append_messages({rec}) \/ UNCHANGED recordVars
            /\ UNCHANGED skipped
  <2>1. pending = << >>
    BY <1>2, <1>12
  <2>2. StoreShape'
    <3>1. CASE Append_messages({rec})
      BY <1>2, <1>5, <2>1, <3>1, AppendShape
    <3>2. CASE UNCHANGED recordVars
      <4>1. store' = store /\ gone' = gone
        BY <3>2 DEF recordVars
      <4>2. MessageOf(spoken) \subseteq MessageOf(spoken')
        BY <1>2, MessagesGrow
      <4>3. 0 .. spoken \subseteq 0 .. spoken'
        BY <1>2
      <4> QED
        BY <4>1, <4>2, <4>3 DEF StoreShape
    <3> QED
      BY <1>12, <3>1, <3>2
  <2>3. CountShape'
    <3>1. trouble' \in 0 .. MaxTrouble /\ skipped' \in BOOLEAN
      BY <1>12, HistoryAssumption DEF CountShape, Trouble
    <3> QED
      BY <1>10, <3>1
  <2>4. VectorShape'
    BY <1>1, <1>12, TurnEnds
  <2>5. ASSUME ~skipped' PROVE gone' = {} /\ \E c \in Nat : Stored(store', c)
    <3>1. ~skipped
      BY <1>12, <2>5
    <3>2. CASE Append_messages({rec})
      BY <1>5, <1>7, <2>1, <3>1, <3>2
    <3>3. CASE UNCHANGED recordVars
      BY <3>1, <3>3 DEF recordVars, Straight
    <3> QED
      BY <1>12, <3>2, <3>3
  <2>6. Straight'
    BY <1>12, <2>5, TurnEnds
  <2> QED
    BY <1>12, <2>2, <2>3, <2>4, <2>6
<1>13. CASE /\ Flush_messages(Range(buffered)) /\ GoesOn
            /\ pending' = << >>
  <2>1. /\ StoreShape' /\ trouble' \in 0 .. MaxTrouble /\ skipped' \in BOOLEAN
        /\ ~skipped' => ~skipped /\ Append_messages(Range(buffered))
    BY <1>2, <1>5, <1>13, FlushShape
  <2>2. VectorShape' /\ CountShape'
    BY <1>9, <1>10, <1>13, <2>1
  <2>3. Straight'
    BY <1>7, <1>13, <2>1 DEF Straight
  <2> QED
    BY <1>13, <2>1, <2>2, <2>3 DEF grown
<1>14. CASE /\ mode # "every_message"
            /\ pending' = buffered /\ GoesOn
            /\ UNCHANGED <<recordVars, trouble, skipped>>
  <2>1. store' = store /\ gone' = gone
    BY <1>14 DEF recordVars
  <2>2. StoreShape'
    <3>1. MessageOf(spoken) \subseteq MessageOf(spoken') /\ 0 .. spoken \subseteq 0 .. spoken'
      BY <1>2, MessagesGrow
    <3> QED
      BY <2>1, <3>1 DEF StoreShape
  <2>3. VectorShape' /\ CountShape'
    BY <1>9, <1>10, <1>14 DEF CountShape
  <2>4. Straight'
    BY <1>6, <1>14, <2>1 DEF Straight
  <2> QED
    BY <1>14, <2>2, <2>3, <2>4 DEF grown
<1> QED
  BY <1>1, <1>11, <1>12, <1>13, <1>14 DEF buffered, rec, grown

\* A message without calls joins a paired history, or one with calls begins a batch of results.
LEMMA AnsweredGrows ==
  ASSUME NEW k, NEW n, NEW h \in Seq(MessageOf(k)), NEW m \in MessageOf(n)
  PROVE  /\ \A i \in DOMAIN h : Answered(h, i) => Answered(Append(h, m), i)
         /\ m.calls = << >> => Answered(Append(h, m), Len(h) + 1)
         /\ Len(Append(h, m)) = Len(h) + 1 /\ DOMAIN Append(h, m) = 1 .. Len(h) + 1
         /\ \A i \in 1 .. Len(h) : Append(h, m)[i] = h[i]
         /\ Append(h, m)[Len(h) + 1] = m
         /\ DOMAIN h = 1 .. Len(h) /\ Len(h) \in Nat
<1> DEFINE g == Append(h, m)
<1>1. /\ Len(g) = Len(h) + 1 /\ DOMAIN g = 1 .. Len(h) + 1
      /\ \A i \in 1 .. Len(h) : g[i] = h[i]
      /\ g[Len(h) + 1] = m
      /\ DOMAIN h = 1 .. Len(h) /\ Len(h) \in Nat
  OBVIOUS
<1> HIDE DEF g
<1>2. ASSUME NEW i \in DOMAIN h, Answered(h, i) PROVE Answered(g, i)
  <2>1. g[i].calls = h[i].calls
    BY <1>1
  <2>2. ASSUME NEW j \in DOMAIN g[i].calls PROVE i + j \in DOMAIN g /\ g[i + j].role = "tool"
    <3>1. i + j \in DOMAIN h /\ h[i + j].role = "tool"
      BY <1>2, <2>1, <2>2 DEF Answered
    <3>2. i + j \in 1 .. Len(h) /\ 1 .. Len(h) \subseteq 1 .. Len(h) + 1
      BY <1>1, <3>1
    <3> QED
      BY <1>1, <3>1, <3>2
  <2> QED
    BY <2>2 DEF Answered
<1>3. ASSUME m.calls = << >> PROVE Answered(g, Len(h) + 1)
  <2>1. DOMAIN g[Len(h) + 1].calls = {}
    BY <1>1, <1>3
  <2> QED
    BY <2>1 DEF Answered
<1> QED
  BY <1>1, <1>2, <1>3 DEF g

LEMMA PairedGrows ==
  ASSUME VectorShape, Paired, phase # "tools", phase' # "tools", NEW n, NEW m \in MessageOf(n), m.calls = << >>,
         messages' = Append(messages, m)
  PROVE  Paired'
<1>1. messages \in Seq(MessageOf(spoken)) /\ \A i \in DOMAIN messages : Answered(messages, i)
  BY DEF VectorShape, Paired
<1> DEFINE g == Append(messages, m)
<1>2. /\ \A i \in DOMAIN messages : Answered(g, i)
      /\ Answered(g, Len(messages) + 1)
      /\ DOMAIN g = 1 .. Len(messages) + 1 /\ DOMAIN messages = 1 .. Len(messages) /\ Len(messages) \in Nat
  BY <1>1, AnsweredGrows
<1> HIDE DEF g
<1>3. \A i \in DOMAIN g : Answered(g, i)
  BY <1>2
<1> QED
  BY <1>3 DEF Paired, g

LEMMA Successors ==
  \A k \in Nat :
    /\ k + 1 \in Nat /\ k <= k + 1 /\ k + 1 \in 0 .. k + 1 /\ 0 .. k \subseteq 0 .. k + 1
    /\ \A i \in 0 .. k : i < k + 1
    /\ \A l \in Nat : k < l => k + 1 \in 0 .. l /\ k + 1 <= l
OBVIOUS

LEMMA SaidType ==
  ASSUME spoken \in Nat, NEW r \in Role, NEW cs \in Calls, NEW t \in AnsweredTool
  PROVE  /\ Said(r, cs, t) \in MessageOf(spoken + 1) /\ Said(r, cs, t).n = spoken + 1
         /\ Said(r, cs, t).role = r /\ Said(r, cs, t).calls = cs
<1>1. spoken + 1 \in 0 .. spoken + 1
  BY Successors
<1>2. Said(r, cs, t) = [n |-> spoken + 1, role |-> r, calls |-> cs, tool |-> t]
  BY DEF Said
<1> DEFINE x == spoken + 1
<1> HIDE DEF x
<1>3. [n |-> x, role |-> r, calls |-> cs, tool |-> t] \in MessageOf(x)
  BY <1>1 DEF MessageOf, x
<1> QED
  BY <1>2, <1>3 DEF x

\* What the parts say of the numbers in use.
LEMMA NumbersInUse ==
  ASSUME VectorShape, CountShape
  PROVE  /\ spoken \in Nat /\ spoken <= MaxMessages /\ MaxMessages \in Nat
         /\ \A j \in 1 .. Len(messages) : messages[j].n \in 0 .. spoken
         /\ Len(messages) \in Nat /\ DOMAIN messages = 1 .. Len(messages)
<1>1. spoken \in Nat /\ spoken <= MaxMessages /\ MaxMessages \in Nat
  BY HistoryAssumption DEF CountShape
<1>2. messages \in Seq(MessageOf(spoken))
  BY DEF VectorShape
<1>3. \A j \in 1 .. Len(messages) : messages[j] \in MessageOf(spoken)
  BY <1>2
<1>4. \A m \in MessageOf(spoken) : m.n \in 0 .. spoken
  BY DEF MessageOf
<1>5. Len(messages) \in Nat /\ DOMAIN messages = 1 .. Len(messages)
  BY <1>2
<1> QED
  BY <1>1, <1>3, <1>4, <1>5

\* A new message is persisted.
LEMMA SayingKeeps ==
  ASSUME StoreShape, VectorShape, CountShape, Straight, phase \notin {"idle"},
         NEW next \in Phase \ {"idle", "open"}, Make,
         NEW r \in Role, NEW cs \in Calls, NEW t \in AnsweredTool,
         Persist(Said(r, cs, t), next)
  PROVE  /\ StoreShape' /\ VectorShape' /\ CountShape' /\ Straight'
         /\ EndTurn \/ (messages' = Append(messages, Said(r, cs, t)) /\ phase' = next)
<1> DEFINE m == Said(r, cs, t)
<1>1. /\ spoken \in Nat /\ spoken <= MaxMessages /\ MaxMessages \in Nat
      /\ \A j \in 1 .. Len(messages) : messages[j].n \in 0 .. spoken
      /\ Len(messages) \in Nat /\ Len(messages) <= spoken + 1
  BY NumbersInUse DEF VectorShape
<1>2. m \in MessageOf(spoken + 1) /\ m.n = spoken + 1
  BY <1>1, SaidType
<1>3. spoken' = spoken + 1 /\ spoken < MaxMessages
  BY DEF Make
<1>4. /\ spoken' \in Nat /\ spoken <= spoken' /\ spoken' <= MaxMessages
      /\ m \in MessageOf(spoken') /\ Len(messages) <= spoken'
  <2>1. spoken + 1 \in Nat /\ spoken <= spoken + 1 /\ spoken + 1 <= MaxMessages
    BY <1>1, <1>3, Successors
  <2> QED
    BY <1>1, <1>2, <1>3, <2>1
<1> HIDE DEF m
<1>5. \A j \in 1 .. Len(messages) : messages[j].n < m.n
  BY <1>1, <1>2, Successors
<1>6. Persist(m, next)
  BY DEF m
<1>7. /\ StoreShape' /\ VectorShape' /\ CountShape' /\ Straight'
      /\ EndTurn \/ (messages' = Append(messages, m) /\ phase' = next)
  BY <1>4, <1>5, <1>6, PersistKeeps
<1> QED
  BY <1>7 DEF m

LEMMA SayingKeepsPairs ==
  ASSUME HistoryIInv, phase \notin {"idle", "tools"}, NEW next \in Phase \ {"idle", "open", "tools"}, Make,
         NEW r \in Role, NEW t \in AnsweredTool,
         Persist(Said(r, << >>, t), next)
  PROVE  HistoryIInv'
<1>1. StoreShape /\ VectorShape /\ CountShape /\ Straight /\ Paired /\ << >> \in Calls
  BY CallsAreSequences DEF HistoryIInv
<1>2. /\ StoreShape' /\ VectorShape' /\ CountShape' /\ Straight'
      /\ EndTurn \/ (messages' = Append(messages, Said(r, << >>, t)) /\ phase' = next)
  BY <1>1, SayingKeeps
<1>3. CASE EndTurn
  <2>1. spoken' \in 0 .. MaxMessages /\ MaxMessages \in Nat
    BY <1>2, HistoryAssumption DEF CountShape
  <2>2. spoken' \in Nat
    BY <2>1
  <2> QED
    BY <1>1, <1>2, <1>3, <2>2, TurnEnds DEF HistoryIInv
<1>4. CASE messages' = Append(messages, Said(r, << >>, t)) /\ phase' = next
  <2>1. Said(r, << >>, t) \in MessageOf(spoken + 1) /\ Said(r, << >>, t).calls = << >>
    <3>1. spoken \in Nat
      BY <1>1, NumbersInUse
    <3> QED
      BY <1>1, <3>1, SaidType
  <2>2. Paired'
    BY <1>1, <1>4, <2>1, PairedGrows
  <2> QED
    BY <1>2, <2>2 DEF HistoryIInv
<1> QED
  BY <1>2, <1>3, <1>4

LEMMA UnsavedKeeps ==
  ASSUME HistoryIInv, phase \notin {"idle", "open", "tools"}, NEW next \in Phase \ {"idle", "open", "tools"},
         NEW r \in Role, NEW t \in AnsweredTool,
         PushUnsaved(Said(r, << >>, t), next),
         rejected' \in 0 .. GuardRetries, trouble' \in 0 .. MaxTrouble
  PROVE  HistoryIInv'
<1> DEFINE m == Said(r, << >>, t)
<1>1. StoreShape /\ VectorShape /\ CountShape /\ Straight /\ Paired /\ << >> \in Calls
  BY CallsAreSequences DEF HistoryIInv
<1>2. /\ spoken \in Nat /\ spoken <= MaxMessages /\ MaxMessages \in Nat /\ Len(messages) \in Nat
  BY <1>1, NumbersInUse
<1>3. m \in MessageOf(spoken + 1) /\ m.calls = << >>
  BY <1>1, <1>2, SaidType
<1>4. /\ spoken' = spoken + 1 /\ spoken < MaxMessages
      /\ messages' = Append(messages, m) /\ phase' = next /\ skipped' = TRUE
      /\ UNCHANGED <<mode, store, gone, pending, crashed, report>>
  BY DEF PushUnsaved, Make, recordVars
<1> HIDE DEF m
<1>5. /\ MessageOf(spoken) \subseteq MessageOf(spoken') /\ 0 .. spoken \subseteq 0 .. spoken'
      /\ Seq(MessageOf(spoken)) \subseteq Seq(MessageOf(spoken'))
      /\ Seq(RecordOf(spoken)) \subseteq Seq(RecordOf(spoken'))
  <2>1. spoken + 1 \in Nat /\ spoken <= spoken + 1 /\ 0 .. spoken \subseteq 0 .. spoken + 1
    BY <1>2, Successors
  <2>2. MessageOf(spoken) \subseteq MessageOf(spoken + 1)
        /\ Seq(MessageOf(spoken)) \subseteq Seq(MessageOf(spoken + 1))
        /\ Seq(RecordOf(spoken)) \subseteq Seq(RecordOf(spoken + 1))
    BY <1>2, <2>1, MessagesGrow
  <2>3. spoken' = spoken + 1
    BY <1>4
  <2> QED
    BY <2>1, <2>2, <2>3, Zenon
<1>6. StoreShape'
  BY <1>1, <1>4, <1>5 DEF StoreShape
<1>7. VectorShape'
  <2>1. /\ messages \in Seq(MessageOf(spoken')) /\ pending \in Seq(RecordOf(spoken'))
        /\ mode = "every_message" => pending = << >>
        /\ Len(messages) <= spoken + 1 /\ m \in MessageOf(spoken')
    BY <1>1, <1>3, <1>4, <1>5 DEF VectorShape
  <2>2. Len(messages) + 1 <= spoken + 1 + 1
    BY <1>2, <2>1
  <2>3. messages' \in Seq(MessageOf(spoken')) /\ Len(messages') = Len(messages) + 1
    BY <1>4, <2>1
  <2>4. Len(messages') <= spoken' + 1
    BY <1>4, <2>2, <2>3
  <2> QED
    BY <1>4, <2>1, <2>3, <2>4 DEF VectorShape
<1>8. CountShape'
  <2>1. spoken' \in 0 .. MaxMessages
    BY <1>2, <1>4, Successors
  <2> QED
    BY <1>1, <1>4, <2>1 DEF CountShape
<1>9. Straight'
  BY <1>4 DEF Straight
<1>10. Paired'
  BY <1>1, <1>3, <1>4, PairedGrows
<1> QED
  BY <1>6, <1>7, <1>8, <1>9, <1>10 DEF HistoryIInv

\* A turn begins with what has been stored, mended.
LEMMA LoadingKeeps ==
  ASSUME StoreShape, CountShape
  PROVE  /\ Sanitize(LoadMessages) \in Seq(MessageOf(spoken)) /\ Len(Sanitize(LoadMessages)) <= spoken + 1
         /\ \A i \in 1 .. Len(Sanitize(LoadMessages)) : Answered(Sanitize(LoadMessages), i)
         /\ \A c \in Nat : Stored(store, c) => InStep(Sanitize(LoadMessages), << >>, store, c)
<1> DEFINE l == LoadMessages
           h == Sanitize(l)
<1>1. spoken \in Nat
  BY HistoryAssumption DEF CountShape
<1>2. /\ l \in Seq(MessageOf(spoken)) /\ Len(l) <= spoken + 1
      /\ \A c \in Nat : DOMAIN store = 0 .. c - 1 => Len(l) = c /\ \A k \in 1 .. c : l[k] = store[k - 1]
  BY <1>1, LoadIsStored
<1> HIDE DEF l
<1>3. /\ h \in Seq(MessageOf(spoken)) /\ Len(h) = Len(l)
      /\ \A i \in 1 .. Len(l) : h[i].n = l[i].n
      /\ \A i \in 1 .. Len(l) : Answered(h, i)
  BY <1>1, <1>2, SanitizeIsPaired
<1> HIDE DEF h
<1>4. ASSUME NEW c \in Nat, Stored(store, c) PROVE InStep(h, << >>, store, c)
  <2>1. DOMAIN store = 0 .. c - 1 /\ \A i, j \in 0 .. c - 1 : i < j => store[i].n < store[j].n
    BY <1>4 DEF Stored
  <2>2. Len(h) = c /\ \A k \in 1 .. c : h[k].n = store[k - 1].n
    BY <1>2, <1>3, <2>1
  <2>3. \A i \in 0 .. c - 1 : h[i + 1].n = store[i].n
    <3> SUFFICES ASSUME NEW i \in 0 .. c - 1 PROVE h[i + 1].n = store[i].n
      OBVIOUS
    <3>1. i + 1 \in 1 .. c /\ (i + 1) - 1 = i
      OBVIOUS
    <3> QED
      BY <2>2, <3>1
  <2>4. ASSUME NEW j \in 1 .. c, NEW k \in 1 .. c, j < k PROVE h[j].n < h[k].n
    <3>1. j - 1 \in 0 .. c - 1 /\ k - 1 \in 0 .. c - 1 /\ j - 1 < k - 1
      BY <2>4
    <3>2. store[j - 1].n < store[k - 1].n
      BY <2>1, <3>1
    <3> QED
      BY <2>2, <3>2
  <2>5. Len(<< >>) = 0 /\ 1 .. 0 = {} /\ c = c + 0
    OBVIOUS
  <2> QED
    BY <2>2, <2>3, <2>4, <2>5 DEF InStep
<1> QED
  BY <1>2, <1>3, <1>4 DEF l, h

LEMMA StartTurnKeeps == HistoryIInv /\ StartTurn => HistoryIInv'
<1> SUFFICES ASSUME HistoryIInv, StartTurn PROVE HistoryIInv'
  OBVIOUS
<1> DEFINE h == Sanitize(LoadMessages)
<1>1. StoreShape /\ VectorShape /\ CountShape /\ Straight /\ Paired
  BY DEF HistoryIInv
<1>2. /\ phase = "idle"
      /\ \/ messages' = h /\ UNCHANGED <<trouble, skipped>>
         \/ Trouble /\ messages' = << >> /\ skipped' = TRUE
      /\ phase' = IF messages' = << >> THEN "open" ELSE "ask"
      /\ crashed' = FALSE /\ report' = 0
      /\ UNCHANGED <<mode, store, gone, pending, rejected, spoken>>
  BY DEF StartTurn, recordVars
<1>3. /\ h \in Seq(MessageOf(spoken)) /\ Len(h) <= spoken + 1
      /\ \A i \in 1 .. Len(h) : Answered(h, i)
      /\ \A c \in Nat : Stored(store, c) => InStep(h, << >>, store, c)
  BY <1>1, LoadingKeeps
<1>4. pending = << >> /\ << >> \in Seq(MessageOf(spoken)) /\ Len(<< >>) = 0 /\ DOMAIN << >> = {} /\ spoken \in Nat
  BY <1>1, <1>2, HistoryAssumption DEF VectorShape, CountShape
<1> HIDE DEF h
<1>5. StoreShape'
  BY <1>1, <1>2 DEF StoreShape
<1>6. trouble' \in 0 .. MaxTrouble /\ skipped' \in BOOLEAN
  <2>1. trouble \in 0 .. MaxTrouble /\ MaxTrouble \in Nat /\ skipped \in BOOLEAN
    BY <1>1, HistoryAssumption DEF CountShape
  <2>2. Trouble => trouble' \in 0 .. MaxTrouble
    BY <2>1 DEF Trouble
  <2> QED
    BY <1>2, <2>1, <2>2
<1>7. CountShape'
  BY <1>1, <1>2, <1>6 DEF CountShape
<1>8. messages' \in Seq(MessageOf(spoken)) /\ Len(messages') <= spoken + 1 /\ \A i \in DOMAIN messages' : Answered(messages', i)
  <2>1. CASE messages' = h
    BY <1>3, <2>1
  <2>2. CASE messages' = << >>
    BY <1>4, <2>2
  <2> QED
    BY <1>2, <2>1, <2>2
<1>9. phase' \in Phase /\ phase' \notin {"idle", "tools"} /\ (phase' = "open" => messages' = << >>)
  BY <1>2 DEF Phase
<1>10. VectorShape'
  BY <1>1, <1>2, <1>4, <1>8, <1>9 DEF VectorShape
<1>11. Paired'
  BY <1>8, <1>9 DEF Paired
<1>12. Straight'
  <2> SUFFICES ASSUME ~skipped' PROVE gone' = {} /\ \E c \in Nat : Stored(store', c) /\ InStep(messages', pending', store', c)
    BY DEF Straight
  <2>1. ~skipped /\ messages' = h
    BY <1>2
  <2>2. gone = {} /\ \E c \in Nat : Stored(store, c)
    BY <1>1, <2>1 DEF Straight
  <2> QED
    BY <1>2, <1>3, <1>4, <2>1, <2>2
<1> QED
  BY <1>5, <1>7, <1>10, <1>11, <1>12 DEF HistoryIInv

\* resume_crashed finds nothing to repair, because the history has been mended before it looks.
LEMMA ResumeCrashedKeeps == HistoryIInv /\ ResumeCrashed => HistoryIInv'
<1> SUFFICES ASSUME HistoryIInv, ResumeCrashed PROVE HistoryIInv'
  OBVIOUS
<1> DEFINE h == Sanitize(LoadMessages)
           plan == PlanDanglingRepair(h)
           repairs == [k \in DOMAIN plan |->
                         [n |-> spoken + k, role |-> "tool", calls |-> << >>, tool |-> plan[k]]]
           records == [k \in DOMAIN plan |-> [idx |-> Len(h) + k - 1, msg |-> repairs[k]]]
<1>1. StoreShape /\ VectorShape /\ CountShape /\ Straight /\ Paired
  BY DEF HistoryIInv
<1>2. spoken \in Nat
  BY <1>1, HistoryAssumption DEF CountShape
<1>3. /\ h \in Seq(MessageOf(spoken)) /\ Len(h) <= spoken + 1
      /\ \A i \in 1 .. Len(h) : Answered(h, i)
      /\ \A c \in Nat : Stored(store, c) => InStep(h, << >>, store, c)
  BY <1>1, LoadingKeeps
<1>4. plan = << >>
  BY <1>2, <1>3, NothingDangles
<1>5. /\ phase = "idle"
      /\ spoken' = spoken + Len(plan) /\ messages' = h \o repairs
      /\ IF mode = "every_message"
         THEN Append_messages(Range(records)) /\ UNCHANGED pending
         ELSE pending' = records /\ UNCHANGED recordVars
      /\ report' = Len(plan) /\ phase' = "wait" /\ crashed' = FALSE
      /\ UNCHANGED <<mode, rejected, trouble, skipped>>
  BY DEF ResumeCrashed
<1>6. DOMAIN plan = {} /\ Len(plan) = 0 /\ repairs = << >> /\ records = << >> /\ Range(records) = {}
  <2>1. DOMAIN plan = {} /\ Len(plan) = 0
    BY <1>4
  <2>2. repairs = << >> /\ records = << >>
    BY <2>1
  <2>3. Range(records) = {}
    BY <2>1 DEF Range
  <2> QED
    BY <2>1, <2>2, <2>3
<1> HIDE DEF h, plan, repairs, records
<1>7. messages' = h /\ spoken' = spoken /\ report' = 0
  BY <1>2, <1>3, <1>5, <1>6
<1>8. /\ pending' = << >> /\ gone' = gone
      /\ DOMAIN store' = DOMAIN store /\ \A i \in DOMAIN store : store'[i] = store[i]
  <2>1. CASE mode = "every_message"
    <3>1. pending' = << >> /\ Append_messages({})
      BY <1>1, <1>5, <1>6, <2>1 DEF VectorShape
    <3>2. DOMAIN Written({}) = DOMAIN store /\ \A i \in DOMAIN store : Written({})[i] = store[i]
      BY DEF Written
    <3>3. store' = Written({})
          /\ gone' = gone \cup {store[i].n : i \in {i \in DOMAIN store : Written({})[i].n # store[i].n}}
      BY <3>1 DEF Append_messages
    <3>4. {i \in DOMAIN store : Written({})[i].n # store[i].n} = {}
      BY <3>2
    <3>5. gone' = gone
      BY <3>3, <3>4
    <3> QED
      BY <3>1, <3>2, <3>3, <3>5
  <2>2. CASE mode # "every_message"
    BY <1>5, <1>6, <2>2 DEF recordVars
  <2> QED
    BY <2>1, <2>2
<1>9. StoreShape'
  BY <1>1, <1>7, <1>8 DEF StoreShape
<1>10. CountShape'
  <2>1. 0 \in Nat /\ FALSE \in BOOLEAN
    OBVIOUS
  <2> QED
    BY <1>1, <1>5, <1>7, <2>1 DEF CountShape
<1>11. VectorShape'
  <2>1. << >> \in Seq(RecordOf(spoken)) /\ "wait" \in Phase
    BY DEF Phase
  <2> QED
    BY <1>1, <1>3, <1>5, <1>7, <1>8, <2>1 DEF VectorShape
<1>12. Paired'
  <2>1. \A i \in DOMAIN h : Answered(h, i)
    BY <1>3
  <2> QED
    BY <1>5, <1>7, <2>1 DEF Paired
<1>13. Straight'
  <2> SUFFICES ASSUME ~skipped' PROVE gone' = {} /\ \E c \in Nat : Stored(store', c) /\ InStep(messages', pending', store', c)
    BY DEF Straight
  <2>1. PICK c \in Nat : gone = {} /\ Stored(store, c)
    BY <1>1, <1>5 DEF Straight
  <2>2. InStep(h, << >>, store, c)
    BY <1>3, <2>1
  <2>3. Stored(store', c)
    BY <1>8, <2>1 DEF Stored
  <2>4. InStep(h, << >>, store', c)
    <3>1. DOMAIN store = 0 .. c - 1
      BY <2>1 DEF Stored
    <3> QED
      BY <1>8, <2>2, <3>1 DEF InStep
  <2> QED
    BY <1>7, <1>8, <2>1, <2>3, <2>4
<1> QED
  BY <1>9, <1>10, <1>11, <1>12, <1>13 DEF HistoryIInv

\* BeginRound and FinalAccepted, the ends of a turn.
LEMMA RoundKeeps == HistoryIInv /\ (BeginRound \/ FinalAccepted) => HistoryIInv'
<1> SUFFICES ASSUME HistoryIInv, BeginRound \/ FinalAccepted PROVE HistoryIInv'
  OBVIOUS
<1>1. StoreShape /\ VectorShape /\ CountShape /\ Straight /\ Paired
  BY DEF HistoryIInv
<1>2. /\ phase \in {"wait", "io", "final"} /\ phase' \in {"llm", "service", "wait"}
      /\ UNCHANGED <<mode, messages, crashed, report, spoken>> /\ rejected' \in {0, rejected}
  BY DEF BeginRound, FinalAccepted
<1>3. /\ spoken \in Nat /\ rejected' \in 0 .. GuardRetries /\ "llm" \in Phase /\ "service" \in Phase /\ "wait" \in Phase
      /\ << >> \in Seq(RecordOf(spoken))
  BY <1>1, <1>2, HistoryAssumption DEF CountShape, VectorShape, Phase
<1>4. Paired'
  BY <1>1, <1>2 DEF Paired, Answered
<1>5. CASE UNCHANGED <<store, gone, pending, trouble, skipped>>
  BY <1>1, <1>2, <1>3, <1>4, <1>5 DEF HistoryIInv, StoreShape, VectorShape, CountShape, Straight
<1>6. CASE Flush_messages(Range(pending)) /\ pending' = << >>
  <2>1. pending \in Seq(RecordOf(spoken))
    BY <1>1 DEF VectorShape
  <2>2. Range(pending) \subseteq RecordOf(spoken)
    BY <2>1 DEF Range
  <2>3. /\ StoreShape' /\ trouble' \in 0 .. MaxTrouble /\ skipped' \in BOOLEAN
        /\ ~skipped' => ~skipped /\ Append_messages(Range(pending))
    <3>1. spoken' \in Nat /\ spoken <= spoken' /\ Range(pending) \subseteq RecordOf(spoken')
      BY <1>2, <1>3, <2>2
    <3> QED
      BY <1>1, <1>3, <1>6, <3>1, FlushShape
  <2>4. VectorShape' /\ CountShape'
    BY <1>1, <1>2, <1>3, <1>6, <2>3 DEF VectorShape, CountShape
  <2>5. Straight'
    <3> SUFFICES ASSUME ~skipped' PROVE gone' = {} /\ \E c \in Nat : Stored(store', c) /\ InStep(messages', pending', store', c)
      BY DEF Straight
    <3>1. PICK c \in Nat : gone = {} /\ Stored(store, c) /\ InStep(messages, pending, store, c)
      BY <1>1, <1>2, <2>3 DEF Straight
    <3>2. messages \in Seq(MessageOf(spoken))
      BY <1>1 DEF VectorShape
    <3>3. /\ gone' = {} /\ c + Len(pending) \in Nat /\ Stored(store', c + Len(pending))
          /\ InStep(messages, << >>, store', c + Len(pending))
      BY <1>3, <2>1, <2>3, <3>1, <3>2, StoredGrows
    <3> QED
      BY <1>2, <1>6, <3>3
  <2> QED
    BY <1>4, <2>3, <2>4, <2>5 DEF HistoryIInv
<1> QED
  BY <1>5, <1>6 DEF BeginRound, FinalAccepted, recordVars

LEMMA EndingKeeps == HistoryIInv /\ (EndFlushed \/ EndBare \/ Dies) => HistoryIInv'
<1> SUFFICES ASSUME HistoryIInv, EndFlushed \/ EndBare \/ Dies PROVE HistoryIInv'
  OBVIOUS
<1>1. StoreShape /\ VectorShape /\ CountShape /\ Straight /\ Paired
  BY DEF HistoryIInv
<1>2. spoken \in Nat /\ MaxTrouble \in Nat
  BY <1>1, HistoryAssumption DEF CountShape
<1>3. EndTurn /\ phase # "idle" /\ UNCHANGED <<mode, report, spoken>> /\ crashed' \in BOOLEAN
  BY <1>1 DEF EndFlushed, EndBare, Dies, CountShape
<1>4. VectorShape' /\ Paired' /\ (skipped' => Straight')
      /\ (~skipped' /\ gone' = {} /\ (\E c \in Nat : Stored(store', c)) => Straight')
  <2>1. spoken' \in Nat
    BY <1>2, <1>3
  <2> QED
    BY <1>1, <1>3, <2>1, TurnEnds
<1>5. CASE EndFlushed
  <2>1. Flush_messages(Range(pending)) /\ pending \in Seq(RecordOf(spoken)) /\ messages \in Seq(MessageOf(spoken))
    BY <1>1, <1>5 DEF EndFlushed, VectorShape
  <2>2. Range(pending) \subseteq RecordOf(spoken)
    BY <2>1 DEF Range
  <2>3. /\ StoreShape' /\ trouble' \in 0 .. MaxTrouble /\ skipped' \in BOOLEAN
        /\ ~skipped' => ~skipped /\ Append_messages(Range(pending))
    <3>1. spoken' \in Nat /\ spoken <= spoken' /\ Range(pending) \subseteq RecordOf(spoken')
      BY <1>2, <1>3, <2>2
    <3> QED
      BY <1>1, <1>2, <2>1, <3>1, FlushShape
  <2>4. CountShape'
    BY <1>1, <1>3, <2>3 DEF CountShape
  <2>5. ASSUME ~skipped' PROVE gone' = {} /\ \E c \in Nat : Stored(store', c)
    <3>1. PICK c \in Nat : gone = {} /\ Stored(store, c) /\ InStep(messages, pending, store, c)
      BY <1>1, <1>3, <2>3, <2>5 DEF Straight
    <3>2. gone' = {} /\ c + Len(pending) \in Nat /\ Stored(store', c + Len(pending))
      BY <1>2, <2>1, <2>3, <2>5, <3>1, StoredGrows
    <3> QED
      BY <3>2
  <2>6. Straight'
    BY <1>4, <2>3, <2>5
  <2> QED
    BY <1>4, <2>3, <2>4, <2>6 DEF HistoryIInv
<1>6. CASE EndBare \/ Dies
  <2>1. UNCHANGED <<store, gone, skipped>> /\ (Trouble \/ UNCHANGED trouble)
    BY <1>6 DEF EndBare, Dies, recordVars
  <2>2. StoreShape'
    BY <1>1, <1>3, <2>1 DEF StoreShape
  <2>3. trouble' \in 0 .. MaxTrouble
    <3>1. trouble \in 0 .. MaxTrouble
      BY <1>1 DEF CountShape
    <3> QED
      BY <1>2, <2>1, <3>1 DEF Trouble
  <2>4. CountShape'
    BY <1>1, <1>3, <2>1, <2>3 DEF CountShape
  <2>5. Straight'
    BY <1>1, <1>4, <2>1 DEF Straight
  <2> QED
    BY <1>4, <2>2, <2>4, <2>5 DEF HistoryIInv
<1> QED
  BY <1>5, <1>6

\* The answer of the LLM, with calls.
LEMMA AskingKeeps ==
  ASSUME HistoryIInv, phase = "llm", Make, NEW cs \in Calls, cs # << >>, NEW t \in AnsweredTool,
         Persist(Said("assistant", cs, t), "tools")
  PROVE  HistoryIInv'
<1>1. StoreShape /\ VectorShape /\ CountShape /\ Straight /\ Paired /\ << >> \in Calls
  BY CallsAreSequences DEF HistoryIInv
<1>2. "assistant" \in Role /\ "tools" \in Phase \ {"idle", "open"}
  BY DEF Role, Phase
<1> DEFINE m == Said("assistant", cs, t)
<1>3. /\ StoreShape' /\ VectorShape' /\ CountShape' /\ Straight'
      /\ EndTurn \/ (messages' = Append(messages, m) /\ phase' = "tools")
  BY <1>1, <1>2, SayingKeeps
<1>4. spoken' \in Nat /\ spoken \in Nat
  <2>1. spoken \in 0 .. MaxMessages /\ spoken' \in 0 .. MaxMessages /\ MaxMessages \in Nat
    BY <1>1, <1>3, HistoryAssumption DEF CountShape
  <2> QED
    BY <2>1
<1>5. CASE EndTurn
  BY <1>1, <1>3, <1>4, <1>5, TurnEnds DEF HistoryIInv
<1>6. CASE messages' = Append(messages, m) /\ phase' = "tools"
  <2>1. m \in MessageOf(spoken + 1) /\ m.role = "assistant" /\ m.calls = cs
    BY <1>2, <1>4, SaidType
  <2> HIDE DEF m
  <2>2. messages \in Seq(MessageOf(spoken)) /\ \A i \in DOMAIN messages : Answered(messages, i)
    BY <1>1 DEF VectorShape, Paired
  <2> DEFINE g == Append(messages, m)
             a == Len(messages) + 1
  <2>3. /\ \A i \in DOMAIN messages : Answered(g, i)
        /\ Len(g) = a /\ DOMAIN g = 1 .. a /\ g[a] = m
        /\ DOMAIN messages = 1 .. Len(messages) /\ Len(messages) \in Nat
    BY <2>1, <2>2, AnsweredGrows
  <2>4. Len(cs) \in Nat /\ 0 < Len(cs)
    <3>1. cs \in Seq(ToolName)
      BY CallsAreSequences
    <3> QED
      BY <3>1
  <2> HIDE DEF g
  <2>5. a \in 1 .. a /\ a - a = 0 /\ a + 1 .. a = {} /\ \A i \in 1 .. a : i # a => i \in 1 .. Len(messages)
    <3>1. \A k \in Nat : /\ k + 1 \in 1 .. k + 1 /\ (k + 1) - (k + 1) = 0 /\ (k + 1) + 1 .. k + 1 = {}
                         /\ \A i \in 1 .. k + 1 : i # k + 1 => i \in 1 .. k
      OBVIOUS
    <3> QED
      BY <2>3, <3>1
  <2> HIDE DEF a
  <2>6. Asking(g, a)
    BY <2>1, <2>3, <2>4, <2>5 DEF Asking
  <2>7. Paired'
    BY <1>6, <2>3, <2>5, <2>6 DEF Paired, g
  <2> QED
    BY <1>3, <2>7 DEF HistoryIInv
<1> QED
  BY <1>3, <1>5, <1>6

\* The results come in the order of the calls, right after the message that has them.
LEMMA ToolReturnsKeeps == HistoryIInv /\ ToolReturns => HistoryIInv'
<1> SUFFICES ASSUME HistoryIInv, ToolReturns PROVE HistoryIInv'
  OBVIOUS
<1> DEFINE P(i) == messages[i].role = "assistant" /\ \A j \in i + 1 .. Len(messages) : messages[j].role = "tool"
           asked == CHOOSE i \in DOMAIN messages : P(i)
           k == Len(messages) - asked + 1
           calls == messages[asked].calls
           m == Said("tool", << >>, calls[k])
           next == IF k = Len(calls) THEN "llm" ELSE "tools"
<1>1. StoreShape /\ VectorShape /\ CountShape /\ Straight /\ Paired /\ << >> \in Calls
  BY CallsAreSequences DEF HistoryIInv
<1>2. phase = "tools" /\ Make /\ Persist(m, next)
  BY DEF ToolReturns
<1>3. messages \in Seq(MessageOf(spoken)) /\ DOMAIN messages = 1 .. Len(messages) /\ Len(messages) \in Nat /\ spoken \in Nat
  BY <1>1, NumbersInUse DEF VectorShape
<1>4. PICK a \in DOMAIN messages : Asking(messages, a)
  BY <1>1, <1>2 DEF Paired
<1>5. asked = a
  <2>1. P(a)
    BY <1>4 DEF Asking
  <2>2. asked \in DOMAIN messages /\ P(asked)
    BY <2>1
  <2> HIDE DEF asked
  <2>3. ~(asked < a)
    <3> SUFFICES ASSUME asked < a PROVE FALSE
      OBVIOUS
    <3>1. a \in asked + 1 .. Len(messages)
      BY <1>3, <2>2
    <3> QED
      BY <2>1, <2>2, <3>1
  <2>4. ~(a < asked)
    <3> SUFFICES ASSUME a < asked PROVE FALSE
      OBVIOUS
    <3>1. asked \in a + 1 .. Len(messages)
      BY <1>3, <2>2
    <3> QED
      BY <2>1, <2>2, <3>1
  <2> QED
    BY <1>3, <2>2, <2>3, <2>4
<1> HIDE DEF asked, P
<1>6. calls \in Calls
  <2>1. messages[a] \in MessageOf(spoken)
    BY <1>3
  <2> QED
    BY <1>5, <2>1 DEF MessageOf
<1>7. calls \in Seq(ToolName) /\ DOMAIN calls = 1 .. Len(calls) /\ Len(calls) \in Nat
  BY <1>6, CallsAreSequences
<1>8. /\ k \in 1 .. Len(calls) /\ k = Len(messages) - a + 1
      /\ messages[a].calls = calls
      /\ \A j \in a + 1 .. Len(messages) : messages[j].role = "tool"
      /\ \A i \in DOMAIN messages : i # a => Answered(messages, i)
      /\ messages[a].role = "assistant"
  <2>1. Len(messages) - a < Len(calls) /\ a \in 1 .. Len(messages)
    BY <1>3, <1>4, <1>5 DEF Asking
  <2>2. k \in 1 .. Len(calls) /\ k = Len(messages) - a + 1
    BY <1>3, <1>5, <1>7, <2>1
  <2> QED
    BY <1>4, <1>5, <2>2 DEF Asking
<1>9. calls[k] \in AnsweredTool
  <2>1. calls[k] \in ToolName
    BY <1>7, <1>8
  <2> QED
    BY <2>1 DEF AnsweredTool
<1>10. "tool" \in Role /\ next \in Phase \ {"idle", "open"} /\ phase \notin {"idle"}
  BY <1>2 DEF Role, Phase
<1>11. m \in MessageOf(spoken + 1) /\ m.role = "tool" /\ m.calls = << >>
  BY <1>1, <1>3, <1>9, <1>10, SaidType
<1> HIDE DEF k, calls
<1>12. /\ StoreShape' /\ VectorShape' /\ CountShape' /\ Straight'
       /\ EndTurn \/ (messages' = Append(messages, m) /\ phase' = next)
  BY <1>1, <1>2, <1>9, <1>10, SayingKeeps
<1>13. CASE EndTurn
  <2>1. spoken' \in Nat
    BY <1>12, HistoryAssumption DEF CountShape
  <2> QED
    BY <1>1, <1>12, <1>13, <2>1, TurnEnds DEF HistoryIInv
<1>14. CASE messages' = Append(messages, m) /\ phase' = next
  <2> DEFINE g == Append(messages, m)
  <2> HIDE DEF m
  <2>1. /\ \A i \in DOMAIN messages : Answered(messages, i) => Answered(g, i)
        /\ Answered(g, Len(messages) + 1)
        /\ Len(g) = Len(messages) + 1 /\ DOMAIN g = 1 .. Len(messages) + 1
        /\ \A i \in 1 .. Len(messages) : g[i] = messages[i]
        /\ g[Len(messages) + 1] = m
    BY <1>3, <1>11, AnsweredGrows
  <2> HIDE DEF g
  <2>2. \A i \in DOMAIN g : i # a => Answered(g, i)
    <3> SUFFICES ASSUME NEW i \in DOMAIN g, i # a PROVE Answered(g, i)
      OBVIOUS
    <3>1. i \in DOMAIN messages \/ i = Len(messages) + 1
      BY <1>3, <2>1
    <3> QED
      BY <1>8, <2>1, <3>1
  <2>3. \A j \in a + 1 .. Len(g) : g[j].role = "tool"
    <3> SUFFICES ASSUME NEW j \in a + 1 .. Len(g) PROVE g[j].role = "tool"
      OBVIOUS
    <3>1. (j \in a + 1 .. Len(messages) /\ j \in 1 .. Len(messages)) \/ j = Len(messages) + 1
      BY <1>3, <2>1
    <3> QED
      BY <1>8, <1>11, <2>1, <3>1
  <2>4. g[a] = messages[a] /\ a \in DOMAIN g /\ a \in 1 .. Len(messages)
    BY <1>3, <2>1
  <2>5. CASE k = Len(calls)
    <3>1. Answered(g, a)
      <4> SUFFICES ASSUME NEW j \in DOMAIN calls PROVE a + j \in DOMAIN g /\ g[a + j].role = "tool"
        BY <1>8, <2>4 DEF Answered
      <4>1. a + j \in a + 1 .. Len(messages) + 1 /\ a + j \in 1 .. Len(messages) + 1
        BY <1>3, <1>7, <1>8, <2>4, <2>5
      <4> QED
        BY <2>1, <2>3, <4>1
    <3>2. \A i \in DOMAIN g : Answered(g, i)
      BY <2>2, <3>1
    <3>3. phase' # "tools" /\ messages' = g
      BY <1>14, <2>5 DEF g
    <3>4. Paired'
      BY <3>2, <3>3 DEF Paired
    <3> QED
      BY <1>12, <3>4 DEF HistoryIInv
  <2>6. CASE k # Len(calls)
    <3>1. Len(g) - a < Len(calls)
      BY <1>3, <1>7, <1>8, <2>1, <2>4, <2>6
    <3>2. Asking(g, a)
      BY <1>8, <2>2, <2>3, <2>4, <3>1 DEF Asking
    <3>3. phase' = "tools" /\ messages' = g
      BY <1>14, <2>6 DEF g
    <3>4. Paired'
      BY <2>4, <3>2, <3>3 DEF Paired
    <3> QED
      BY <1>12, <3>4 DEF HistoryIInv
  <2> QED
    BY <2>5, <2>6
<1> QED
  BY <1>12, <1>13, <1>14

LEMMA OpenHistoryKeeps == HistoryIInv /\ OpenHistory => HistoryIInv'
<1> SUFFICES ASSUME HistoryIInv, OpenHistory PROVE HistoryIInv'
  OBVIOUS
<1>1. StoreShape /\ VectorShape /\ CountShape /\ Straight /\ Paired /\ << >> \in Calls
  BY CallsAreSequences DEF HistoryIInv
<1>2. phase = "open" /\ Persist(SystemPrompt, "ask") /\ spoken' = spoken
  BY DEF OpenHistory
<1>3. spoken \in Nat /\ spoken <= MaxMessages /\ messages = << >>
  BY <1>1, <1>2, NumbersInUse DEF VectorShape
<1>4. SystemPrompt \in MessageOf(spoken) /\ SystemPrompt.calls = << >>
  <2>1. 0 \in 0 .. spoken /\ "system" \in Role /\ "" \in AnsweredTool
    BY <1>3 DEF Role, AnsweredTool
  <2> QED
    BY <1>1, <2>1 DEF SystemPrompt, MessageOf
<1>5. "ask" \in Phase \ {"idle", "open"}
  BY DEF Phase
<1>6. /\ spoken' \in Nat /\ spoken <= spoken' /\ spoken' <= MaxMessages /\ SystemPrompt \in MessageOf(spoken')
      /\ Len(messages) <= spoken' /\ 1 .. Len(messages) = {}
  BY <1>2, <1>3, <1>4
<1>7. /\ StoreShape' /\ VectorShape' /\ CountShape' /\ Straight'
      /\ EndTurn \/ (messages' = Append(messages, SystemPrompt) /\ phase' = "ask")
  BY <1>1, <1>2, <1>5, <1>6, PersistKeeps
<1>8. CASE EndTurn
  BY <1>1, <1>6, <1>7, <1>8, TurnEnds DEF HistoryIInv
<1>9. CASE messages' = Append(messages, SystemPrompt) /\ phase' = "ask"
  <2>1. Paired'
    BY <1>1, <1>2, <1>4, <1>9, PairedGrows
  <2> QED
    BY <1>7, <2>1 DEF HistoryIInv
<1> QED
  BY <1>7, <1>8, <1>9

LEMMA HistoryIInvInit == HistoryInit => HistoryIInv
<1> SUFFICES ASSUME HistoryInit PROVE HistoryIInv
  OBVIOUS
<1>1. /\ mode \in PersistMode /\ store = << >> /\ gone = {}
      /\ messages = << >> /\ pending = << >> /\ phase = "idle" /\ rejected = 0
      /\ crashed = FALSE /\ report = 0 /\ spoken = 0 /\ trouble = 0 /\ skipped = FALSE
  BY DEF HistoryInit
<1>2. DOMAIN << >> = {} /\ Len(<< >>) = 0 /\ << >> \in Seq(MessageOf(0)) /\ << >> \in Seq(RecordOf(0))
  OBVIOUS
<1>3. StoreShape /\ Paired /\ "idle" \in Phase
  BY <1>1, <1>2 DEF StoreShape, Paired, Phase
<1>4. VectorShape
  <2>1. 0 <= 0 + 1 /\ 0 \in 0 .. GuardRetries
    BY HistoryAssumption
  <2> QED
    BY <1>1, <1>2, <1>3, <2>1 DEF VectorShape
<1>5. CountShape
  <2>1. 0 \in Nat /\ 0 \in 0 .. MaxMessages /\ 0 \in 0 .. MaxTrouble
    BY HistoryAssumption
  <2> QED
    BY <1>1, <2>1 DEF CountShape
<1>6. Straight
  <2>1. 0 .. 0 - 1 = {} /\ 0 \in Nat
    OBVIOUS
  <2>2. Stored(store, 0)
    BY <1>1, <1>2, <2>1 DEF Stored
  <2> QED
    BY <1>1, <2>1, <2>2 DEF Straight
<1> QED
  BY <1>3, <1>4, <1>5, <1>6 DEF HistoryIInv

LEMMA HistoryInductive == HistoryIInv /\ [HistoryNext]_historyVars => HistoryIInv'
<1> SUFFICES ASSUME HistoryIInv, [HistoryNext]_historyVars PROVE HistoryIInv'
  OBVIOUS
<1>1. "user" \in Role /\ "system" \in Role /\ "assistant" \in Role /\ "tool" \in Role
      /\ "" \in AnsweredTool /\ \A t \in ToolName : t \in AnsweredTool
  BY DEF Role, AnsweredTool
<1>2. \A p \in {"wait", "io", "llm", "final", "fix"} : p \in Phase \ {"idle", "open", "tools"}
  BY DEF Phase
<1>3. CountShape /\ VectorShape
  BY DEF HistoryIInv
<1>4. rejected \in 0 .. GuardRetries /\ trouble \in 0 .. MaxTrouble /\ GuardRetries \in Nat /\ MaxTrouble \in Nat
  BY <1>3, HistoryAssumption DEF CountShape, VectorShape
<1>5. ASSUME PushUser PROVE HistoryIInv'
  <2>1. phase \notin {"idle", "tools"} /\ Make /\ Persist(Said("user", << >>, ""), "wait")
    BY <1>5 DEF PushUser
  <2> QED
    BY <1>1, <1>2, <2>1, SayingKeepsPairs
<1>6. ASSUME SteeringNote PROVE HistoryIInv'
  <2>1. phase \notin {"idle", "open", "tools"} /\ PushUnsaved(Said("user", << >>, ""), "io")
        /\ rejected' = rejected /\ trouble' = trouble
    BY <1>6 DEF SteeringNote
  <2> QED
    BY <1>1, <1>2, <1>4, <2>1, UnsavedKeeps
<1>7. ASSUME LlmAnswers PROVE HistoryIInv'
  <2>1. phase = "llm" /\ phase \notin {"idle", "tools"} /\ Make
    BY <1>7 DEF LlmAnswers
  <2>2. ASSUME NEW cs \in Calls \ {<< >>}, Persist(Said("assistant", cs, ""), "tools") PROVE HistoryIInv'
    <3>1. cs \in Calls /\ cs # << >>
      OBVIOUS
    <3>2. "" \in AnsweredTool
      BY <1>1
    <3> QED
      BY <2>1, <2>2, <3>1, <3>2, AskingKeeps, Zenon
  <2>3. ASSUME NEW next \in {"final", "fix"}, Persist(Said("assistant", << >>, ""), next) PROVE HistoryIInv'
    BY <1>1, <1>2, <2>1, <2>3, SayingKeepsPairs
  <2> QED
    BY <1>7, <2>2, <2>3 DEF LlmAnswers
<1>8. ASSUME PushCorrection PROVE HistoryIInv'
  <2>1. phase \notin {"idle", "tools"} /\ Make /\ Persist(Said("system", << >>, ""), "llm")
    BY <1>8 DEF PushCorrection
  <2> QED
    BY <1>1, <1>2, <2>1, SayingKeepsPairs
<1>9. ASSUME ServiceReturns PROVE HistoryIInv'
  <2>1. phase \notin {"idle", "tools"} /\ Make
    BY <1>9 DEF ServiceReturns
  <2>2. PICK t \in ToolName : Persist(Said("tool", << >>, t), "wait")
    BY <1>9 DEF ServiceReturns
  <2> QED
    BY <1>1, <1>2, <2>1, <2>2, SayingKeepsPairs
<1>10. ASSUME GateRejectUnsaved PROVE HistoryIInv'
  <2>1. phase \notin {"idle", "open", "tools"} /\ Trouble /\ rejected' = rejected
    BY <1>10 DEF GateRejectUnsaved
  <2>2. PICK t \in ToolName : PushUnsaved(Said("tool", << >>, t), "wait")
    BY <1>10 DEF GateRejectUnsaved
  <2>3. trouble' \in 0 .. MaxTrouble
    BY <1>4, <2>1 DEF Trouble
  <2> QED
    BY <1>1, <1>2, <1>4, <2>1, <2>2, <2>3, UnsavedKeeps
<1>11. ASSUME MarkTruncated PROVE HistoryIInv'
  <2>1. phase \notin {"idle", "open", "tools"} /\ PushUnsaved(Said("system", << >>, ""), "final")
        /\ rejected' = rejected /\ trouble' = trouble
    BY <1>11 DEF MarkTruncated
  <2> QED
    BY <1>1, <1>2, <1>4, <2>1, UnsavedKeeps
<1>12. ASSUME GuardRejects PROVE HistoryIInv'
  <2>1. phase \notin {"idle", "open", "tools"} /\ PushUnsaved(Said("user", << >>, ""), "llm") /\ trouble' = trouble
    BY <1>12 DEF GuardRejects
  <2>2. rejected < GuardRetries /\ rejected' = rejected + 1
    BY <1>12 DEF GuardRejects
  <2>3. rejected' \in 0 .. GuardRetries
    BY <1>4, <2>2
  <2> QED
    BY <1>1, <1>2, <1>4, <2>1, <2>3, UnsavedKeeps
<1>13. CASE UNCHANGED historyVars
  <2>1. UNCHANGED <<mode, store, gone, messages, pending, phase, rejected, crashed, report, spoken, trouble, skipped>>
    BY <1>13 DEF historyVars, recordVars, vectorVars
  <2> QED
    BY <2>1 DEF HistoryIInv, StoreShape, VectorShape, CountShape, Straight, Paired
<1> QED
  BY <1>5, <1>6, <1>7, <1>8, <1>9, <1>10, <1>11, <1>12, <1>13, StartTurnKeeps, OpenHistoryKeeps, ResumeCrashedKeeps,
     RoundKeeps, ToolReturnsKeeps, EndingKeeps DEF HistoryNext

LEMMA HistoryIInvIsEnough == HistoryIInv => HistoryInv
<1> SUFFICES ASSUME HistoryIInv PROVE HistoryInv
  OBVIOUS
<1>1. StoreShape /\ VectorShape /\ CountShape /\ Straight /\ Paired
  BY DEF HistoryIInv
<1>2. /\ spoken \in Nat /\ spoken <= MaxMessages /\ MaxMessages \in Nat
      /\ messages \in Seq(MessageOf(spoken)) /\ DOMAIN messages = 1 .. Len(messages) /\ Len(messages) \in Nat
  BY <1>1, NumbersInUse DEF VectorShape
<1>3. MessageOf(spoken) \subseteq Message /\ 0 .. spoken \subseteq 0 .. MaxMessages
      /\ Seq(MessageOf(spoken)) \subseteq Seq(Message)
  <2>1. /\ MessageOf(spoken) \subseteq MessageOf(MaxMessages) /\ 0 .. spoken \subseteq 0 .. MaxMessages
    BY <1>2, MessagesGrow
  <2>2. MessageOf(MaxMessages) = Message
    BY DEF MessageOf, Message, Role, AnsweredTool
  <2> QED
    BY <2>1, <2>2
<1>4. RecordOf(spoken) \subseteq PayloadRecord /\ Seq(RecordOf(spoken)) \subseteq Seq(PayloadRecord)
  <2>1. RecordOf(spoken) \subseteq PayloadRecord
    BY <1>2, <1>3 DEF RecordOf, PayloadRecord
  <2> QED
    BY <2>1
<1>5. HistoryTypeOK
  BY <1>1, <1>3, <1>4 DEF HistoryTypeOK, StoreShape, VectorShape, CountShape
<1>6. RecordsMatch
  <2> SUFFICES ASSUME ~skipped
               PROVE  /\ DOMAIN store = 0 .. Cardinality(DOMAIN store) - 1
                      /\ \A i, j \in DOMAIN store : i < j => store[i].n < store[j].n
                      /\ gone = {}
                      /\ \A k \in DOMAIN messages :
                           \/ k - 1 \in DOMAIN store /\ store[k - 1].n = messages[k].n
                           \/ \E r \in Range(pending) : r.idx = k - 1 /\ r.msg.n = messages[k].n
    BY DEF RecordsMatch
  <2>1. PICK c \in Nat : /\ gone = {} /\ Stored(store, c)
                         /\ phase # "idle" => InStep(messages, pending, store, c)
    BY <1>1 DEF Straight
  <2>2. DOMAIN store = 0 .. c - 1 /\ \A i, j \in 0 .. c - 1 : i < j => store[i].n < store[j].n
    BY <2>1 DEF Stored
  <2>3. Cardinality(0 .. c - 1) = c
    <3>1. 0 \in Int /\ c - 1 \in Int
      OBVIOUS
    <3>2. Cardinality(0 .. c - 1) = IF 0 > c - 1 THEN 0 ELSE c - 1 - 0 + 1
      BY <3>1, FS_Interval
    <3> QED
      BY <3>2
  <2>4. ASSUME NEW k \in DOMAIN messages
        PROVE  \/ k - 1 \in DOMAIN store /\ store[k - 1].n = messages[k].n
               \/ \E r \in Range(pending) : r.idx = k - 1 /\ r.msg.n = messages[k].n
    <3>1. InStep(messages, pending, store, c)
      BY <1>1, <2>1, <2>4 DEF VectorShape
    <3>2. Len(pending) \in Nat /\ DOMAIN pending = 1 .. Len(pending)
      BY <1>1 DEF VectorShape
    <3>3. k \in 1 .. c + Len(pending)
      BY <1>2, <3>1 DEF InStep
    <3>4. CASE k <= c
      <4>1. k - 1 \in 0 .. c - 1 /\ (k - 1) + 1 = k
        BY <3>3, <3>4
      <4>2. messages[(k - 1) + 1].n = store[k - 1].n
        BY <3>1, <4>1 DEF InStep
      <4> QED
        BY <2>2, <4>1, <4>2
    <3>5. CASE k > c
      <4>1. k - c \in 1 .. Len(pending) /\ c + (k - c) - 1 = k - 1 /\ c + (k - c) = k
        BY <3>2, <3>3, <3>5
      <4>2. pending[k - c].idx = k - 1 /\ pending[k - c].msg.n = messages[k].n
        BY <3>1, <4>1 DEF InStep
      <4>3. pending[k - c] \in Range(pending)
        BY <3>2, <4>1 DEF Range
      <4> QED
        BY <4>2, <4>3
    <3> QED
      BY <3>3, <3>4, <3>5
  <2> QED
    BY <2>1, <2>2, <2>3, <2>4
<1>7. CallsAnswered
  BY <1>1 DEF CallsAnswered, Paired, Unanswered
<1> QED
  BY <1>5, <1>6, <1>7 DEF HistoryInv

\* As long as nothing was skipped, the records of a session are its messages in the order in which they
\* were spoken, no index is taken twice, and the running turn's vector is in step with them; and no call
\* is sent to the LLM without its result (load_messages_from_payload, sanitize_tool_pairing,
\* persist_message_with_reasoning, flush_messages): over any crashes, failed writes and loads.
THEOREM HistoryIsKept == HistorySpec => []HistoryInv
<1> QED
  BY HistoryIInvInit, HistoryInductive, HistoryIInvIsEnough, PTL DEF HistorySpec

(***************************************************************************)
(* The memory, for any managers, keys, events and contents and any         *)
(* outages of the engine.  A fact that is counted is a version of an event *)
(* that is in the table, and no LexStore is ahead of the table.            *)
(***************************************************************************)
TableShape ==
  /\ session \in [Manager -> Seq(SessionFact)] /\ \A m \in Manager : Len(session[m]) <= MaxFacts
  /\ shared \in Seq(SharedFact) /\ Len(shared) <= MaxFacts

CacheShape ==
  /\ up \in BOOLEAN
  /\ local \in [Manager -> [Key -> Record \cup {Nothing}]]
  /\ staged \in [Manager -> [Event -> Record \cup {Nothing}]]

RecallShape ==
  /\ counted \in [Manager -> [Number -> 0 .. MaxHits]]
  /\ lex \in [Manager -> 0 .. MaxFacts] /\ \A m \in Manager : lex[m] <= Len(shared)
  /\ \A m \in Manager : \A i \in Number :
       counted[m][i] > 0 => i \in DOMAIN shared /\ shared[i].key \in Event

MemoryIInv == TableShape /\ CacheShape /\ RecallShape /\ VerifyAligns

\* The first and the last of some places in a table.
LEMMA PlacesExist ==
  ASSUME NEW n \in Nat, NEW S \in SUBSET (1 .. n), S # {}
  PROVE  Min(S) \in S /\ Max(S) \in S
<1>1. S \subseteq Nat /\ \A i \in S : n - i \in Nat
  OBVIOUS
<1>2. \E i \in S : \A j \in S : i <= j
  <2>1. PICK i \in S : \A j \in S : ~ (<<j, i>> \in OpToRel(<, Nat))
    BY <1>1, NatLessThanWellFounded, WFMin, Zenon
  <2>2. \A j \in S : ~ (j < i)
    BY <1>1, <2>1 DEF OpToRel
  <2> QED
    BY <1>1, <2>2
<1>3. \E i \in S : \A j \in S : i >= j
  <2> DEFINE T == {n - i : i \in S}
  <2>1. T \subseteq Nat /\ T # {}
    BY <1>1
  <2>2. PICK x \in T : \A y \in T : ~ (<<y, x>> \in OpToRel(<, Nat))
    BY <2>1, NatLessThanWellFounded, WFMin, Zenon
  <2>3. \A y \in T : ~ (y < x)
    BY <2>1, <2>2 DEF OpToRel
  <2>4. PICK i \in S : x = n - i
    BY <2>2
  <2>5. ASSUME NEW j \in S PROVE i >= j
    <3>1. ~ (n - j < n - i)
      BY <2>3, <2>4
    <3> QED
      BY <1>1, <3>1
  <2> QED
    BY <2>5
<1>4. Min(S) = CHOOSE x \in S : \A y \in S : x <= y
  BY DEF Min
<1>5. Max(S) = CHOOSE x \in S : \A y \in S : x >= y
  BY DEF Max
<1>6. Min(S) \in S
  BY <1>2, <1>4, Zenon
<1>7. Max(S) \in S
  BY <1>3, <1>5, Zenon
<1> QED
  BY <1>6, <1>7

\* What a read of a table finds is the value of a fact of the key.
LEMMA LatestIsThere ==
  ASSUME NEW T, NEW table \in Seq(T), NEW k
  PROVE  Latest_(table, k) = Nothing \/ \E i \in DOMAIN table : Latest_(table, k) = table[i].value
<1> DEFINE I == {i \in 1 .. Len(table) : table[i].key = k}
           last == IF I # {} THEN Max(I) ELSE 0
<1>1. Len(table) \in Nat /\ I \in SUBSET (1 .. Len(table)) /\ DOMAIN table = 1 .. Len(table)
  OBVIOUS
<1>2. I # {} => Max(I) \in I
  BY <1>1, PlacesExist
<1>3. SelectLastInSubSeq(table, 1, Len(table), LAMBDA f : f.key = k) = last
  BY DEF SelectLastInSubSeq
<1>4. Latest_(table, k) = IF last = 0 THEN Nothing ELSE table[last].value
  BY <1>3 DEF Latest_
<1>5. last = 0 \/ last \in DOMAIN table
  BY <1>1, <1>2
<1> QED
  BY <1>4, <1>5

LEMMA ProjectedIsThere ==
  ASSUME NEW T, NEW m, session[m] \in Seq(T), NEW k
  PROVE  ProjectSession(m, k) = Nothing
         \/ \E i \in DOMAIN session[m] : session[m][i].value # Null /\ ProjectSession(m, k) = session[m][i].value
<1> DEFINE table == session[m]
           I == {i \in 1 .. Len(table) : Matches_(k, table[i].key)}
           last == IF I # {} THEN Max(I) ELSE 0
<1>1. Len(table) \in Nat /\ I \in SUBSET (1 .. Len(table)) /\ DOMAIN table = 1 .. Len(table)
  OBVIOUS
<1>2. I # {} => Max(I) \in I
  BY <1>1, PlacesExist
<1>4. ProjectSession(m, k) = IF last = 0 \/ table[last].value = Null THEN Nothing ELSE table[last].value
  BY DEF ProjectSession, SelectLastInSubSeq
<1>5. last = 0 \/ last \in DOMAIN table
  BY <1>1, <1>2
<1> QED
  BY <1>4, <1>5

\* Reads return records or nothing.
LEMMA ReadsAreTyped ==
  ASSUME TableShape, NEW m \in Manager, NEW k
  PROVE  /\ ProjectSession(m, k) \in Record \cup {Nothing}
         /\ ProjectShared(k) \in Record \cup {Nothing}
         /\ Alive(session[m], k) \in Record \cup {Nothing}
         /\ Authoritative(m, k) \in Record \cup {Nothing}
<1>1. session[m] \in Seq(SessionFact) /\ shared \in Seq(SharedFact)
  BY DEF TableShape
<1>2. /\ \A i \in DOMAIN session[m] : session[m][i].value \in Record \cup {Null}
      /\ \A i \in DOMAIN shared : shared[i].value \in Record \cup {Null}
  <2>1. \A f \in SessionFact \cup SharedFact : f.value \in Record \cup {Null}
    BY DEF SessionFact, SharedFact
  <2> QED
    BY <1>1, <2>1
<1>3. ProjectSession(m, k) \in Record \cup {Nothing}
  BY <1>1, <1>2, ProjectedIsThere
<1>4. Latest_(session[m], k) \in Record \cup {Null, Nothing} /\ Latest_(shared, k) \in Record \cup {Null, Nothing}
  <2>1. Latest_(session[m], k) = Nothing \/ \E i \in DOMAIN session[m] : Latest_(session[m], k) = session[m][i].value
    BY <1>1, LatestIsThere
  <2>2. Latest_(shared, k) = Nothing \/ \E i \in DOMAIN shared : Latest_(shared, k) = shared[i].value
    BY <1>1, LatestIsThere
  <2> QED
    BY <1>2, <2>1, <2>2
<1>5. Alive(session[m], k) \in Record \cup {Nothing} /\ Alive(shared, k) \in Record \cup {Nothing}
  BY <1>4 DEF Alive
<1> QED
  BY <1>3, <1>5 DEF Authoritative, ProjectShared

LEMMA AbsorbedIsTyped ==
  ASSUME CacheShape, NEW m \in Manager
  PROVE  Absorbed(m) \in [Key -> Record \cup {Nothing}]
  BY DEF CacheShape, Absorbed

\* What the table of a write becomes.
LEMMA WrittenIsTyped ==
  ASSUME TableShape, NEW m \in Manager, NEW k \in Key, NEW v \in Record \cup {Null}, Room(m, k),
         IF up THEN Append_(m, k, v) ELSE UNCHANGED tableVars
  PROVE  /\ TableShape'
         /\ Len(shared) <= Len(shared') /\ \A i \in DOMAIN shared : i \in DOMAIN shared' /\ shared'[i] = shared[i]
<1> USE MemoryAssumption
<1>1. session[m] \in Seq(SessionFact) /\ shared \in Seq(SharedFact) /\ MaxFacts \in Nat
  BY DEF TableShape
<1>2. CASE UNCHANGED tableVars
  BY <1>1, <1>2 DEF TableShape, tableVars
<1>3. CASE k \in SessionKey /\ Append_(m, k, v)
  <2> DEFINE f == [key |-> k, value |-> v]
  <2>1. f \in SessionFact /\ session' = [session EXCEPT ![m] = Append(@, f)] /\ UNCHANGED shared
        /\ Len(session[m]) < MaxFacts
    BY <1>3 DEF SessionFact, Append_, Room
  <2> HIDE DEF f
  <2>2. Append(session[m], f) \in Seq(SessionFact) /\ Len(Append(session[m], f)) = Len(session[m]) + 1
    BY <1>1, <2>1
  <2>3. \A x \in Manager : session'[x] = IF x = m THEN Append(session[m], f) ELSE session[x]
    BY <2>1 DEF TableShape
  <2>4. Len(session[m]) + 1 <= MaxFacts
    BY <1>1, <2>1
  <2>5. session' \in [Manager -> Seq(SessionFact)]
    BY <2>1, <2>2 DEF TableShape
  <2> QED
    BY <1>1, <2>1, <2>2, <2>3, <2>4, <2>5 DEF TableShape
<1>4. CASE k \notin SessionKey /\ Append_(m, k, v)
  <2> DEFINE f == [key |-> k, value |-> v]
  <2>1. f \in SharedFact /\ shared' = Append(shared, f) /\ UNCHANGED session /\ Len(shared) < MaxFacts
    BY <1>4 DEF SharedFact, Append_, Room, Key
  <2> HIDE DEF f
  <2>2. shared' \in Seq(SharedFact) /\ Len(shared') = Len(shared) + 1 /\ Len(shared) \in Nat
        /\ \A i \in DOMAIN shared : i \in DOMAIN shared' /\ shared'[i] = shared[i]
    BY <1>1, <2>1
  <2> QED
    BY <1>1, <2>1, <2>2 DEF TableShape
<1> QED
  BY <1>2, <1>3, <1>4

LEMMA GrownIsTyped ==
  ASSUME TableShape, UNCHANGED session, NEW new \in Seq(SharedFact), shared' = shared \o new,
         Len(shared) + Len(new) <= MaxFacts
  PROVE  /\ TableShape'
         /\ Len(shared) <= Len(shared') /\ \A i \in DOMAIN shared : i \in DOMAIN shared' /\ shared'[i] = shared[i]
<1>1. shared \in Seq(SharedFact) /\ MaxFacts \in Nat
  BY MemoryAssumption DEF TableShape
<1>2. shared' \in Seq(SharedFact) /\ Len(shared') = Len(shared) + Len(new) /\ Len(shared) \in Nat /\ Len(new) \in Nat
      /\ \A i \in DOMAIN shared : i \in DOMAIN shared' /\ shared'[i] = shared[i]
  BY <1>1
<1> QED
  BY <1>1, <1>2 DEF TableShape

\* What waits goes on to wait, for the facts it counts.
LEMMA CountsStay ==
  ASSUME TableShape, TableShape', RecallShape, UNCHANGED <<counted, lex>>, Len(shared) <= Len(shared'),
         \A i \in DOMAIN shared : i \in DOMAIN shared' /\ shared'[i] = shared[i]
  PROVE  RecallShape'
<1>1. MaxFacts \in Nat /\ Len(shared) \in Nat /\ Len(shared') \in Nat
  BY MemoryAssumption DEF TableShape
<1> QED
  BY <1>1 DEF RecallShape

LEMMA CacheStays ==
  ASSUME CacheShape, NEW m \in Manager, NEW k \in Key, NEW v \in Record \cup {Nothing},
         local' = [local EXCEPT ![m][k] = v], UNCHANGED <<up, staged>>
  PROVE  CacheShape'
<1>1. local[m] \in [Key -> Record \cup {Nothing}]
  BY DEF CacheShape
<1>2. [local[m] EXCEPT ![k] = v] \in [Key -> Record \cup {Nothing}]
  BY <1>1
<1> QED
  BY <1>2 DEF CacheShape

LEMMA SetKeeps ==
  ASSUME MemoryIInv, NEW m \in Manager, NEW k \in SessionKey \cup Event, NEW c \in Content_, Set(m, k, c)
  PROVE  MemoryIInv'
<1> DEFINE r == [value |-> c, usage |-> 0, life |-> IF k \in Event THEN "Captured" ELSE "Settled"]
<1>1. r \in Record /\ k \in Key
  BY MemoryAssumption DEF Record, Key, SharedKey
<1>2. /\ Room(m, k) /\ local' = [local EXCEPT ![m][k] = r]
      /\ IF up THEN Append_(m, k, r) ELSE UNCHANGED tableVars
      /\ op' = [name |-> "set"] /\ UNCHANGED <<up, counted, staged, lex>>
  BY DEF Set, countVars
<1> HIDE DEF r
<1>3. TableShape' /\ Len(shared) <= Len(shared') /\ \A i \in DOMAIN shared : i \in DOMAIN shared' /\ shared'[i] = shared[i]
  <2>1. TableShape /\ r \in Record \cup {Null}
    BY <1>1 DEF MemoryIInv
  <2> QED
    BY <1>1, <1>2, <2>1, WrittenIsTyped
<1>4. CacheShape'
  BY <1>1, <1>2, CacheStays DEF MemoryIInv
<1>5. RecallShape'
  BY <1>2, <1>3, CountsStay DEF MemoryIInv
<1>6. VerifyAligns'
  BY <1>2 DEF VerifyAligns
<1> QED
  BY <1>3, <1>4, <1>5, <1>6 DEF MemoryIInv

LEMMA GetKeeps ==
  ASSUME MemoryIInv, NEW m \in Manager, NEW k \in SessionKey \cup Event, Get(m, k)
  PROVE  MemoryIInv'
<1>1. PICK found \in Record \cup {Nothing} :
        /\ local' = [local EXCEPT ![m][k] = found]
        /\ op' = [name |-> "get", by |-> m, key |-> k, found |-> found, online |-> up]
  <2> DEFINE found == CASE ~up -> local[m][k]
                        [] up /\ k \in SessionKey -> ProjectSession(m, k)
                        [] up /\ k \in SharedKey -> ProjectShared(k)
  <2>1. /\ ProjectSession(m, k) \in Record \cup {Nothing}
        /\ ProjectShared(k) \in Record \cup {Nothing}
    BY ReadsAreTyped DEF MemoryIInv
  <2>2. local[m][k] \in Record \cup {Nothing} /\ up \in BOOLEAN /\ k \in SessionKey \cup SharedKey
    BY DEF MemoryIInv, CacheShape, Key, SharedKey
  <2>3. found \in Record \cup {Nothing}
    BY <2>1, <2>2
  <2> QED
    BY <2>3 DEF Get
<1>2. UNCHANGED <<session, shared, up, counted, staged, lex>> /\ k \in Key
  BY DEF Get, tableVars, countVars, Key, SharedKey
<1>3. CacheShape'
  BY <1>1, <1>2, CacheStays DEF MemoryIInv
<1>4. TableShape' /\ RecallShape'
  BY <1>2 DEF MemoryIInv, TableShape, RecallShape
<1>5. VerifyAligns'
  BY <1>1 DEF VerifyAligns
<1> QED
  BY <1>3, <1>4, <1>5 DEF MemoryIInv

LEMMA ForgetKeeps ==
  ASSUME MemoryIInv, NEW m \in Manager, NEW k \in SessionKey \cup Event, Forget(m, k)
  PROVE  MemoryIInv'
<1>1. k \in Key /\ Null \in Record \cup {Null} /\ Nothing \in Record \cup {Nothing}
  BY DEF Key, SharedKey
<1>2. /\ Room(m, k) /\ local' = [local EXCEPT ![m][k] = Nothing]
      /\ IF up THEN Append_(m, k, Null) ELSE UNCHANGED tableVars
      /\ op' = NoOp /\ UNCHANGED <<up, counted, staged, lex>>
  BY DEF Forget, countVars
<1>3. TableShape' /\ Len(shared) <= Len(shared') /\ \A i \in DOMAIN shared : i \in DOMAIN shared' /\ shared'[i] = shared[i]
  BY <1>1, <1>2, WrittenIsTyped DEF MemoryIInv
<1>4. CacheShape'
  BY <1>1, <1>2, CacheStays DEF MemoryIInv
<1>5. RecallShape'
  BY <1>2, <1>3, CountsStay DEF MemoryIInv
<1>6. VerifyAligns'
  BY <1>2 DEF VerifyAligns, NoOp
<1> QED
  BY <1>3, <1>4, <1>5, <1>6 DEF MemoryIInv

LEMMA TombstoneKeeps ==
  ASSUME MemoryIInv, NEW e \in Event, Tombstone(e)
  PROVE  MemoryIInv'
<1> DEFINE f == [key |-> e, value |-> Null]
<1>1. f \in SharedFact
  BY DEF SharedFact, SharedKey
<1>2. /\ Len(shared) < MaxFacts /\ shared' = Append(shared, f) /\ op' = NoOp
      /\ UNCHANGED <<session, up, local, counted, staged, lex>>
  BY DEF Tombstone, countVars
<1> HIDE DEF f
<1>3. TableShape' /\ Len(shared) <= Len(shared') /\ \A i \in DOMAIN shared : i \in DOMAIN shared' /\ shared'[i] = shared[i]
  <2>1. shared \in Seq(SharedFact) /\ MaxFacts \in Nat
    BY MemoryAssumption DEF MemoryIInv, TableShape
  <2>2. << f >> \in Seq(SharedFact) /\ shared' = shared \o << f >> /\ Len(shared) + Len(<< f >>) <= MaxFacts
    BY <1>1, <1>2, <2>1
  <2> QED
    BY <1>2, <2>2, GrownIsTyped DEF MemoryIInv
<1>4. CacheShape'
  BY <1>2 DEF MemoryIInv, CacheShape
<1>5. RecallShape'
  BY <1>2, <1>3, CountsStay DEF MemoryIInv
<1>6. VerifyAligns'
  BY <1>2 DEF VerifyAligns, NoOp
<1> QED
  BY <1>3, <1>4, <1>5, <1>6 DEF MemoryIInv

\* A whole cache is rewritten.
LEMMA CacheReplaced ==
  ASSUME CacheShape, NEW m \in Manager, NEW cache \in [Key -> Record \cup {Nothing}],
         local' = [local EXCEPT ![m] = cache], UNCHANGED <<up, staged>>
  PROVE  CacheShape'
  BY DEF CacheShape

LEMMA SyncKeeps ==
  ASSUME MemoryIInv, NEW m \in Manager, Sync(m)
  PROVE  MemoryIInv'
<1> DEFINE cache == [k \in Key |-> CASE k \notin SessionKey \/ Latest_(session[m], k) = Nothing -> local[m][k]
                                     [] OTHER -> Alive(session[m], k)]
<1>1. cache \in [Key -> Record \cup {Nothing}]
  <2>1. ASSUME NEW k \in Key PROVE cache[k] \in Record \cup {Nothing}
    <3>1. Alive(session[m], k) \in Record \cup {Nothing}
      BY ReadsAreTyped DEF MemoryIInv
    <3>2. local[m][k] \in Record \cup {Nothing}
      BY DEF MemoryIInv, CacheShape
    <3> QED
      BY <3>1, <3>2
  <2> QED
    BY <2>1
<1>2. local' = [local EXCEPT ![m] = cache]
  BY DEF Sync, MemoryIInv, CacheShape
<1>3. op' = NoOp /\ UNCHANGED <<session, shared, up, counted, staged, lex>>
  BY DEF Sync, tableVars, countVars
<1> HIDE DEF cache
<1>4. CacheShape'
  BY <1>1, <1>2, <1>3, CacheReplaced DEF MemoryIInv
<1>5. TableShape' /\ RecallShape'
  BY <1>3 DEF MemoryIInv, TableShape, RecallShape
<1>6. VerifyAligns'
  BY <1>3 DEF VerifyAligns, NoOp
<1> QED
  BY <1>4, <1>5, <1>6 DEF MemoryIInv

\* What the server does not have leaves the cache, what the cache does not have enters it.
LEMMA VerifyKeeps ==
  ASSUME MemoryIInv, NEW m \in Manager, Verify(m)
  PROVE  MemoryIInv'
<1> DEFINE cache == [k \in Key |-> IF Authoritative(m, k) = Nothing \/ local[m][k] = Nothing
                                   THEN Authoritative(m, k) ELSE local[m][k]]
<1>1. cache \in [Key -> Record \cup {Nothing}]
  <2>1. ASSUME NEW k \in Key PROVE cache[k] \in Record \cup {Nothing}
    <3>1. Authoritative(m, k) \in Record \cup {Nothing}
      BY ReadsAreTyped DEF MemoryIInv
    <3>2. local[m][k] \in Record \cup {Nothing}
      BY DEF MemoryIInv, CacheShape
    <3> QED
      BY <3>1, <3>2
  <2> QED
    BY <2>1
<1>2. local' = [local EXCEPT ![m] = cache]
  BY DEF Verify, MemoryIInv, CacheShape
<1>3. op' = [name |-> "verify", by |-> m] /\ UNCHANGED <<session, shared, up, counted, staged, lex>>
  BY DEF Verify, tableVars, countVars
<1>4. \A k \in Key : LET latest == Latest_(IF k \in SessionKey THEN session[m] ELSE shared, k)
                     IN cache[k] # Nothing <=> latest \notin {Nothing, Null}
  BY DEF Authoritative, Alive
<1> HIDE DEF cache
<1>5. CacheShape'
  BY <1>1, <1>2, <1>3, CacheReplaced DEF MemoryIInv
<1>6. TableShape' /\ RecallShape'
  BY <1>3 DEF MemoryIInv, TableShape, RecallShape
<1>7. VerifyAligns'
  <2>1. local'[m] = cache
    BY <1>2 DEF MemoryIInv, CacheShape
  <2>2. op'.by = m /\ session' = session /\ shared' = shared
    BY <1>3
  <2>3. ASSUME NEW k \in Key
        PROVE local'[op'.by][k] # Nothing <=>
                Latest_(IF k \in SessionKey THEN session'[op'.by] ELSE shared', k) \notin {Nothing, Null}
    BY <1>4, <2>1, <2>2
  <2> QED
    BY <2>3 DEF VerifyAligns
<1> QED
  BY <1>5, <1>6, <1>7 DEF MemoryIInv

\* A recall counts versions that are in the table.
LEMMA RecallKeeps ==
  ASSUME MemoryIInv, NEW m \in Manager, Recall(m)
  PROVE  MemoryIInv'
<1> USE MemoryAssumption
<1>1. TableShape /\ CacheShape /\ RecallShape
  BY DEF MemoryIInv
<1>2. PICK n \in (IF up THEN {Len(shared)} ELSE {}) \cup {lex[m]} :
        LET got(e) == {i \in 1..n : shared[i].key = e /\ shared[i].value # Null}
        IN /\ \A e \in Event : \A i \in got(e) : counted[m][i] < MaxHits
           /\ staged' = [staged EXCEPT ![m] = [e \in Event |->
                           IF @[e] = Nothing /\ got(e) # {} THEN shared[Min(got(e))].value ELSE @[e]]]
           /\ counted' = [counted EXCEPT ![m] = [i \in Number |->
                           IF \E e \in Event : i \in got(e) THEN @[i] + 1 ELSE @[i]]]
           /\ lex' = [lex EXCEPT ![m] = n]
           /\ op' = NoOp /\ UNCHANGED <<session, shared, up, local>>
  BY DEF Recall, tableVars
<1> DEFINE got(e) == {i \in 1..n : shared[i].key = e /\ shared[i].value # Null}
<1>3. n \in Nat /\ n <= Len(shared) /\ n <= MaxFacts /\ shared \in Seq(SharedFact) /\ Len(shared) \in Nat
  BY <1>1, <1>2 DEF TableShape, RecallShape
<1>4. \A i \in 1 .. n : i \in DOMAIN shared /\ shared[i] \in SharedFact /\ i \in Number
  BY <1>3 DEF Number
<1>5. TableShape'
  BY <1>1, <1>2 DEF TableShape
<1>6. CacheShape'
  <2> DEFINE stage == [e \in Event |-> IF staged[m][e] = Nothing /\ got(e) # {} THEN shared[Min(got(e))].value ELSE staged[m][e]]
  <2>1. ASSUME NEW e \in Event PROVE stage[e] \in Record \cup {Nothing}
    <3>1. staged[m][e] \in Record \cup {Nothing}
      BY <1>1 DEF CacheShape
    <3>2. CASE got(e) # {}
      <4>1. got(e) \in SUBSET (1 .. n)
        OBVIOUS
      <4>2. Min(got(e)) \in got(e)
        BY <1>3, <3>2, <4>1, PlacesExist
      <4>3. shared[Min(got(e))].value \in Record
        BY <1>4, <4>2 DEF SharedFact
      <4> QED
        BY <3>1, <4>3
    <3> QED
      BY <3>1, <3>2
  <2>2. stage \in [Event -> Record \cup {Nothing}]
    BY <2>1
  <2>3. staged' = [staged EXCEPT ![m] = stage]
    BY <1>1, <1>2 DEF CacheShape
  <2> HIDE DEF stage
  <2> QED
    BY <1>1, <1>2, <2>2, <2>3 DEF CacheShape
<1>7. RecallShape'
  <2> DEFINE hits == [i \in Number |-> IF \E e \in Event : i \in got(e) THEN counted[m][i] + 1 ELSE counted[m][i]]
  <2>1. counted' = [counted EXCEPT ![m] = hits]
    BY <1>1, <1>2 DEF RecallShape
  <2>2. ASSUME NEW i \in Number
        PROVE  hits[i] \in 0 .. MaxHits /\ (hits[i] > 0 => i \in DOMAIN shared /\ shared[i].key \in Event)
    <3>1. counted[m][i] \in 0 .. MaxHits /\ (counted[m][i] > 0 => i \in DOMAIN shared /\ shared[i].key \in Event)
      BY <1>1 DEF RecallShape
    <3>2. CASE \E e \in Event : i \in got(e)
      <4>1. counted[m][i] < MaxHits /\ i \in 1 .. n /\ shared[i].key \in Event
        BY <1>2, <3>2
      <4>2. hits[i] = counted[m][i] + 1 /\ i \in DOMAIN shared
        BY <1>4, <3>2, <4>1
      <4> QED
        BY <3>1, <4>1, <4>2
    <3>3. CASE ~ \E e \in Event : i \in got(e)
      BY <3>1, <3>3
    <3> QED
      BY <3>2, <3>3
  <2>3. hits \in [Number -> 0 .. MaxHits]
    BY <2>2
  <2> HIDE DEF hits
  <2>4. counted' \in [Manager -> [Number -> 0 .. MaxHits]] /\ \A x \in Manager : counted'[x] = IF x = m THEN hits ELSE counted[x]
    BY <1>1, <2>1, <2>3 DEF RecallShape
  <2>5. lex' \in [Manager -> 0 .. MaxFacts] /\ \A x \in Manager : lex'[x] <= Len(shared)
    BY <1>1, <1>2, <1>3 DEF RecallShape
  <2>6. \A x \in Manager : \A i \in Number : counted'[x][i] > 0 => i \in DOMAIN shared /\ shared[i].key \in Event
    BY <1>1, <2>2, <2>4 DEF RecallShape
  <2> QED
    BY <1>2, <2>4, <2>5, <2>6 DEF RecallShape
<1>8. VerifyAligns'
  BY <1>2 DEF VerifyAligns, NoOp
<1> QED
  BY <1>5, <1>6, <1>7, <1>8 DEF MemoryIInv

\* The increments of some facts are a number.
LEMMA SumIsNumber ==
  ASSUME NEW f \in [Number -> 0 .. MaxHits], NEW S \in SUBSET Number
  PROVE  SumOver(f, S) \in Nat
<1> USE MemoryAssumption
<1> DEFINE U == UNION {{i} \X (1..f[i]) : i \in S}
           V == (1 .. MaxFacts) \X (1 .. MaxHits)
<1>1. U \subseteq V
  <2>1. ASSUME NEW i \in S PROVE {i} \X (1 .. f[i]) \subseteq V
    <3>1. i \in 1 .. MaxFacts /\ f[i] \in 0 .. MaxHits
      BY DEF Number
    <3> QED
      BY <3>1
  <2> QED
    BY <2>1
<1>2. IsFiniteSet(V)
  <2>1. IsFiniteSet(1 .. MaxFacts) /\ IsFiniteSet(1 .. MaxHits)
    BY FS_Interval
  <2> QED
    BY <2>1, FS_Product
<1>3. IsFiniteSet(U)
  BY <1>1, <1>2, FS_Subset
<1>4. Cardinality(U) \in Nat
  BY <1>3, FS_CardinalityType
<1> QED
  BY <1>4 DEF SumOver

\* A permutation of a batch names each of its facts.
LEMMA OrderIsWhole ==
  ASSUME NEW batch \in SUBSET Number, NEW order \in SetToSeqs(batch)
  PROVE  /\ Cardinality(batch) \in Nat /\ order \in Seq(batch) /\ Len(order) = Cardinality(batch)
         /\ DOMAIN order = 1 .. Len(order)
         /\ \A i \in batch : \E n \in 1 .. Len(order) : order[n] = i
<1> USE MemoryAssumption
<1> DEFINE c == Cardinality(batch)
<1>1. IsFiniteSet(batch) /\ c \in Nat
  <2>1. IsFiniteSet(1 .. MaxFacts)
    BY FS_Interval
  <2>2. IsFiniteSet(batch)
    BY <2>1, FS_Subset DEF Number
  <2> QED
    BY <2>2, FS_CardinalityType
<1>2. order \in [1 .. c -> batch] /\ \A i, j \in 1 .. c : i # j => order[i] # order[j]
  BY DEF SetToSeqs
<1>3. order \in Injection(1 .. c, batch)
  BY <1>2 DEF Injection, IsInjective
<1>4. Cardinality(1 .. c) = c
  <2>1. Cardinality(1 .. c) = IF 1 > c THEN 0 ELSE c - 1 + 1
    BY <1>1, FS_Interval
  <2> QED
    BY <1>1, <2>1
<1>5. order \in Surjection(1 .. c, batch)
  BY <1>1, <1>3, <1>4, FS_Injection
<1>6. \A i \in batch : \E n \in 1 .. c : order[n] = i
  BY <1>5 DEF Surjection
<1> HIDE DEF c
<1>7. order \in Seq(batch) /\ Len(order) = c
  BY <1>1, <1>2
<1> QED
  BY <1>1, <1>2, <1>6, <1>7 DEF c

\* What a flush does, by its parts.
FlushParts(m, batch, order, new, cache) ==
  /\ batch = {i \in Number : counted[m][i] > 0 /\ Absorbed(m)[shared[i].key] # Nothing}
  /\ order \in Seq(batch) /\ DOMAIN order = 1 .. Len(order)
  /\ \A i \in batch : \E n \in 1 .. Len(order) : order[n] = i
  /\ new \in Seq(SharedFact) /\ Len(new) = Len(order) /\ Len(shared) + Len(new) <= MaxFacts
  /\ \A n \in 1 .. Len(new) : new[n].key = shared[order[n]].key
  /\ cache \in [Key -> Record \cup {Nothing}]
  /\ local' = [local EXCEPT ![m] = cache]
  /\ shared' = (IF up THEN shared \o new ELSE shared)
  /\ staged' = [staged EXCEPT ![m] = [e \in Event |-> Nothing]]
  /\ counted' = [counted EXCEPT ![m] = IF up THEN [i \in Number |-> 0] ELSE PutBack(m, batch)]
  /\ op' = NoOp /\ UNCHANGED <<session, up, lex>>

LEMMA FlushMoves ==
  ASSUME MemoryIInv, NEW m \in Manager, FlushUsage(m)
  PROVE  \E batch \in SUBSET Number : \E order, new, cache : FlushParts(m, batch, order, new, cache)
<1> USE MemoryAssumption
<1>1. TableShape /\ CacheShape /\ RecallShape
  BY DEF MemoryIInv
<1> DEFINE mine == Absorbed(m)
           batch == {i \in Number : counted[m][i] > 0 /\ mine[shared[i].key] # Nothing}
<1>2. mine \in [Key -> Record \cup {Nothing}]
  BY <1>1, AbsorbedIsTyped
<1>3. \A i \in batch : i \in Number /\ i \in DOMAIN shared /\ shared[i].key \in Event /\ mine[shared[i].key] \in Record
  <2>1. \A i \in batch : i \in DOMAIN shared /\ shared[i].key \in Event
    BY <1>1 DEF RecallShape
  <2> QED
    BY <1>2, <2>1 DEF Key, SharedKey
<1>4. PICK order \in SetToSeqs(batch) :
        LET used(e, n) == [mine[e] EXCEPT !.usage = Saturating(@ + Increments(m, order, e, n)),
                                          !.life = "Reinforced"]
        IN /\ local' = [local EXCEPT ![m] = [k \in Key |->
                          IF \E i \in batch : shared[i].key = k THEN used(k, Len(order)) ELSE mine[k]]]
           /\ shared' = IF up THEN shared \o [n \in DOMAIN order |->
                                      [key |-> shared[order[n]].key, value |-> used(shared[order[n]].key, n)]]
                        ELSE shared
  BY DEF FlushUsage
<1> DEFINE used(e, n) == [mine[e] EXCEPT !.usage = Saturating(@ + Increments(m, order, e, n)), !.life = "Reinforced"]
           new == [n \in DOMAIN order |-> [key |-> shared[order[n]].key, value |-> used(shared[order[n]].key, n)]]
           cache == [k \in Key |-> IF \E i \in batch : shared[i].key = k THEN used(k, Len(order)) ELSE mine[k]]
<1>5. /\ Cardinality(batch) \in Nat /\ order \in Seq(batch) /\ Len(order) = Cardinality(batch)
      /\ DOMAIN order = 1 .. Len(order)
      /\ \A i \in batch : \E n \in 1 .. Len(order) : order[n] = i
  <2>1. batch \in SUBSET Number
    OBVIOUS
  <2> HIDE DEF batch
  <2> QED
    BY <2>1, OrderIsWhole
<1>6. ASSUME NEW e, mine[e] \in Record, NEW n \in 0 .. Len(order)
      PROVE  used(e, n) \in Record
  <2> DEFINE S == {order[j] : j \in {j \in 1..n : shared[order[j]].key = e}}
  <2>1. S \in SUBSET Number
    <3>1. \A j \in 1 .. n : j \in 1 .. Len(order)
      BY <1>5
    <3>2. \A j \in 1 .. Len(order) : order[j] \in Number
      BY <1>3, <1>5
    <3> QED
      BY <3>1, <3>2
  <2>2. counted[m] \in [Number -> 0 .. MaxHits]
    BY <1>1 DEF RecallShape
  <2>3. SumOver(counted[m], S) \in Nat
    BY <2>1, <2>2, SumIsNumber
  <2>4. Increments(m, order, e, n) \in Nat
    BY <2>3 DEF Increments
  <2> DEFINE r == mine[e]
             d == Increments(m, order, e, n)
  <2>5. r \in Record /\ d \in Nat
    BY <1>6, <2>4
  <2> HIDE DEF r, d
  <2>6. r.usage \in 0 .. MaxUsage /\ Saturating(r.usage + d) \in 0 .. MaxUsage
    BY <2>5 DEF Record, Saturating
  <2>7. [r EXCEPT !.usage = Saturating(@ + d), !.life = "Reinforced"] \in Record
    BY <2>5, <2>6 DEF Record
  <2> QED
    BY <2>7 DEF r, d
<1>7. new \in Seq(SharedFact) /\ Len(new) = Len(order) /\ \A n \in 1 .. Len(new) : new[n].key = shared[order[n]].key
  <2>1. ASSUME NEW n \in 1 .. Len(order) PROVE new[n] \in SharedFact /\ new[n].key = shared[order[n]].key
    <3>1. order[n] \in batch /\ n \in 0 .. Len(order) /\ n \in DOMAIN order
      BY <1>5
    <3>2. shared[order[n]].key \in Event /\ mine[shared[order[n]].key] \in Record
      BY <1>3, <3>1
    <3>3. used(shared[order[n]].key, n) \in Record
      BY <1>6, <3>1, <3>2
    <3> HIDE DEF used
    <3>4. new[n] = [key |-> shared[order[n]].key, value |-> used(shared[order[n]].key, n)]
      BY <3>1
    <3> QED
      BY <3>2, <3>3, <3>4 DEF SharedFact, SharedKey
  <2>2. DOMAIN new = 1 .. Len(order)
    BY <1>5
  <2> HIDE DEF new
  <2>3. new = [n \in 1 .. Len(order) |-> new[n]]
    BY <2>2 DEF new
  <2>4. new \in [1 .. Len(order) -> SharedFact]
    BY <2>1, <2>3
  <2>5. Len(order) \in Nat
    BY <1>5
  <2>6. \A x \in Nat : \A s \in [1 .. x -> SharedFact] : s \in Seq(SharedFact) /\ Len(s) = x
    OBVIOUS
  <2>7. new \in Seq(SharedFact) /\ Len(new) = Len(order)
    BY <2>4, <2>5, <2>6
  <2> QED
    BY <2>1, <2>7
<1>8. cache \in [Key -> Record \cup {Nothing}]
  <2>1. ASSUME NEW k \in Key PROVE cache[k] \in Record \cup {Nothing}
    <3>1. CASE \E i \in batch : shared[i].key = k
      <4>1. mine[k] \in Record /\ Len(order) \in 0 .. Len(order)
        BY <1>3, <1>5, <3>1
      <4>2. used(k, Len(order)) \in Record
        BY <1>6, <4>1
      <4> HIDE DEF used
      <4> QED
        BY <3>1, <4>2
    <3>2. CASE ~ \E i \in batch : shared[i].key = k
      BY <1>2, <3>2
    <3> QED
      BY <3>1, <3>2
  <2> HIDE DEF used, batch, mine
  <2> QED
    BY <2>1
<1>9. local' = [local EXCEPT ![m] = cache] /\ shared' = (IF up THEN shared \o new ELSE shared)
  BY <1>4
<1>10. /\ Len(shared) + Cardinality(batch) <= MaxFacts
       /\ staged' = [staged EXCEPT ![m] = [e \in Event |-> Nothing]]
       /\ counted' = [counted EXCEPT ![m] = IF up THEN [i \in Number |-> 0] ELSE PutBack(m, batch)]
       /\ op' = NoOp /\ UNCHANGED <<session, up, lex>>
  BY DEF FlushUsage
<1>11. Len(shared) + Len(new) <= MaxFacts
  BY <1>5, <1>7, <1>10
<1>12. batch = {i \in Number : counted[m][i] > 0 /\ Absorbed(m)[shared[i].key] # Nothing} /\ batch \in SUBSET Number
  OBVIOUS
<1> HIDE DEF new, cache, batch, mine
<1>13. FlushParts(m, batch, order, new, cache)
  BY <1>5, <1>7, <1>8, <1>9, <1>10, <1>11, <1>12 DEF FlushParts
<1> QED
  BY <1>12, <1>13

LEMMA FlushKeeps ==
  ASSUME MemoryIInv, NEW m \in Manager, FlushUsage(m)
  PROVE  MemoryIInv'
<1> USE MemoryAssumption
<1>1. TableShape /\ CacheShape /\ RecallShape
  BY DEF MemoryIInv
<1>2. PICK batch \in SUBSET Number : \E order, new, cache : FlushParts(m, batch, order, new, cache)
  BY FlushMoves
<1>3. PICK order, new, cache : FlushParts(m, batch, order, new, cache)
  BY <1>2
<1>4. /\ TableShape' /\ Len(shared) <= Len(shared')
      /\ \A i \in DOMAIN shared : i \in DOMAIN shared' /\ shared'[i] = shared[i]
  <2>1. CASE up
    BY <1>1, <1>3, <2>1, GrownIsTyped DEF FlushParts
  <2>2. CASE ~up
    <3>1. UNCHANGED <<session, shared>>
      BY <1>3, <2>2 DEF FlushParts
    <3> QED
      BY <1>1, <3>1 DEF TableShape
  <2> QED
    BY <2>1, <2>2
<1>5. CacheShape'
  <2>1. [e \in Event |-> Nothing] \in [Event -> Record \cup {Nothing}]
    OBVIOUS
  <2> QED
    BY <1>1, <1>3, <2>1 DEF CacheShape, FlushParts
<1>6. RecallShape'
  <2> DEFINE left == IF up THEN [i \in Number |-> 0] ELSE PutBack(m, batch)
  <2>1. left \in [Number -> 0 .. MaxHits] /\ \A i \in Number : left[i] > 0 => counted[m][i] > 0
    BY <1>1 DEF RecallShape, PutBack
  <2>2. counted' = [counted EXCEPT ![m] = left] /\ lex' = lex
    BY <1>3 DEF FlushParts
  <2> HIDE DEF left
  <2>3. counted' \in [Manager -> [Number -> 0 .. MaxHits]]
        /\ \A x \in Manager : counted'[x] = IF x = m THEN left ELSE counted[x]
    BY <1>1, <2>1, <2>2 DEF RecallShape
  <2>4. Len(shared) \in Nat /\ Len(shared') \in Nat
    BY <1>1, <1>4 DEF TableShape
  <2>5. \A x \in Manager : lex'[x] <= Len(shared')
    BY <1>1, <1>4, <2>2, <2>4 DEF RecallShape
  <2>6. ASSUME NEW x \in Manager, NEW i \in Number, counted'[x][i] > 0
        PROVE  i \in DOMAIN shared' /\ shared'[i].key \in Event
    <3>1. counted[x][i] > 0
      BY <2>1, <2>3, <2>6
    <3> QED
      BY <1>1, <1>4, <3>1 DEF RecallShape
  <2> QED
    BY <1>1, <2>2, <2>3, <2>5, <2>6 DEF RecallShape
<1>7. VerifyAligns'
  BY <1>3 DEF VerifyAligns, NoOp, FlushParts
<1> QED
  BY <1>4, <1>5, <1>6, <1>7 DEF MemoryIInv

\* The events that get a marker, in some order.
LEMMA MarkersAreOrdered ==
  ASSUME NEW ok \in SUBSET Event
  PROVE  SetToSeq(ok) \in Seq(ok)
<1>1. IsFiniteSet(ok)
  BY MemoryAssumption, FS_Subset
<1>2. Cardinality(ok) \in Nat /\ ExistsBijection(1 .. Cardinality(ok), ok)
  BY <1>1, FS_CardinalityType
<1>3. \E f \in [1 .. Cardinality(ok) -> ok] : IsInjective(f)
  BY <1>2 DEF ExistsBijection, Bijection, Injection
<1>4. SetToSeq(ok) \in [1 .. Cardinality(ok) -> ok]
  BY <1>3 DEF SetToSeq
<1> QED
  BY <1>2, <1>4

\* Promoted events keep their records, and get a marker with their value.
LEMMA LifecycleKeeps ==
  ASSUME MemoryIInv, NEW m \in Manager, Lifecycle(m)
  PROVE  MemoryIInv'
<1> USE MemoryAssumption
<1>1. TableShape /\ CacheShape /\ RecallShape
  BY DEF MemoryIInv
<1> DEFINE mine == Absorbed(m)
           early(e) == mine[e] # Nothing /\ mine[e].life \in {"Captured", "Reinforced"}
           candidates == {e \in Event \ Recognised(m) : early(e) /\ mine[e].usage >= PromoteUses}
           markerRecord(e) == [value |-> mine[e].value, usage |-> 0, life |-> "Settled"]
           promoted(ok) == ok \cup {e \in Recognised(m) : early(e)}
           cacheOf(ok) == [k \in Key |->
                            CASE k \in promoted(ok) -> [mine[k] EXCEPT !.life = "Promoted"]
                              [] k \in Marker /\ k[2] \in ok -> markerRecord(k[2])
                              [] OTHER -> mine[k]]
           newOf(ok) == [i \in DOMAIN SetToSeq(ok) |->
                          [key |-> <<"promoted", SetToSeq(ok)[i]>>, value |-> markerRecord(SetToSeq(ok)[i])]]
<1>2. PICK ok \in (IF Gate THEN SUBSET candidates ELSE {candidates}) :
        /\ Len(shared) + Len(SetToSeq(ok)) <= MaxFacts
        /\ staged' = [staged EXCEPT ![m] = [e \in Event |-> Nothing]]
        /\ local' = [local EXCEPT ![m] = cacheOf(ok)]
        /\ shared' = IF up THEN shared \o newOf(ok) ELSE shared
        /\ op' = [name |-> "lifecycle", by |-> m, proposed |-> ok]
        /\ UNCHANGED <<session, up, counted, lex>>
  BY DEF Lifecycle
<1>3. mine \in [Key -> Record \cup {Nothing}]
  BY <1>1, AbsorbedIsTyped
<1>4. ok \in SUBSET Event /\ \A e \in promoted(ok) : e \in Event /\ mine[e] \in Record
  <2>1. ok \subseteq candidates
    BY <1>2
  <2>2. \A e \in promoted(ok) : e \in Event /\ early(e)
    BY <2>1 DEF Recognised
  <2>3. \A e \in Event : e \in Key
    BY DEF Key, SharedKey
  <2> QED
    BY <1>3, <2>1, <2>2, <2>3
<1>5. \A e \in ok : markerRecord(e) \in Record
  <2>1. \A r \in Record : [value |-> r.value, usage |-> 0, life |-> "Settled"] \in Record
    BY DEF Record
  <2> QED
    BY <1>4, <2>1
<1>6. cacheOf(ok) \in [Key -> Record \cup {Nothing}]
  <2>1. ASSUME NEW k \in Key PROVE cacheOf(ok)[k] \in Record \cup {Nothing}
    <3>1. \A r \in Record : [r EXCEPT !.life = "Promoted"] \in Record
      BY DEF Record
    <3>2. k \in promoted(ok) => [mine[k] EXCEPT !.life = "Promoted"] \in Record
      BY <1>4, <3>1
    <3>3. mine[k] \in Record \cup {Nothing}
      BY <1>3
    <3>4. k[2] \in ok => markerRecord(k[2]) \in Record
      BY <1>5
    <3> HIDE DEF mine, markerRecord, promoted
    <3> QED
      BY <3>2, <3>3, <3>4
  <2> QED
    BY <2>1
<1>7. newOf(ok) \in Seq(SharedFact) /\ Len(newOf(ok)) = Len(SetToSeq(ok))
  <2> DEFINE s == SetToSeq(ok)
  <2>1. s \in Seq(ok)
    BY <1>4, MarkersAreOrdered
  <2>2. Len(s) \in Nat /\ DOMAIN s = 1 .. Len(s) /\ \A i \in 1 .. Len(s) : s[i] \in ok
    BY <2>1
  <2> HIDE DEF s
  <2>3. ASSUME NEW i \in 1 .. Len(s)
        PROVE  [key |-> <<"promoted", s[i]>>, value |-> markerRecord(s[i])] \in SharedFact
    <3>1. s[i] \in Event /\ markerRecord(s[i]) \in Record
      BY <1>4, <1>5, <2>2
    <3> HIDE DEF markerRecord
    <3>2. <<"promoted", s[i]>> \in SharedKey
      BY <3>1 DEF SharedKey, Marker
    <3> QED
      BY <3>1, <3>2 DEF SharedFact
  <2> DEFINE new == [i \in 1 .. Len(s) |-> [key |-> <<"promoted", s[i]>>, value |-> markerRecord(s[i])]]
  <2>4. newOf(ok) = new
    BY <2>2 DEF s
  <2>5. new \in [1 .. Len(s) -> SharedFact]
    BY <2>3
  <2> HIDE DEF new
  <2>6. \A x \in Nat : \A t \in [1 .. x -> SharedFact] : t \in Seq(SharedFact) /\ Len(t) = x
    OBVIOUS
  <2>7. new \in Seq(SharedFact) /\ Len(new) = Len(s)
    BY <2>2, <2>5, <2>6
  <2> QED
    BY <2>4, <2>7 DEF s
<1> HIDE DEF cacheOf, newOf, candidates, mine
<1>8. /\ TableShape' /\ Len(shared) <= Len(shared')
      /\ \A i \in DOMAIN shared : i \in DOMAIN shared' /\ shared'[i] = shared[i]
  <2>1. CASE up
    BY <1>1, <1>2, <1>7, <2>1, GrownIsTyped
  <2>2. CASE ~up
    <3>1. UNCHANGED <<session, shared>>
      BY <1>2, <2>2
    <3> QED
      BY <1>1, <3>1 DEF TableShape
  <2> QED
    BY <2>1, <2>2
<1>9. CacheShape'
  <2>1. [e \in Event |-> Nothing] \in [Event -> Record \cup {Nothing}]
    OBVIOUS
  <2> QED
    BY <1>1, <1>2, <1>6, <2>1 DEF CacheShape
<1>10. RecallShape'
  BY <1>1, <1>2, <1>8, CountsStay
<1>11. VerifyAligns'
  BY <1>2 DEF VerifyAligns
<1> QED
  BY <1>8, <1>9, <1>10, <1>11 DEF MemoryIInv

LEMMA MemoryIInvInit == MemoryInit => MemoryIInv
<1> SUFFICES ASSUME MemoryInit PROVE MemoryIInv
  OBVIOUS
<1> USE MemoryAssumption
<1>1. << >> \in Seq(SessionFact) /\ << >> \in Seq(SharedFact) /\ Len(<< >>) = 0
  OBVIOUS
<1>2. TableShape
  BY <1>1 DEF MemoryInit, TableShape
<1>3. CacheShape
  BY DEF MemoryInit, CacheShape
<1>4. RecallShape
  BY <1>1 DEF MemoryInit, RecallShape
<1>5. VerifyAligns
  BY DEF MemoryInit, VerifyAligns, NoOp
<1> QED
  BY <1>2, <1>3, <1>4, <1>5 DEF MemoryIInv

LEMMA MemoryInductive == MemoryIInv /\ [MemoryNext]_memoryVars => MemoryIInv'
<1> SUFFICES ASSUME MemoryIInv, [MemoryNext]_memoryVars PROVE MemoryIInv'
  OBVIOUS
<1>1. CASE UNCHANGED memoryVars
  <2>1. UNCHANGED <<session, shared, up, local, counted, staged, lex, op>>
    BY <1>1 DEF memoryVars
  <2>2. TableShape' /\ CacheShape' /\ RecallShape'
    BY <2>1 DEF MemoryIInv, TableShape, CacheShape, RecallShape
  <2>3. VerifyAligns'
    BY <2>1 DEF MemoryIInv, VerifyAligns
  <2> QED
    BY <2>2, <2>3 DEF MemoryIInv
<1>2. CASE Connection
  <2>1. up' \in BOOLEAN /\ op' = NoOp /\ UNCHANGED <<session, shared, local, counted, staged, lex>>
    BY <1>2 DEF Connection, tableVars, countVars
  <2>2. TableShape' /\ CacheShape' /\ RecallShape'
    BY <2>1 DEF MemoryIInv, TableShape, CacheShape, RecallShape
  <2>3. VerifyAligns'
    BY <2>1 DEF VerifyAligns, NoOp
  <2> QED
    BY <2>2, <2>3 DEF MemoryIInv
<1>3. CASE \E e \in Event : Tombstone(e)
  BY <1>3, TombstoneKeeps
<1>4. ASSUME NEW m \in Manager, NEW k \in SessionKey \cup Event,
             Get(m, k) \/ Forget(m, k) \/ \E c \in Content_ : Set(m, k, c)
      PROVE  MemoryIInv'
  BY <1>4, GetKeeps, ForgetKeeps, SetKeeps
<1>5. ASSUME NEW m \in Manager, Sync(m) \/ Verify(m) \/ Recall(m) \/ FlushUsage(m) \/ Lifecycle(m)
      PROVE  MemoryIInv'
  BY <1>5, SyncKeeps, VerifyKeeps, RecallKeeps, FlushKeeps, LifecycleKeeps
<1> QED
  BY <1>1, <1>2, <1>3, <1>4, <1>5 DEF MemoryNext, MemoryStep

LEMMA MemoryIInvIsEnough == MemoryIInv => MemoryInv
<1> SUFFICES ASSUME MemoryIInv PROVE MemoryInv
  OBVIOUS
<1>1. TableShape /\ CacheShape /\ RecallShape /\ VerifyAligns /\ MaxFacts \in Nat
  BY MemoryAssumption DEF MemoryIInv
<1>2. \A m \in Manager : \A i \in DOMAIN session[m] : i <= MaxFacts /\ session[m][i] \in SessionFact
  <2>1. ASSUME NEW m \in Manager, NEW i \in DOMAIN session[m]
        PROVE  i <= MaxFacts /\ session[m][i] \in SessionFact
    <3>1. session[m] \in Seq(SessionFact) /\ Len(session[m]) <= MaxFacts
      BY <1>1 DEF TableShape
    <3> QED
      BY <1>1, <2>1, <3>1
  <2> QED
    BY <2>1
<1>3. \A i \in DOMAIN shared : i <= MaxFacts /\ shared[i] \in SharedFact
  BY <1>1 DEF TableShape
<1> QED
  BY <1>1, <1>2, <1>3 DEF MemoryInv, MemoryTypeOK, CacheShape, RecallShape

\* After a check against the server the cache holds a record for exactly the keys whose newest version
\* there is one, and everything has its type (verify_cache_against_server): whatever the managers did
\* before, and however often the engine was out of reach.
THEOREM CacheMatchesServer == MemorySpec => []MemoryInv
<1> QED
  BY MemoryIInvInit, MemoryInductive, MemoryIInvIsEnough, PTL DEF MemorySpec

\* What waits shrinks only by a flush.
LEMMA IncrementsStay ==
  ASSUME MemoryIInv, MemoryNext, NEW m \in Manager, NEW i \in Number, counted'[m][i] < counted[m][i]
  PROVE  FlushUsage(m)
<1>1. RecallShape
  BY DEF MemoryIInv
<1>2. ASSUME UNCHANGED counted PROVE FALSE
  <2>1. counted[m][i] \in 0 .. MaxHits
    BY <1>1 DEF RecallShape
  <2> QED
    BY <1>2, <2>1, MemoryAssumption
<1>3. ASSUME NEW x \in Manager, NEW hits, counted' = [counted EXCEPT ![x] = hits], x # m PROVE FALSE
  <2>1. counted'[m] = counted[m] /\ counted[m][i] \in 0 .. MaxHits
    BY <1>1, <1>3 DEF RecallShape
  <2> QED
    BY <2>1, MemoryAssumption
<1>4. ASSUME NEW x \in Manager, Recall(x) PROVE FALSE
  <2>1. PICK H : counted' = [counted EXCEPT ![x] = [j \in Number |-> IF j \in H THEN @[j] + 1 ELSE @[j]]]
    <3>1. PICK n : counted' = [counted EXCEPT ![x] = [j \in Number |->
                     IF \E e \in Event : j \in {k \in 1..n : shared[k].key = e /\ shared[k].value # Null}
                     THEN @[j] + 1 ELSE @[j]]]
      BY <1>4 DEF Recall
    <3> DEFINE H == {j \in Number : \E e \in Event : j \in {k \in 1..n : shared[k].key = e /\ shared[k].value # Null}}
    <3>2. counted' = [counted EXCEPT ![x] = [j \in Number |-> IF j \in H THEN @[j] + 1 ELSE @[j]]]
      BY <3>1
    <3> QED
      BY <3>2
  <2>2. x = m
    BY <1>3, <2>1
  <2>3. counted'[m][i] = IF i \in H THEN counted[m][i] + 1 ELSE counted[m][i]
    BY <1>1, <2>1, <2>2 DEF RecallShape
  <2>4. counted[m][i] \in 0 .. MaxHits
    BY <1>1 DEF RecallShape
  <2> QED
    BY <2>3, <2>4, MemoryAssumption
<1>5. ASSUME NEW x \in Manager, FlushUsage(x) PROVE x = m
  <2>1. \E hits : counted' = [counted EXCEPT ![x] = hits]
    BY <1>5 DEF FlushUsage
  <2> QED
    BY <1>3, <2>1
<1>6. ASSUME NEW x \in Manager, Sync(x) \/ Verify(x) \/ Lifecycle(x) PROVE FALSE
  <2>1. UNCHANGED counted
    BY <1>6 DEF Sync, Verify, Lifecycle, countVars
  <2> QED
    BY <1>2, <2>1
<1>7. ASSUME NEW x \in Manager, NEW k, Get(x, k) \/ Forget(x, k) \/ \E c \in Content_ : Set(x, k, c) PROVE FALSE
  <2>1. UNCHANGED counted
    BY <1>7 DEF Get, Forget, Set, countVars
  <2> QED
    BY <1>2, <2>1
<1>8. ASSUME Connection \/ \E e \in Event : Tombstone(e) PROVE FALSE
  <2>1. UNCHANGED counted
    BY <1>8 DEF Connection, Tombstone, countVars
  <2> QED
    BY <1>2, <2>1
<1> QED
  BY <1>4, <1>5, <1>6, <1>7, <1>8 DEF MemoryNext, MemoryStep

\* An increment stops waiting only with a fact of its event in the table, or without a record of it.
LEMMA FlushWrites ==
  ASSUME MemoryIInv, NEW m \in Manager, FlushUsage(m), NEW i \in Number, counted'[m][i] < counted[m][i]
  PROVE  \/ \E j \in DOMAIN shared' \ DOMAIN shared : shared'[j].key = shared[i].key
         \/ Absorbed(m)[shared[i].key] = Nothing
<1>1. TableShape /\ RecallShape
  BY DEF MemoryIInv
<1>2. PICK batch \in SUBSET Number : \E order, new, cache : FlushParts(m, batch, order, new, cache)
  BY FlushMoves
<1>3. PICK order, new, cache : FlushParts(m, batch, order, new, cache)
  BY <1>2
<1>4. counted[m][i] \in Nat
  BY <1>1, MemoryAssumption DEF RecallShape
<1>5. counted'[m] = IF up THEN [n \in Number |-> 0] ELSE PutBack(m, batch)
  BY <1>1, <1>3 DEF RecallShape, FlushParts
<1>6. counted[m][i] > 0
  BY <1>4, <1>5 DEF PutBack
<1>7. i \in batch \/ Absorbed(m)[shared[i].key] = Nothing
  BY <1>3, <1>6 DEF FlushParts
<1>8. CASE i \in batch
  <2>1. up
    <3>1. ASSUME ~up PROVE FALSE
      <4>1. counted'[m][i] = counted[m][i]
        BY <1>5, <1>8, <3>1 DEF PutBack
      <4> QED
        BY <1>4, <4>1
    <3> QED
      BY <3>1
  <2>2. PICK n \in 1 .. Len(order) : order[n] = i
    BY <1>3, <1>8 DEF FlushParts
  <2>3. /\ shared \in Seq(SharedFact) /\ new \in Seq(SharedFact) /\ shared' = shared \o new
        /\ n \in 1 .. Len(new) /\ new[n].key = shared[i].key
    BY <1>1, <1>3, <2>1, <2>2 DEF FlushParts, TableShape
  <2>4. /\ Len(shared) + n \in DOMAIN shared' /\ Len(shared) + n \notin DOMAIN shared
        /\ shared'[Len(shared) + n] = new[n]
    BY <2>3
  <2> QED
    BY <2>3, <2>4
<1> QED
  BY <1>7, <1>8

\* No recall is forgotten: an increment stops waiting only when a fact of its event reaches the engine in
\* the same step, or when there is no record of the event (flush_usage): for any managers, outages and
\* orders of the batch.
THEOREM RecallsAreKept == MemorySpec => IncrementsKept
<1>1. MemoryIInv /\ [MemoryNext]_memoryVars
      => [\A m \in Manager : \A i \in Number :
            counted'[m][i] < counted[m][i] =>
              \/ \E j \in DOMAIN shared' \ DOMAIN shared : shared'[j].key = shared[i].key
              \/ Absorbed(m)[shared[i].key] = Nothing]_memoryVars
  BY IncrementsStay, FlushWrites
<1> QED
  BY <1>1, MemoryIInvInit, MemoryInductive, PTL DEF MemorySpec, IncrementsKept

\* Only a lifecycle run proposes, and it spares the events whose marker it recognises.
LEMMA ProposalsSpareMarked ==
  ASSUME MemoryNext, op'.name = "lifecycle", NEW e \in op'.proposed
  PROVE  e \in Nested \/ local[op'.by][<<"promoted", e>>] = Nothing
<1>1. PICK m \in Manager : Lifecycle(m)
  <2>1. ASSUME NEW m \in Manager, Sync(m) \/ Verify(m) \/ Recall(m) \/ FlushUsage(m) PROVE FALSE
    <3>1. Verify(m) => op'.name = "verify"
      BY DEF Verify
    <3>2. Sync(m) \/ Recall(m) \/ FlushUsage(m) => op' = NoOp
      <4>1. Sync(m) => op' = NoOp
        BY DEF Sync
      <4>2. Recall(m) => op' = NoOp
        BY DEF Recall
      <4>3. FlushUsage(m) => op' = NoOp
        BY DEF FlushUsage
      <4> QED
        BY <4>1, <4>2, <4>3
    <3> QED
      BY <2>1, <3>1, <3>2 DEF NoOp
  <2>2. ASSUME NEW m \in Manager, NEW k, Get(m, k) \/ Forget(m, k) \/ \E c \in Content_ : Set(m, k, c) PROVE FALSE
    <3>1. op'.name \in {"none", "get", "set"}
      <4>1. ASSUME NEW c, Set(m, k, c) PROVE op'.name = "set"
        BY <4>1 DEF Set
      <4>2. Get(m, k) => op'.name = "get"
        BY DEF Get
      <4>3. Forget(m, k) => op'.name = "none"
        BY DEF Forget, NoOp
      <4> QED
        BY <2>2, <4>1, <4>2, <4>3
    <3> QED
      BY <3>1
  <2>3. ASSUME Connection \/ \E x \in Event : Tombstone(x) PROVE FALSE
    <3>1. Connection => op' = NoOp
      BY DEF Connection
    <3>2. \A x \in Event : Tombstone(x) => op' = NoOp
      BY DEF Tombstone
    <3> QED
      BY <2>3, <3>1, <3>2 DEF NoOp
  <2> QED
    BY <2>1, <2>2, <2>3 DEF MemoryNext, MemoryStep
<1>2. op'.by = m /\ e \in Event \ Recognised(m)
  <2> DEFINE early(x) == Absorbed(m)[x] # Nothing /\ Absorbed(m)[x].life \in {"Captured", "Reinforced"}
             candidates == {x \in Event \ Recognised(m) : early(x) /\ Absorbed(m)[x].usage >= PromoteUses}
  <2>1. \E ok \in (IF Gate THEN SUBSET candidates ELSE {candidates}) :
          op' = [name |-> "lifecycle", by |-> m, proposed |-> ok]
    BY <1>1 DEF Lifecycle
  <2> QED
    BY <2>1
<1> QED
  BY <1>2 DEF Recognised

\* What no step of the memory does, as long as no event is nested below another part of its key (the
\* marker of such an event is not recognised): forget a recall, or propose an event again whose marker
\* is in the cache (flush_usage, apply_lifecycle_transitions).
THEOREM UsageIsKept ==
  ASSUME Nested = {}
  PROVE  MemorySpec => UsageKept
<1>1. [MemoryNext]_memoryVars
      => [op'.name = "lifecycle" =>
            \A e \in op'.proposed : local[op'.by][<<"promoted", e>>] = Nothing]_memoryVars
  BY ProposalsSpareMarked
<1>2. MemorySpec => MarkedNotProposed
  BY <1>1, PTL DEF MemorySpec, MarkedNotProposed
<1> QED
  BY <1>2, RecallsAreKept DEF UsageKept

=============================================================================
