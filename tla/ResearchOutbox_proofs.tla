----------------------- MODULE ResearchOutbox_proofs -----------------------
(***************************************************************************)
(* Theorems about ResearchOutbox: types, the numbering of the events, what *)
(* may be published and shown, and what a client may miss.                 *)
(***************************************************************************)
EXTENDS ResearchOutbox, FiniteSetTheorems, TLAPS

Numbered(w) == writer[w].step \in {"numbered", "inserted", "checked"}
Inserted(w) == writer[w].step \in {"inserted", "checked"}

\* How the sequences come about: a writer's is at most the next one, the index
\* lets one writer at a time hold it, and then it is not yet committed.
Numbering ==
  /\ IsFiniteSet(events)
  /\ \A e, f \in events : e.seq = f.seq => e = f
  /\ Committed = 1..Cardinality(events)
  /\ \A w \in Writers : Numbered(w) => writer[w].seq \in 1..Cardinality(events) + 1
  /\ \A w \in Writers : Inserted(w) => writer[w].seq \notin Committed
  /\ \A v, w \in Writers : Inserted(v) /\ Inserted(w) => v = w

\* When the transactions with committed events began.
Dates == {e.at : e \in events}

\* The times at which the transactions began are different, and each commits two
\* events at most.
Dated ==
  /\ \A w \in Writers : writer[w].step # "idle" => writer[w].at \in 1..clock
  /\ Dates \subseteq 1..clock
  /\ Cardinality(events) <= 2 * Cardinality(Dates)
  /\ \A v, w \in Writers :
       writer[v].step # "idle" /\ writer[w].step # "idle" /\ writer[v].at = writer[w].at => v = w
  /\ \A w \in Writers : \A e \in events : writer[w].step # "idle" => e.at # writer[w].at

NInv == TypeOK /\ Numbering /\ Dated

-----------------------------------------------------------------------------
(* Writers *)

\* A writer that becomes another record.
LEMMA BecomeWriter ==
  ASSUME TypeOK, NEW w \in Writers, NEW next \in WriterStates, Become(w, next)
  PROVE  /\ writer' \in [Writers -> WriterStates]
         /\ writer'[w] = next
         /\ \A v \in Writers \ {w} : writer'[v] = writer[v]
  BY DEF TypeOK, Become

\* A writer that goes on to another step.
LEMMA StepWriter ==
  ASSUME TypeOK, NEW w \in Writers,
         NEW step \in {"idle", "begun", "open", "numbered", "inserted", "checked"}, To(w, step)
  PROVE  /\ writer' \in [Writers -> WriterStates]
         /\ writer'[w].step = step
         /\ writer'[w].seq = writer[w].seq
         /\ writer'[w].at = writer[w].at
         /\ \A v \in Writers \ {w} : writer'[v] = writer[v]
<1>1. writer[w] \in WriterStates
  BY DEF TypeOK
<1>2. [writer[w] EXCEPT !.step = step] \in WriterStates
  BY <1>1 DEF WriterStates
<1>3. /\ [writer[w] EXCEPT !.step = step].step = step
      /\ [writer[w] EXCEPT !.step = step].seq = writer[w].seq
      /\ [writer[w] EXCEPT !.step = step].at = writer[w].at
  BY <1>1 DEF WriterStates
<1> QED
  BY <1>2, <1>3, BecomeWriter DEF To

LEMMA IdleWriter == Idle \in WriterStates /\ Idle.step = "idle"
  BY BoundsAssumption DEF Idle, WriterStates

\* What a change of one writer leaves to be shown, the events unchanged.
LEMMA OneWriter ==
  ASSUME NInv, NEW w \in Writers, events' = events, clock' = clock,
         writer' \in [Writers -> WriterStates],
         \A v \in Writers \ {w} : writer'[v] = writer[v],
         writer'[w].step # "idle" => writer[w].step # "idle" /\ writer'[w].at = writer[w].at,
         Numbered(w)' => writer'[w].seq \in 1..Cardinality(events) + 1,
         Inserted(w)' => writer'[w].seq \notin Committed
                         /\ \A v \in Writers \ {w} : ~Inserted(v)
  PROVE  Numbering' /\ Dated'
<1>c. Committed' = Committed /\ Dates' = Dates
  BY DEF Committed, Dates
<1>1. Numbering'
  BY <1>c DEF NInv, Numbering, Numbered, Inserted
<1>2. Dated'
  BY <1>c DEF NInv, Dated
<1> QED
  BY <1>1, <1>2

\* What changes nothing of the writers.
LEMMA NoWriter ==
  ASSUME NInv, UNCHANGED <<events, writer, clock>>
  PROVE  Numbering' /\ Dated' /\ Committed' = Committed
<1>c. Committed' = Committed /\ Dates' = Dates
  BY DEF Committed, Dates
<1>1. Numbering'
  BY <1>c DEF NInv, Numbering, Numbered, Inserted
<1>2. Dated'
  BY <1>c DEF NInv, Dated
<1> QED
  BY <1>c, <1>1, <1>2

\* The largest committed sequence.
LEMMA LastSequenceIs == NInv => LastSequence = Cardinality(events) /\ Cardinality(events) \in Nat
<1> SUFFICES ASSUME NInv PROVE LastSequence = Cardinality(events) /\ Cardinality(events) \in Nat
  OBVIOUS
<1>1. Cardinality(events) \in Nat /\ (Cardinality(events) = 0 <=> events = {})
  BY FS_CardinalityType, FS_EmptySet DEF NInv, Numbering
<1>2. CASE events = {}
  BY <1>1, <1>2 DEF LastSequence
<1>3. CASE events # {}
  <2>1. Cardinality(events) \in Committed /\ \A t \in Committed : t <= Cardinality(events)
    BY <1>1, <1>3 DEF NInv, Numbering
  <2>2. \A s \in Committed : (\A t \in Committed : t <= s) => s = Cardinality(events)
    BY <1>1, <2>1 DEF NInv, Numbering
  <2> QED
    BY <1>1, <1>3, <2>1, <2>2 DEF LastSequence
<1> QED
  BY <1>2, <1>3

\* A commit extends the sequences by the next one, or the next two.
LEMMA CommitNumbering ==
  ASSUME NInv, NEW w \in Writers, Commit(w)
  PROVE  Numbering' /\ Dated' /\ Committed \subseteq Committed'
<1> DEFINE n == Cardinality(events)
<1>1. n \in Nat
  BY LastSequenceIs
<1>2. /\ writer[w].seq = n + 1 /\ writer[w].at \in 1..clock /\ writer[w] \in WriterStates
      /\ writer[w].at \notin Dates
  BY <1>1 DEF NInv, TypeOK, Numbering, Dated, Dates, Numbered, Inserted, Commit
<1> DEFINE new(s) == [seq |-> s, at |-> writer[w].at]
<1>3. PICK k \in {1, 2} : events' = events \cup {new(s) : s \in n + 1 .. n + k}
  <2>1. PICK k \in {1, 2} :
          events' = events \cup [seq : n + 1 .. n + 1 + k - 1, at : {writer[w].at}]
    BY <1>2 DEF Commit, EventsOf
  <2>2. n + 1 + k - 1 = n + k
    BY <1>1
  <2>3. [seq : n + 1 .. n + k, at : {writer[w].at}] = {new(s) : s \in n + 1 .. n + k}
    <3> HIDE DEF n
    <3>1. \A e \in [seq : n + 1 .. n + k, at : {writer[w].at}] : e = new(e.seq)
      OBVIOUS
    <3>2. \A s \in n + 1 .. n + k : new(s) \in [seq : n + 1 .. n + k, at : {writer[w].at}]
      OBVIOUS
    <3> HIDE DEF new
    <3> QED
      BY <3>1, <3>2
  <2> QED
    BY <2>1, <2>2, <2>3
<1>4. \A s : new(s).seq = s /\ new(s).at = writer[w].at
  OBVIOUS
<1>5. \A s, t : new(s) = new(t) => s = t
  BY <1>4
<1>6. \A s \in n + 1 .. n + k : new(s) \notin events
  BY <1>1, <1>4 DEF NInv, Numbering, Committed
<1> HIDE DEF new
<1>7. IsFiniteSet(events') /\ Cardinality(events') = n + k
  <2>1. IsFiniteSet(events \cup {new(n + 1)}) /\ Cardinality(events \cup {new(n + 1)}) = n + 1
    BY <1>1, <1>6, FS_AddElement DEF NInv, Numbering
  <2>2. CASE k = 1
    <3>1. n + 1 .. n + k = {n + 1}
      BY <1>1, <2>2
    <3> QED
      BY <1>3, <2>1, <2>2, <3>1
  <2>3. CASE k = 2
    <3>1. n + 1 .. n + k = {n + 1, n + 2}
      BY <1>1, <2>3
    <3>2. events' = (events \cup {new(n + 1)}) \cup {new(n + 2)}
      BY <1>3, <3>1
    <3>3. new(n + 2) \notin events \cup {new(n + 1)}
      BY <1>1, <1>5, <1>6, <3>1
    <3>4. /\ IsFiniteSet((events \cup {new(n + 1)}) \cup {new(n + 2)})
          /\ Cardinality((events \cup {new(n + 1)}) \cup {new(n + 2)}) = (n + 1) + 1
      BY <2>1, <3>3, FS_AddElement
    <3> QED
      BY <1>1, <2>3, <3>2, <3>4
  <2> QED
    BY <1>3, <2>2, <2>3
<1>8. Committed' = Committed \cup (n + 1 .. n + k)
  BY <1>3, <1>4 DEF Committed
<1>9. Committed' = 1..n + k
  <2>1. Committed = 1..n
    BY DEF NInv, Numbering
  <2> HIDE DEF n
  <2> QED
    BY <1>1, <1>3, <1>8, <2>1
<1>10. /\ writer' \in [Writers -> WriterStates]
       /\ writer'[w].step = "idle"
       /\ \A v \in Writers \ {w} : writer'[v] = writer[v]
  BY IdleWriter, BecomeWriter DEF Commit, NInv
<1>11. \A v \in Writers : ~Inserted(v)'
  BY <1>10 DEF NInv, Numbering, Inserted, Commit
<1>12. \A v \in Writers : Numbered(v)' => writer'[v].seq \in 1..(n + k) + 1
  BY <1>1, <1>10 DEF NInv, Numbering, Numbered
<1>13. \A e, f \in events' : e.seq = f.seq => e = f
  <2>1. \A e \in events : e.seq \in 1..n
    BY DEF NInv, Numbering, Committed
  <2>2. \A e \in events' : e \in events \/ \E s \in n + 1 .. n + k : e = new(s)
    BY <1>3
  <2>3. \A e \in events : \A s \in n + 1 .. n + k : e.seq # new(s).seq
    BY <1>1, <1>4, <2>1
  <2>4. \A e, f \in events : e.seq = f.seq => e = f
    BY DEF NInv, Numbering
  <2> HIDE DEF n
  <2> QED
    BY <1>4, <2>2, <2>3, <2>4
<1>14. Numbering'
  BY <1>7, <1>9, <1>11, <1>12, <1>13 DEF Numbering
<1>15. Dates' = Dates \cup {writer[w].at}
  <2>1. n + 1 \in n + 1 .. n + k
    BY <1>1, <1>3
  <2> HIDE DEF n
  <2> QED
    BY <1>3, <1>4, <2>1 DEF Dates
<1>16. Dated'
  <2>1. writer[w].step # "idle" /\ clock' = clock
    BY DEF Commit
  <2>2. \A v \in Writers : writer'[v].step # "idle" => v # w /\ writer'[v] = writer[v]
    BY <1>10
  <2>3. Dates' \subseteq 1..clock
    BY <1>2, <1>15 DEF NInv, Dated
  <2>4. IsFiniteSet(Dates) /\ Cardinality(Dates) \in Nat
    <3>1. IsFiniteSet(1..clock)
      BY FS_Interval, BoundsAssumption DEF NInv, TypeOK
    <3> QED
      BY <3>1, FS_Subset, FS_CardinalityType DEF NInv, Dated
  <2>5. Cardinality(Dates') = Cardinality(Dates) + 1
    BY <1>2, <1>15, <2>4, FS_AddElement
  <2>6. Cardinality(events') <= 2 * Cardinality(Dates')
    <3>1. n <= 2 * Cardinality(Dates)
      BY DEF NInv, Dated
    <3> HIDE DEF n
    <3> QED
      BY <1>1, <1>3, <1>7, <2>4, <2>5, <3>1
  <2>7. \A v \in Writers : \A e \in events' : writer'[v].step # "idle" => e.at # writer'[v].at
    <3>1. \A e \in events' : e.at \in Dates \/ e.at = writer[w].at
      BY <1>15 DEF Dates
    <3> QED
      BY <2>1, <2>2, <3>1 DEF NInv, Dated, Dates
  <2> QED
    BY <2>1, <2>2, <2>3, <2>6, <2>7 DEF NInv, Dated
<1> QED
  BY <1>8, <1>14, <1>16

-----------------------------------------------------------------------------
(* Every step keeps the types, the numbering and the dates *)

\* What a WebSocket replays, and the sequence it ends with.
ReplayedRows ==
  LET later == {s \in Replayable : s > last}
  IN  {s \in later : Cardinality({t \in later : t < s}) < ReplayLimit}

ReplayedTo ==
  IF Cardinality(events) <= last + ReplayLimit THEN Cardinality(events) ELSE last + ReplayLimit

\* The sequences after the client's, as many as one replay returns.
LEMMA RowsAre == NInv => ReplayedRows = last + 1 .. ReplayedTo
<1> SUFFICES ASSUME NInv PROVE ReplayedRows = last + 1 .. ReplayedTo
  OBVIOUS
<1> DEFINE n == Cardinality(events)
           later == {s \in Replayable : s > last}
<1>1. n \in Nat /\ last \in Nat /\ ReplayLimit \in Nat
  BY LastSequenceIs, BoundsAssumption DEF NInv, TypeOK
<1>2. later = last + 1 .. n
  BY <1>1 DEF Replayable, NInv, Numbering
<1>3. ASSUME NEW s \in later PROVE Cardinality({t \in later : t < s}) = s - 1 - last
  <2>1. {t \in later : t < s} = last + 1 .. s - 1 /\ s \in last + 1 .. n
    <3> HIDE DEF later, n
    <3> QED
      BY <1>1, <1>2
  <2>2. Cardinality(last + 1 .. s - 1) = IF last + 1 > s - 1 THEN 0 ELSE (s - 1) - (last + 1) + 1
    BY <1>1, <2>1, FS_Interval
  <2> DEFINE below == {t \in later : t < s}
             c == Cardinality(last + 1 .. s - 1)
  <2>3. Cardinality(below) = c
    BY <2>1
  <2>4. c = s - 1 - last
    <3> HIDE DEF c, later, n
    <3>1. c = IF last + 1 > s - 1 THEN 0 ELSE (s - 1) - (last + 1) + 1
      BY <2>2 DEF c
    <3> QED
      BY <1>1, <2>1, <3>1
  <2> QED
    BY <2>3, <2>4
<1>4. ReplayedRows = {s \in later : Cardinality({t \in later : t < s}) < ReplayLimit}
  BY DEF ReplayedRows
<1>5. ReplayedRows = {s \in later : s - 1 - last < ReplayLimit}
  BY <1>3, <1>4
<1> HIDE DEF later, n
<1> QED
  BY <1>1, <1>2, <1>5 DEF ReplayedTo, n

\* A replay, in these words.
LEMMA ReplayIs ==
  ASSUME NInv, Replay
  PROVE  /\ ReplayedTo \in Nat /\ ReplayedTo <= Cardinality(events)
         /\ shown' = shown \cup (last + 1 .. ReplayedTo)
         /\ last' = IF last < ReplayedTo THEN ReplayedTo ELSE last
         /\ stream' = "live" /\ stream = "subscribed"
         /\ UNCHANGED <<events, published, writer, clock, batch, taken, overlapped, channel,
                        faults>>
<1>1. /\ shown' = shown \cup ReplayedRows
      /\ last' = IF ReplayedRows = {} THEN last
                  ELSE CHOOSE s \in ReplayedRows : \A t \in ReplayedRows : t <= s
      /\ stream' = "live" /\ stream = "subscribed"
      /\ UNCHANGED <<events, published, writer, clock, batch, taken, overlapped, channel, faults>>
  BY DEF Replay, ReplayedRows
<1>2. Cardinality(events) \in Nat /\ last \in Nat /\ ReplayLimit \in Nat
  BY LastSequenceIs, BoundsAssumption DEF NInv, TypeOK
<1>3. ReplayedTo \in Nat /\ ReplayedTo <= Cardinality(events)
  BY <1>2 DEF ReplayedTo
<1>4. ReplayedRows = last + 1 .. ReplayedTo
  BY RowsAre
<1>5. CASE last < ReplayedTo
  <2>1. ReplayedTo \in ReplayedRows /\ \A t \in ReplayedRows : t <= ReplayedTo
    BY <1>2, <1>3, <1>4, <1>5
  <2>2. \A s \in ReplayedRows : (\A t \in ReplayedRows : t <= s) => s = ReplayedTo
    BY <1>2, <1>3, <1>4, <2>1
  <2> QED
    BY <1>1, <1>3, <1>4, <1>5, <2>1, <2>2
<1>6. CASE ~(last < ReplayedTo)
  BY <1>1, <1>2, <1>3, <1>4, <1>6
<1> QED
  BY <1>5, <1>6

LEMMA NumberingInit == Init => NInv
<1> SUFFICES ASSUME Init PROVE NInv
  OBVIOUS
<1>1. TypeOK
  BY IdleWriter, BoundsAssumption DEF Init, TypeOK, Committed
<1>2. Cardinality(events) = 0 /\ IsFiniteSet(events)
  BY FS_EmptySet DEF Init
<1>3. \A w \in Writers : ~Numbered(w) /\ ~Inserted(w) /\ writer[w].step = "idle"
  BY IdleWriter DEF Init, Numbered, Inserted, Idle
<1>4. Committed = {}
  BY DEF Init, Committed
<1>5. Numbering
  BY <1>2, <1>3, <1>4 DEF Numbering, Init
<1>6. Dated
  <2>1. Dates = {} /\ Cardinality(Dates) = 0
    BY FS_EmptySet DEF Init, Dates
  <2> QED
    BY <1>2, <1>3, <2>1 DEF Dated, Init
<1> QED
  BY <1>1, <1>5, <1>6 DEF NInv

LEMMA NumberingNext == NInv /\ [Next]_vars => NInv'
<1> SUFFICES ASSUME NInv, [Next]_vars PROVE NInv'
  OBVIOUS
<1> DEFINE n == Cardinality(events)
<1>n. n \in Nat /\ LastSequence = n
  BY LastSequenceIs
<1>t. TypeOK
  BY DEF NInv
<1>c. events' = events => Committed' = Committed
  BY DEF Committed
<1>w. \A w \in Writers : writer[w] \in WriterStates
  BY <1>t DEF TypeOK
<1> HIDE DEF n
\* The types, given those of the writers.
<1>k. ASSUME UNCHANGED <<events, published, clock, batch, taken, overlapped, channel, client>>,
             faults' \in 0..MaxFaults, writer' \in [Writers -> WriterStates]
      PROVE  TypeOK'
  BY <1>t, <1>c, <1>k DEF TypeOK, client
<1>1. ASSUME NEW w \in Writers, Begin(w) PROVE NInv'
  <2>1. PICK k \in Kinds : Become(w, [step |-> "begun", kind |-> k, at |-> clock + 1, seq |-> 0])
    BY <1>1 DEF Begin
  <2>2. [step |-> "begun", kind |-> k, at |-> clock + 1, seq |-> 0] \in WriterStates
    BY <1>1, <1>t, BoundsAssumption DEF Begin, WriterStates, TypeOK
  <2>3. /\ writer' \in [Writers -> WriterStates]
        /\ writer'[w].step = "begun" /\ writer'[w].at = clock + 1
        /\ \A v \in Writers \ {w} : writer'[v] = writer[v]
    BY <1>t, <2>1, <2>2, BecomeWriter
  <2>4. Numbering'
    BY <1>1, <1>c, <2>3 DEF NInv, Numbering, Numbered, Inserted, Begin
  <2>5. clock \in Nat /\ clock' = clock + 1 /\ events' = events
    BY <1>1, <1>t, BoundsAssumption DEF Begin, TypeOK
  <2>6. Dated'
    <3>1. Dates' = Dates
      BY <2>5 DEF Dates
    <3>2. \A e \in events : e.at \in 1..clock
      BY DEF NInv, Dated, Dates
    <3> QED
      BY <2>3, <2>5, <3>1, <3>2 DEF NInv, Dated
  <2>7. TypeOK'
    BY <1>1, <1>c, <1>t, <2>3, BoundsAssumption DEF Begin, TypeOK, client
  <2> QED
    BY <2>4, <2>6, <2>7 DEF NInv
<1>2. ASSUME NEW w \in Writers, LockRun(w) PROVE NInv'
  <2>1. TypeOK'
    BY <1>2, <1>k, <1>t, StepWriter DEF LockRun, TypeOK, client
  <2>2. Numbering' /\ Dated'
    BY <1>2, <1>t, StepWriter, OneWriter DEF LockRun, Numbered, Inserted
  <2> QED
    BY <2>1, <2>2 DEF NInv
<1>3. ASSUME NEW w \in Writers, NextSequence(w) PROVE NInv'
  <2> DEFINE next == [writer[w] EXCEPT !.step = "numbered", !.seq = n + 1]
  <2>1. next \in WriterStates /\ next.step = "numbered" /\ next.seq = n + 1
        /\ next.at = writer[w].at
    <3>1. writer[w] \in WriterStates /\ n + 1 \in Nat
      BY <1>n, <1>w
    <3> QED
      BY <3>1 DEF WriterStates
  <2>2. Become(w, next) /\ writer[w].step # "idle"
    BY <1>3, <1>n DEF NextSequence
  <2> HIDE DEF next
  <2>3. /\ writer' \in [Writers -> WriterStates] /\ writer'[w] = next
        /\ \A v \in Writers \ {w} : writer'[v] = writer[v]
    BY <1>t, <2>1, <2>2, BecomeWriter
  <2>4. TypeOK'
    BY <1>3, <1>k, <1>t, <2>3 DEF NextSequence, TypeOK, client
  <2>5. Numbering' /\ Dated'
    BY <1>3, <1>n, <2>1, <2>2, <2>3, OneWriter DEF NextSequence, Numbered, Inserted, n
  <2> QED
    BY <2>4, <2>5 DEF NInv
<1>4. ASSUME NEW w \in Writers, InsertEvent(w) PROVE NInv'
  <2>1. /\ writer' \in [Writers -> WriterStates]
        /\ \A v \in Writers \ {w} : writer'[v] = writer[v]
    BY <1>4, <1>t, StepWriter, IdleWriter, BecomeWriter DEF InsertEvent
  <2>2. TypeOK'
    BY <1>4, <1>k, <1>t, <2>1 DEF InsertEvent, TypeOK, client
  <2>3. CASE Taken(w)
    <3>1. writer'[w].step = "idle"
      BY <1>4, <1>t, <2>3, IdleWriter, BecomeWriter DEF InsertEvent
    <3>2. Numbering' /\ Dated'
      BY <1>4, <2>1, <3>1, OneWriter DEF InsertEvent, Numbered, Inserted
    <3> QED
      BY <2>2, <3>2 DEF NInv
  <2>4. CASE ~Taken(w)
    <3>1. writer'[w].step = "inserted" /\ writer'[w].seq = writer[w].seq
          /\ writer'[w].at = writer[w].at
      BY <1>4, <1>t, <2>4, StepWriter DEF InsertEvent
    <3>2. writer[w].seq \notin Committed /\ writer[w].seq \in 1..n + 1
      BY <1>4, <2>4 DEF Taken, NInv, Numbering, Numbered, InsertEvent, n
    <3>3. writer[w].seq = n + 1
      BY <1>n, <3>2 DEF NInv, Numbering, n
    <3>4. ASSUME NEW v \in Writers \ {w}, Inserted(v) PROVE FALSE
      <4>1. writer[v].seq = n + 1
        BY <1>n, <3>4 DEF NInv, Numbering, Inserted, Numbered, n
      <4> QED
        BY <1>4, <3>3, <3>4, <4>1 DEF InsertEvent, Rivals, Inserted
    <3>5. Numbering' /\ Dated'
      BY <1>4, <2>1, <3>1, <3>2, <3>4, OneWriter DEF InsertEvent, Numbered, Inserted, n
    <3> QED
      BY <2>2, <3>5 DEF NInv
  <2> QED
    BY <2>3, <2>4
<1>5. ASSUME NEW w \in Writers, ShareRun(w) PROVE NInv'
  <2>1. /\ writer' \in [Writers -> WriterStates] /\ writer'[w].step = "checked"
        /\ writer'[w].seq = writer[w].seq /\ writer'[w].at = writer[w].at
        /\ \A v \in Writers \ {w} : writer'[v] = writer[v]
    BY <1>5, <1>t, StepWriter DEF ShareRun
  <2>2. TypeOK'
    BY <1>5, <1>k, <1>t, <2>1 DEF ShareRun, TypeOK, client
  <2>3. Numbered(w) /\ Inserted(w)
    BY <1>5 DEF ShareRun, Numbered, Inserted
  <2>4. Numbering' /\ Dated'
    BY <1>5, <2>1, <2>3, OneWriter DEF ShareRun, NInv, Numbering
  <2> QED
    BY <2>2, <2>4 DEF NInv
<1>6. ASSUME NEW w \in Writers, Commit(w) PROVE NInv'
  <2>1. Numbering' /\ Dated' /\ Committed \subseteq Committed'
    BY <1>6, CommitNumbering
  <2>2. writer' \in [Writers -> WriterStates]
    BY <1>6, <1>t, IdleWriter, BecomeWriter DEF Commit
  <2>3. writer[w].seq \in Nat \ {0} /\ writer[w].at \in 1..MaxTx
    BY <1>6, <1>n, <1>t, BoundsAssumption
       DEF NInv, Numbering, Numbered, Dated, Commit, TypeOK, n
  <2>4. events' \subseteq [seq : Nat \ {0}, at : 1..MaxTx]
    BY <1>6, <1>t, <2>3 DEF Commit, EventsOf, TypeOK
  <2>5. TypeOK'
    BY <1>6, <1>t, <2>1, <2>2, <2>4 DEF Commit, TypeOK, client
  <2> QED
    BY <2>1, <2>5 DEF NInv
<1>7. ASSUME NEW w \in Writers, Become(w, Idle), faults' \in 0..MaxFaults,
             UNCHANGED <<events, published, clock, batch, taken, overlapped, channel, client>>
      PROVE  NInv'
  <2>1. /\ writer' \in [Writers -> WriterStates] /\ writer'[w].step = "idle"
        /\ \A v \in Writers \ {w} : writer'[v] = writer[v]
    BY <1>7, <1>t, IdleWriter, BecomeWriter
  <2>2. TypeOK'
    BY <1>7, <1>k, <2>1
  <2>3. Numbering' /\ Dated'
    BY <1>7, <2>1, OneWriter DEF Numbered, Inserted
  <2> QED
    BY <2>2, <2>3 DEF NInv
<1>8. ASSUME NEW w \in Writers, Rollback(w) PROVE NInv'
  BY <1>7, <1>8, <1>t, BoundsAssumption DEF Rollback, Fault, TypeOK
<1>9. CASE BreakDeadlock
  BY <1>7, <1>9, <1>t DEF BreakDeadlock, TypeOK
<1>10. ASSUME UNCHANGED <<events, writer, clock>>, TypeOK' PROVE NInv'
  BY <1>10, NoWriter DEF NInv
<1> USE <1>t DEF TypeOK
<1>11. ASSUME NEW b \in Publishers, StartBatch(b) PROVE NInv'
  BY <1>c, <1>10, <1>11 DEF StartBatch, Free, client
<1>12. ASSUME NEW b \in Publishers, PublishEvent(b) PROVE NInv'
  BY <1>c, <1>10, <1>12 DEF PublishEvent, client
<1>13. ASSUME NEW b \in Publishers, CommitBatch(b) PROVE NInv'
  BY <1>c, <1>10, <1>13 DEF CommitBatch, client
<1>14. ASSUME NEW b \in Publishers, LoseBatch(b) PROVE NInv'
  BY <1>c, <1>10, <1>14, BoundsAssumption DEF LoseBatch, Fault, client
<1>15. CASE Subscribe
  BY <1>c, <1>10, <1>15 DEF Subscribe
<1>16. CASE Replay
  <2>1. (last + 1 .. ReplayedTo) \subseteq Committed /\ last' \in Nat
    BY <1>n, <1>16, ReplayIs DEF NInv, Numbering, n
  <2> QED
    BY <1>c, <1>10, <1>16, <2>1, ReplayIs
<1>17. CASE Forward
  <2>1. Head(channel) \in Committed /\ Tail(channel) \in Seq(Committed)
    BY <1>17 DEF Forward
  <2>2. Committed \subseteq Nat
    BY <1>n DEF NInv, Numbering, n
  <2> QED
    BY <1>c, <1>10, <1>17, <2>1, <2>2 DEF Forward
<1>18. CASE Disconnect
  BY <1>c, <1>10, <1>18, BoundsAssumption DEF Disconnect, Fault
<1>19. CASE UNCHANGED vars
  BY <1>c, <1>10, <1>19 DEF vars, client
<1> QED
  BY <1>1, <1>2, <1>3, <1>4, <1>5, <1>6, <1>8, <1>9, <1>11, <1>12, <1>13, <1>14, <1>15,
     <1>16, <1>17, <1>18, <1>19 DEF Next, WriterStep, PublisherStep, StreamStep

\* Every variable keeps its type, whatever the transactions, the publishers and
\* the client do.
THEOREM OutboxTypeCorrect == Spec => []TypeOK
<1>1. NInv => TypeOK
  BY DEF NInv
<1> QED
  BY NumberingInit, NumberingNext, <1>1, PTL DEF Spec

\* Transactions that number their events without coordination, wait for each
\* other, deadlock and roll back commit the sequences 1, 2, 3, ... without gap or
\* repeat.
THEOREM SequencesAreDense == Spec => []SequencesDense
<1>1. NInv => SequencesDense
  <2> SUFFICES ASSUME NInv PROVE SequencesDense
    OBVIOUS
  <2> DEFINE n == Cardinality(events)
  <2>1. n \in Nat /\ Committed = 1..n
    BY LastSequenceIs DEF NInv, Numbering
  <2>2. Cardinality(1..n) = n
    BY <2>1, FS_Interval
  <2> QED
    BY <2>1, <2>2 DEF SequencesDense
<1> QED
  BY NumberingInit, NumberingNext, <1>1, PTL DEF Spec

-----------------------------------------------------------------------------
(* What is published and shown *)

\* PublishedWasSent is inductive once types are known.
LEMMA PublishedNext == NInv /\ NInv' /\ PublishedWasSent /\ [Next]_vars => PublishedWasSent'
<1> SUFFICES ASSUME NInv, NInv', PublishedWasSent, [Next]_vars PROVE PublishedWasSent'
  OBVIOUS
<1> USE DEF PublishedWasSent
<1>t. TypeOK /\ TypeOK'
  BY DEF NInv
<1>u. /\ shown \subseteq Committed /\ channel \in Seq(Committed)
      /\ batch \in [Publishers -> SUBSET Committed] /\ taken \in [Publishers -> SUBSET Committed]
  BY <1>t DEF TypeOK
<1>v. /\ shown' \subseteq Committed' /\ channel' \in Seq(Committed')
  BY <1>t DEF TypeOK
\* What is shown or forwarded is committed: that is the type of both.
<1>s. (shown \cup {channel[i] : i \in DOMAIN channel} \subseteq Committed)'
  <2>1. \A i \in DOMAIN channel' : channel'[i] \in Committed'
    BY <1>v
  <2> QED
    BY <1>v, <2>1
<1>p. SUFFICES /\ \A b, c \in Publishers : b # c => taken'[b] \cap taken'[c] = {}
               /\ \A b \in Publishers : taken'[b] \cap published' = {} /\ batch'[b] \subseteq taken'[b]
  BY <1>s
<1>1. CASE UNCHANGED <<published, taken, batch>>
  BY <1>1
<1>2. ASSUME NEW b \in Publishers, StartBatch(b)
      PROVE  /\ \A c, d \in Publishers : c # d => taken'[c] \cap taken'[d] = {}
             /\ \A c \in Publishers : taken'[c] \cap published' = {} /\ batch'[c] \subseteq taken'[c]
  BY <1>u, <1>2 DEF StartBatch, Free
<1>3. ASSUME NEW b \in Publishers, PublishEvent(b)
      PROVE  /\ \A c, d \in Publishers : c # d => taken'[c] \cap taken'[d] = {}
             /\ \A c \in Publishers : taken'[c] \cap published' = {} /\ batch'[c] \subseteq taken'[c]
  BY <1>u, <1>3 DEF PublishEvent
<1>4. ASSUME NEW b \in Publishers, CommitBatch(b)
      PROVE  /\ \A c, d \in Publishers : c # d => taken'[c] \cap taken'[d] = {}
             /\ \A c \in Publishers : taken'[c] \cap published' = {} /\ batch'[c] \subseteq taken'[c]
  BY <1>u, <1>4 DEF CommitBatch
<1>5. ASSUME NEW b \in Publishers, LoseBatch(b)
      PROVE  /\ \A c, d \in Publishers : c # d => taken'[c] \cap taken'[d] = {}
             /\ \A c \in Publishers : taken'[c] \cap published' = {} /\ batch'[c] \subseteq taken'[c]
  BY <1>u, <1>5 DEF LoseBatch
<1>6. ASSUME NEW w \in Writers, Begin(w) \/ WriterStep(w) \/ Rollback(w)
      PROVE  UNCHANGED <<published, taken, batch>>
  BY <1>6 DEF Begin, WriterStep, Rollback, LockRun, NextSequence, InsertEvent, ShareRun, Commit
<1>7. ASSUME BreakDeadlock \/ StreamStep \/ Disconnect \/ UNCHANGED vars
      PROVE  UNCHANGED <<published, taken, batch>>
  BY <1>7 DEF BreakDeadlock, StreamStep, Subscribe, Replay, Forward, Disconnect, vars
<1> QED
  BY <1>1, <1>2, <1>3, <1>4, <1>5, <1>6, <1>7 DEF Next, PublisherStep

\* Overlapping publishers never hold the same event, an event is marked published
\* only with the batch that sent it, and nobody is shown what is not committed.
THEOREM PublishedEventsWereSent == Spec => []PublishedWasSent
<1>1. Init => PublishedWasSent
  BY DEF Init, PublishedWasSent
<1> QED
  BY NumberingInit, NumberingNext, PublishedNext, <1>1, PTL DEF Spec

-----------------------------------------------------------------------------
(* What a client may miss *)

\* No more events than two for each transaction that was begun.
LEMMA EventsBounded == NInv => Cardinality(events) <= 2 * MaxTx
<1> SUFFICES ASSUME NInv PROVE Cardinality(events) <= 2 * MaxTx
  OBVIOUS
<1>1. clock \in Nat /\ clock <= MaxTx /\ MaxTx \in Nat
  BY BoundsAssumption DEF NInv, TypeOK
<1>2. IsFiniteSet(1..clock) /\ Cardinality(1..clock) = IF 1 > clock THEN 0 ELSE clock - 1 + 1
  BY <1>1, FS_Interval
<1>3. Cardinality(Dates) <= Cardinality(1..clock) /\ IsFiniteSet(Dates)
  BY <1>2, FS_Subset DEF NInv, Dated
<1>4. Cardinality(Dates) \in Nat /\ Cardinality(events) \in Nat
  BY <1>3, FS_CardinalityType, LastSequenceIs
<1>5. Cardinality(events) <= 2 * Cardinality(Dates)
  BY DEF NInv, Dated
<1> DEFINE most == Cardinality(1..clock)
<1>6. most = clock
  BY <1>1, <1>2
<1>7. Cardinality(Dates) <= most
  BY <1>3
<1> HIDE DEF most
<1> QED
  BY <1>1, <1>4, <1>5, <1>6, <1>7

\* When the transaction of a committed event began.
LEMMA OccurredAtIs ==
  ASSUME NInv, NEW e \in events
  PROVE  OccurredAt(e.seq) = e.at
<1>1. \A f \in events : f.seq = e.seq => f = e
  BY DEF NInv, Numbering
<1> QED
  BY <1>1 DEF OccurredAt

\* The order of the selection is total on what is committed.
LEMMA OrderTotal ==
  ASSUME NInv, NEW s \in Committed, NEW t \in Committed, s # t
  PROVE  Order(s, t) <=> ~Order(t, s)
<1>1. ASSUME NEW u \in Committed PROVE OccurredAt(u) \in Nat
  <2>1. PICK e \in events : e.seq = u
    BY DEF Committed
  <2>2. e.at \in Nat
    BY BoundsAssumption DEF NInv, TypeOK
  <2> QED
    BY <2>1, <2>2, OccurredAtIs
<1>2. s \in Nat /\ t \in Nat
  BY LastSequenceIs DEF NInv, Numbering
<1> QED
  BY <1>1, <1>2 DEF Order

\* Later events do not change it.
LEMMA OrderKept ==
  ASSUME NInv, NInv', events \subseteq events', NEW s \in Committed, NEW t \in Committed
  PROVE  Order(s, t)' <=> Order(s, t)
<1>1. ASSUME NEW u \in Committed PROVE OccurredAt(u)' = OccurredAt(u)
  <2>1. PICK e \in events : e.seq = u
    BY DEF Committed
  <2>2. OccurredAt(u) = e.at
    BY <2>1, OccurredAtIs
  <2>3. \A f \in events' : f.seq = e.seq => f = e
    BY <2>1 DEF NInv, Numbering
  <2>4. OccurredAt(u)' = e.at
    BY <2>1, <2>3 DEF OccurredAt
  <2> QED
    BY <2>2, <2>4
<1> QED
  BY <1>1 DEF Order

\* What the client has, or will read.
Seen(s) == s <= last \/ \E i \in DOMAIN channel : channel[i] = s

\* A client that reads live messages has, or will read before a later sequence,
\* every event that was sent, and every event that precedes one still to be sent
\* or read by a publisher that was alone when it selected that one.
Promised ==
  stream = "live" =>
    /\ \A s \in published : Seen(s)
    /\ \A b \in Publishers : \A s \in taken[b] \ batch[b] : Seen(s)
    /\ \A b \in Publishers : \A h \in batch[b] : \A s \in Committed :
         s < h /\ Order(s, h) /\ h \notin overlapped => Seen(s) \/ s \in batch[b]
    /\ \A i \in DOMAIN channel : \A s \in Committed :
         s < channel[i] /\ Order(s, channel[i]) /\ channel[i] \notin overlapped
           => s <= last \/ \E j \in 1..i - 1 : channel[j] = s

SInv == last <= Cardinality(events) /\ SkippedWasOvertaken /\ Promised

\* Sequences up to the client's are committed.
LEMMA BelowLast == NInv /\ last <= Cardinality(events) => 1..last \subseteq Committed /\ last \in Nat
  BY LastSequenceIs DEF NInv, Numbering, TypeOK

\* What was passed over stays so while more is committed, selected and shown.
LEMMA SkippedKept ==
  ASSUME NInv, NInv', SInv, events \subseteq events', overlapped \subseteq overlapped',
         shown \subseteq shown', NEW s \in (1..last) \ shown'
  PROVE  \E t \in shown' : s < t /\ (Order(t, s)' \/ t \in overlapped')
<1>1. PICK t \in shown : s < t /\ (Order(t, s) \/ t \in overlapped)
  BY DEF SInv, SkippedWasOvertaken
<1>2. s \in Committed /\ t \in Committed
  BY BelowLast DEF SInv, NInv, TypeOK
<1>3. Order(t, s)' <=> Order(t, s)
  BY <1>2, OrderKept
<1> QED
  BY <1>1, <1>3

\* Steps of the writers.
LEMMA WritersPromise ==
  ASSUME NInv, NInv', SInv, events \subseteq events',
         UNCHANGED <<published, batch, taken, overlapped, channel, stream, last, shown>>
  PROVE  SInv'
<1>n. Cardinality(events) \in Nat /\ Committed = 1..Cardinality(events)
  BY LastSequenceIs DEF NInv, Numbering
<1>m. Cardinality(events') \in Nat /\ Committed' = 1..Cardinality(events')
  BY LastSequenceIs, FS_CardinalityType DEF NInv, Numbering
<1>1. Cardinality(events) <= Cardinality(events')
  BY FS_Subset DEF NInv, Numbering
<1>2. last' <= Cardinality(events')
  BY <1>n, <1>m, <1>1 DEF SInv, NInv, TypeOK
<1>3. SkippedWasOvertaken'
  BY SkippedKept DEF SkippedWasOvertaken
<1>4. \A s \in Committed', h \in Committed : s < h => s \in Committed
  BY <1>n, <1>m
<1>5. \A s \in Committed, h \in Committed : Order(s, h)' <=> Order(s, h)
  BY OrderKept
<1>6. /\ \A b \in Publishers : batch[b] \subseteq Committed
      /\ \A i \in DOMAIN channel : channel[i] \in Committed
  BY DEF NInv, TypeOK
<1>7. Promised'
  <2> SUFFICES ASSUME stream = "live"
               PROVE  /\ \A s \in published : Seen(s)
                      /\ \A b \in Publishers : \A s \in taken[b] \ batch[b] : Seen(s)
                      /\ \A b \in Publishers : \A h \in batch[b] : \A s \in Committed' :
                           s < h /\ Order(s, h)' /\ h \notin overlapped => Seen(s) \/ s \in batch[b]
                      /\ \A i \in DOMAIN channel : \A s \in Committed' :
                           s < channel[i] /\ Order(s, channel[i])' /\ channel[i] \notin overlapped
                             => s <= last \/ \E j \in 1..i - 1 : channel[j] = s
    BY DEF Promised, Seen
  <2> QED
    BY <1>4, <1>5, <1>6 DEF SInv, Promised
<1> QED
  BY <1>2, <1>3, <1>7 DEF SInv

\* Steps of the publishers and of the stream change no event.
LEMMA SameEvents ==
  ASSUME NInv, NInv', SInv, UNCHANGED <<events, writer, clock>>,
         overlapped \subseteq overlapped', shown \subseteq shown'
  PROVE  /\ Committed' = Committed /\ Cardinality(events') = Cardinality(events)
         /\ \A s \in Committed, h \in Committed : Order(s, h)' <=> Order(s, h)
         /\ last' = last => SkippedWasOvertaken'
<1>1. Committed' = Committed
  BY DEF Committed
<1>2. \A s \in Committed, h \in Committed : Order(s, h)' <=> Order(s, h)
  BY OrderKept
<1>3. last' = last => SkippedWasOvertaken'
  BY SkippedKept DEF SkippedWasOvertaken
<1> QED
  BY <1>1, <1>2, <1>3

LEMMA StartPromise ==
  ASSUME NInv, NInv', SInv, NEW b \in Publishers, StartBatch(b)
  PROVE  SInv'
<1>1. /\ taken[b] = {} /\ taken' = [taken EXCEPT ![b] = Free] /\ batch' = [batch EXCEPT ![b] = Free]
      /\ overlapped \subseteq overlapped'
      /\ (\E c \in Publishers : taken[c] # {}) => Free \subseteq overlapped'
      /\ UNCHANGED <<events, published, writer, clock, channel, stream, last, shown, faults>>
  BY DEF StartBatch, client
<1>2. /\ Committed' = Committed /\ Cardinality(events') = Cardinality(events)
      /\ \A s \in Committed, h \in Committed : Order(s, h)' <=> Order(s, h)
      /\ SkippedWasOvertaken'
  BY <1>1, SameEvents
<1>3. taken \in [Publishers -> SUBSET Committed] /\ batch \in [Publishers -> SUBSET Committed]
      /\ \A i \in DOMAIN channel : channel[i] \in Committed
  BY DEF NInv, TypeOK
<1>4. Promised'
  <2> SUFFICES ASSUME stream = "live" PROVE Promised'
    BY <1>1 DEF Promised
  <2>1. \A s \in published' : Seen(s)'
    BY <1>1 DEF SInv, Promised, Seen
  <2>2. \A c \in Publishers : \A s \in taken'[c] \ batch'[c] : Seen(s)'
    BY <1>1, <1>3 DEF SInv, Promised, Seen
  <2>3. ASSUME NEW c \in Publishers, NEW h \in batch'[c], NEW s \in Committed,
               s < h, Order(s, h), h \notin overlapped'
        PROVE  Seen(s) \/ s \in batch'[c]
    <3>1. CASE c = b
      <4>1. h \in Free /\ \A d \in Publishers : taken[d] = {}
        BY <1>1, <1>3, <2>3, <3>1
      <4>2. s \in published \/ s \in Free
        BY <4>1 DEF Free
      <4> QED
        BY <1>1, <1>3, <3>1, <4>2 DEF SInv, Promised
    <3>2. CASE c # b
      BY <1>1, <1>3, <2>3, <3>2 DEF SInv, Promised
    <3> QED
      BY <3>1, <3>2
  <2>4. \A i \in DOMAIN channel : \A s \in Committed :
          s < channel[i] /\ Order(s, channel[i]) /\ channel[i] \notin overlapped'
            => s <= last \/ \E j \in 1..i - 1 : channel[j] = s
    BY <1>1 DEF SInv, Promised
  <2>5. \A c \in Publishers : batch'[c] \subseteq Committed
    BY <1>1, <1>3 DEF Free
  <2> QED
    BY <1>1, <1>2, <1>3, <2>1, <2>2, <2>3, <2>4, <2>5 DEF Promised, Seen
<1> QED
  BY <1>1, <1>2, <1>4 DEF SInv

LEMMA PublishPromise ==
  ASSUME NInv, NInv', SInv, NEW b \in Publishers, PublishEvent(b)
  PROVE  SInv'
<1>1. PICK first \in batch[b] :
        /\ \A t \in batch[b] \ {first} : Order(first, t)
        /\ channel' = IF Subscribed THEN Append(channel, first) ELSE channel
        /\ batch' = [batch EXCEPT ![b] = @ \ {first}]
        /\ UNCHANGED <<events, published, writer, clock, taken, overlapped, stream, last, shown, faults>>
  BY DEF PublishEvent, client
<1>2. /\ Committed' = Committed /\ Cardinality(events') = Cardinality(events)
      /\ \A s \in Committed, h \in Committed : Order(s, h)' <=> Order(s, h)
      /\ SkippedWasOvertaken'
  BY <1>1, SameEvents
<1>3. /\ taken \in [Publishers -> SUBSET Committed] /\ batch \in [Publishers -> SUBSET Committed]
      /\ channel \in Seq(Committed)
  BY DEF NInv, TypeOK
<1>4. Promised'
  <2> SUFFICES ASSUME stream = "live" PROVE Promised'
    BY <1>1 DEF Promised
  <2>1. channel' = Append(channel, first)
    BY <1>1 DEF Subscribed
  <2>2. /\ DOMAIN channel = 1..Len(channel) /\ Len(channel) \in Nat
        /\ DOMAIN channel' = 1..Len(channel) + 1
        /\ \A i \in 1..Len(channel) : channel'[i] = channel[i] /\ channel[i] \in Committed
        /\ channel'[Len(channel) + 1] = first
    BY <1>3, <2>1
  <2>3. Seen(first)' /\ \A s : Seen(s) => Seen(s)'
    BY <1>1, <2>2 DEF Seen
  <2>4. \A s \in published' : Seen(s)'
    BY <1>1, <2>3 DEF SInv, Promised
  <2>5. \A c \in Publishers : \A s \in taken'[c] \ batch'[c] : Seen(s)'
    BY <1>1, <1>3, <2>3 DEF SInv, Promised
  <2>6. ASSUME NEW c \in Publishers, NEW h \in batch'[c], NEW s \in Committed,
               s < h, Order(s, h), h \notin overlapped
        PROVE  Seen(s)' \/ s \in batch'[c]
    <3>1. h \in batch[c]
      BY <1>1, <1>3, <2>6
    <3>2. Seen(s) \/ s \in batch[c]
      BY <2>6, <3>1 DEF SInv, Promised
    <3> QED
      BY <1>1, <1>3, <2>3, <3>2
  <2>7. ASSUME NEW s \in Committed, s < first, Order(s, first), first \notin overlapped
        PROVE  s <= last \/ \E j \in 1..Len(channel) : channel[j] = s
    <3>1. Seen(s) \/ s \in batch[b]
      BY <2>7 DEF SInv, Promised
    <3>2. s # first /\ first \in Committed
      BY <1>3, <2>7, LastSequenceIs DEF NInv, Numbering
    <3>3. s \notin batch[b]
      BY <1>1, <2>7, <3>2, OrderTotal
    <3> QED
      BY <2>2, <3>1, <3>3 DEF Seen
  <2>8. ASSUME NEW i \in DOMAIN channel', NEW s \in Committed,
               s < channel'[i], Order(s, channel'[i]), channel'[i] \notin overlapped
        PROVE  s <= last \/ \E j \in 1..i - 1 : channel'[j] = s
    <3>1. CASE i = Len(channel) + 1
      BY <2>2, <2>7, <2>8, <3>1
    <3>2. CASE i \in DOMAIN channel
      <4>1. s <= last \/ \E j \in 1..i - 1 : channel[j] = s
        BY <2>2, <2>8, <3>2 DEF SInv, Promised
      <4> QED
        BY <2>2, <3>2, <4>1
    <3> QED
      BY <2>2, <3>1, <3>2
  <2>9. /\ \A c \in Publishers : batch'[c] \subseteq Committed
        /\ \A i \in DOMAIN channel' : channel'[i] \in Committed
    BY <1>1, <1>3, <2>2
  <2> QED
    BY <1>1, <1>2, <2>4, <2>5, <2>6, <2>8, <2>9 DEF Promised
<1> QED
  BY <1>1, <1>2, <1>4 DEF SInv

LEMMA CommitPromise ==
  ASSUME NInv, NInv', SInv, NEW b \in Publishers, CommitBatch(b)
  PROVE  SInv'
<1>1. /\ batch[b] = {} /\ published' = published \cup taken[b]
      /\ taken' = [taken EXCEPT ![b] = {}]
      /\ UNCHANGED <<events, writer, clock, batch, overlapped, channel, stream, last, shown, faults>>
  BY DEF CommitBatch, client
<1>2. /\ Committed' = Committed /\ Cardinality(events') = Cardinality(events)
      /\ \A s \in Committed, h \in Committed : Order(s, h)' <=> Order(s, h)
      /\ SkippedWasOvertaken'
  BY <1>1, SameEvents
<1>3. /\ taken \in [Publishers -> SUBSET Committed] /\ batch \in [Publishers -> SUBSET Committed]
      /\ \A i \in DOMAIN channel : channel[i] \in Committed
  BY DEF NInv, TypeOK
<1>4. Promised'
  BY <1>1, <1>2, <1>3 DEF SInv, Promised, Seen
<1> QED
  BY <1>1, <1>2, <1>4 DEF SInv

LEMMA LosePromise ==
  ASSUME NInv, NInv', SInv, NEW b \in Publishers, LoseBatch(b)
  PROVE  SInv'
<1>1. /\ taken' = [taken EXCEPT ![b] = {}] /\ batch' = [batch EXCEPT ![b] = {}]
      /\ UNCHANGED <<events, published, writer, clock, overlapped, channel, stream, last, shown>>
  BY DEF LoseBatch, client
<1>2. /\ Committed' = Committed /\ Cardinality(events') = Cardinality(events)
      /\ \A s \in Committed, h \in Committed : Order(s, h)' <=> Order(s, h)
      /\ SkippedWasOvertaken'
  BY <1>1, SameEvents
<1>3. /\ taken \in [Publishers -> SUBSET Committed] /\ batch \in [Publishers -> SUBSET Committed]
      /\ \A i \in DOMAIN channel : channel[i] \in Committed
  BY DEF NInv, TypeOK
<1>4. Promised'
  BY <1>1, <1>2, <1>3 DEF SInv, Promised, Seen
<1> QED
  BY <1>1, <1>2, <1>4 DEF SInv

\* A subscription or a disconnection, after which nothing is promised.
LEMMA NoPromise ==
  ASSUME NInv, NInv', SInv, stream' # "live",
         UNCHANGED <<events, writer, clock, overlapped, last, shown>>
  PROVE  SInv'
  BY SameEvents DEF SInv, Promised

\* A replay that is not cut short reaches the last committed event.
LEMMA ReplayPromise ==
  ASSUME NInv, NInv', SInv, Replay, 2 * MaxTx <= ReplayLimit
  PROVE  SInv'
<1>1. Cardinality(events) \in Nat /\ Cardinality(events) <= ReplayLimit /\ last \in Nat
  BY LastSequenceIs, EventsBounded, BoundsAssumption DEF NInv, TypeOK
<1>2. ReplayedTo = Cardinality(events) /\ last <= Cardinality(events)
  BY <1>1, BoundsAssumption DEF ReplayedTo, SInv
<1>3. /\ shown' = shown \cup (last + 1 .. Cardinality(events))
      /\ last' = Cardinality(events)
      /\ UNCHANGED <<events, published, writer, clock, batch, taken, overlapped, channel, faults>>
  BY <1>1, <1>2, ReplayIs
<1>4. /\ Committed' = Committed /\ Cardinality(events') = Cardinality(events)
      /\ \A s \in Committed, h \in Committed : Order(s, h)' <=> Order(s, h)
  BY <1>3, SameEvents
<1>5. SkippedWasOvertaken'
  <2>1. \A s \in (1..last') \ shown' : s \in (1..last) \ shown'
    BY <1>1, <1>2, <1>3
  <2>2. \A s \in (1..last') \ shown' :
          \E t \in shown' : s < t /\ (Order(t, s)' \/ t \in overlapped')
    BY <1>3, <2>1, SkippedKept
  <2> QED
    BY <2>2 DEF SkippedWasOvertaken
<1>6. \A s \in Committed : s <= last'
  BY <1>1, <1>3 DEF NInv, Numbering
<1>7. Promised'
  <2>1. published \subseteq Committed /\ taken \in [Publishers -> SUBSET Committed]
    BY DEF NInv, TypeOK
  <2> QED
    BY <1>3, <1>4, <1>6, <2>1 DEF Promised, Seen
<1> QED
  BY <1>1, <1>3, <1>4, <1>5, <1>7 DEF SInv

LEMMA ForwardPromise ==
  ASSUME NInv, NInv', SInv, Forward
  PROVE  SInv'
<1> DEFINE head == channel[1]
<1>1. /\ stream = "live" /\ channel # <<>> /\ channel' = Tail(channel)
      /\ IF head > last THEN last' = head /\ shown' = shown \cup {head}
         ELSE UNCHANGED <<last, shown>>
      /\ UNCHANGED <<events, published, writer, clock, batch, taken, overlapped, stream, faults>>
  BY DEF Forward, NInv, TypeOK
<1>2. /\ Committed' = Committed /\ Cardinality(events') = Cardinality(events)
      /\ \A s \in Committed, h \in Committed : Order(s, h)' <=> Order(s, h)
      /\ last' = last => SkippedWasOvertaken'
  BY <1>1, SameEvents
<1>3. /\ taken \in [Publishers -> SUBSET Committed] /\ batch \in [Publishers -> SUBSET Committed]
      /\ channel \in Seq(Committed) /\ published \subseteq Committed
  BY DEF NInv, TypeOK
<1>4. /\ Len(channel) \in Nat \ {0} /\ DOMAIN channel = 1..Len(channel)
      /\ DOMAIN channel' = 1..Len(channel) - 1
      /\ \A i \in DOMAIN channel' : channel'[i] = channel[i + 1]
      /\ \A i \in DOMAIN channel : channel[i] \in Committed
  BY <1>1, <1>3
<1>n. /\ Cardinality(events) \in Nat /\ Committed = 1..Cardinality(events)
      /\ last \in Nat /\ last <= Cardinality(events)
  BY LastSequenceIs DEF NInv, Numbering, TypeOK, SInv
<1>h. head \in Committed /\ head \in Nat
  BY <1>4, <1>n
<1> HIDE DEF head
<1>5. last' \in Nat /\ last <= last' /\ head <= last' /\ last' <= Cardinality(events)
  BY <1>1, <1>h, <1>n
<1>6. SkippedWasOvertaken'
  <2>1. CASE ~(head > last)
    BY <1>1, <1>2, <2>1
  <2>2. CASE head > last
    <3> SUFFICES ASSUME NEW s \in (1..last') \ shown'
                 PROVE  \E t \in shown' : s < t /\ (Order(t, s)' \/ t \in overlapped')
      BY DEF SkippedWasOvertaken
    <3>1. CASE s <= last
      <4>1. s \in (1..last) \ shown'
        BY <1>n, <1>5, <3>1
      <4> QED
        BY <1>1, <4>1, SkippedKept
    <3>2. CASE s > last
      <4>1. s < head /\ s \in Committed
        BY <1>1, <1>5, <1>n, <2>2, <1>h
      <4>2. 1 \in DOMAIN channel /\ \A j \in 1..1 - 1 : FALSE
        BY <1>4
      <4>3. ~Order(s, head) \/ head \in overlapped
        BY <1>1, <3>2, <4>1, <4>2, <1>n DEF SInv, Promised, head
      <4>4. Order(head, s) \/ head \in overlapped
        BY <1>h, <4>1, <4>3, OrderTotal, <1>n
      <4> QED
        BY <1>1, <1>2, <1>h, <2>2, <4>1, <4>4
    <3> QED
      BY <1>n, <1>5, <3>1, <3>2
  <2> QED
    BY <2>1, <2>2
<1>7. \A s \in Committed : Seen(s) => Seen(s)'
  <2> SUFFICES ASSUME NEW s \in Committed, Seen(s) PROVE Seen(s)'
    OBVIOUS
  <2>1. CASE s <= last
    BY <1>5, <1>n, <2>1 DEF Seen
  <2>2. ASSUME NEW i \in DOMAIN channel, channel[i] = s PROVE Seen(s)'
    <3>1. CASE i = 1
      BY <1>5, <2>2, <3>1 DEF Seen, head
    <3>2. CASE i # 1
      <4>1. i - 1 \in DOMAIN channel' /\ channel'[i - 1] = s
        BY <1>4, <2>2, <3>2
      <4> QED
        BY <4>1 DEF Seen
    <3> QED
      BY <3>1, <3>2
  <2> QED
    BY <2>1, <2>2 DEF Seen
<1>8. ASSUME NEW i \in DOMAIN channel', NEW s \in Committed,
             s < channel'[i], Order(s, channel'[i]), channel'[i] \notin overlapped
      PROVE  s <= last' \/ \E j \in 1..i - 1 : channel'[j] = s
  <2>1. i + 1 \in DOMAIN channel /\ channel'[i] = channel[i + 1] /\ i \in Nat \ {0}
    BY <1>4
  <2>2. s <= last \/ \E j \in 1..(i + 1) - 1 : channel[j] = s
    BY <1>1, <1>8, <2>1 DEF SInv, Promised
  <2>3. CASE s <= last
    BY <1>5, <1>n, <2>3
  <2>4. ASSUME NEW j \in 1..(i + 1) - 1, channel[j] = s
        PROVE  s <= last' \/ \E k \in 1..i - 1 : channel'[k] = s
    <3>1. CASE j = 1
      BY <1>5, <2>4, <3>1 DEF head
    <3>2. CASE j # 1
      <4>1. j - 1 \in 1..i - 1 /\ j - 1 \in DOMAIN channel'
        BY <1>4, <2>1, <3>2
      <4>2. channel'[j - 1] = s
        BY <1>4, <2>1, <2>4, <4>1
      <4> QED
        BY <4>1, <4>2
    <3> QED
      BY <3>1, <3>2
  <2> QED
    BY <2>2, <2>3, <2>4
<1>9. Promised'
  <2>1. \A s \in published' : Seen(s)'
    BY <1>1, <1>3, <1>7 DEF SInv, Promised
  <2>2. \A b \in Publishers : \A s \in taken'[b] \ batch'[b] : Seen(s)'
    BY <1>1, <1>3, <1>7 DEF SInv, Promised
  <2>3. ASSUME NEW b \in Publishers, NEW h \in batch'[b], NEW s \in Committed,
               s < h, Order(s, h), h \notin overlapped
        PROVE  Seen(s)' \/ s \in batch'[b]
    BY <1>1, <1>3, <1>7, <2>3 DEF SInv, Promised
  <2>4. /\ \A b \in Publishers : batch'[b] \subseteq Committed
        /\ \A i \in DOMAIN channel' : channel'[i] \in Committed
    BY <1>1, <1>3, <1>4
  <2> QED
    BY <1>1, <1>2, <1>8, <2>1, <2>2, <2>3, <2>4 DEF Promised
<1> QED
  BY <1>2, <1>5, <1>6, <1>9 DEF SInv

LEMMA SkippedNext ==
  ASSUME 2 * MaxTx <= ReplayLimit
  PROVE  NInv /\ NInv' /\ SInv /\ [Next]_vars => SInv'
<1> SUFFICES ASSUME NInv, NInv', SInv, [Next]_vars PROVE SInv'
  OBVIOUS
<1>1. ASSUME NEW w \in Writers, Begin(w) \/ WriterStep(w) \/ Rollback(w) PROVE SInv'
  <2>1. /\ events \subseteq events'
        /\ UNCHANGED <<published, batch, taken, overlapped, channel, stream, last, shown>>
    BY <1>1 DEF Begin, WriterStep, Rollback, LockRun, NextSequence, InsertEvent, ShareRun,
                Commit, client
  <2> QED
    BY <2>1, WritersPromise
<1>2. CASE BreakDeadlock
  BY <1>2, WritersPromise DEF BreakDeadlock, client
<1>3. CASE UNCHANGED vars
  BY <1>3, WritersPromise DEF vars, client
<1>4. ASSUME NEW b \in Publishers, PublisherStep(b) \/ LoseBatch(b) PROVE SInv'
  BY <1>4, StartPromise, PublishPromise, CommitPromise, LosePromise DEF PublisherStep
<1>5. CASE Subscribe
  BY <1>5, NoPromise DEF Subscribe
<1>6. CASE Disconnect
  BY <1>6, NoPromise DEF Disconnect
<1>7. CASE Replay
  BY <1>7, ReplayPromise
<1>8. CASE Forward
  BY <1>8, ForwardPromise
<1> QED
  BY <1>1, <1>2, <1>3, <1>4, <1>5, <1>6, <1>7, <1>8 DEF Next, StreamStep

\* As long as one replay returns all that is missing, subscribing before replaying
\* leaves no gap, whatever disconnects, dies or is sent again: a client misses an
\* event only if a later sequence overtook it on the way to Redis.
THEOREM SkippedOnlyIfOvertaken ==
  ASSUME 2 * MaxTx <= ReplayLimit
  PROVE  Spec => []SkippedWasOvertaken
<1>1. Init => SInv
  <2> SUFFICES ASSUME Init PROVE SInv
    OBVIOUS
  <2>1. NInv /\ last = 0
    BY NumberingInit DEF Init
  <2>2. last <= Cardinality(events)
    BY <2>1, LastSequenceIs
  <2>3. SkippedWasOvertaken /\ Promised
    BY <2>1 DEF Init, SkippedWasOvertaken, Promised
  <2> QED
    BY <2>2, <2>3 DEF SInv
<1>2. SInv => SkippedWasOvertaken
  BY DEF SInv
<1>3. NInv /\ NInv' /\ SInv /\ [Next]_vars => SInv'
  BY SkippedNext
<1> QED
  BY NumberingInit, NumberingNext, <1>1, <1>2, <1>3, PTL DEF Spec

=============================================================================
