------------------------- MODULE LibrarySync_proofs -------------------------
(***************************************************************************)
(* Theorems about LibrarySync: types, and what a run that had the library  *)
(* to itself leaves behind, for every library, source, number of workers,  *)
(* runs, edits and faults.                                                 *)
(***************************************************************************)
EXTENDS LibrarySync, NaturalsInduction, WellFoundedInduction, TLAPS

AtWork(w) == worker[w].step \in {"indexing", "switched"}

\* What is parsed has a content.
Parsed == \A w \in Workers : AtWork(w) => worker[w].content \in Contents

-----------------------------------------------------------------------------
(* Types *)

\* The next entry is one of those that are left.
LEMMA NextEntry ==
  ASSUME NEW todo \in SUBSET Citekeys, todo # {}
  PROVE  (CHOOSE j \in todo : \A i \in todo : j <= i) \in todo
<1>1. todo \subseteq Nat
  BY SizesAssumption DEF Citekeys
<1>2. PICK n \in todo : \A m \in todo : ~(<<m, n>> \in OpToRel(<, Nat))
  BY <1>1, NatLessThanWellFounded, WFMin
<1>3. \A m \in todo : n <= m
  <2>1. ASSUME NEW m \in todo, m < n PROVE FALSE
    <3>1. <<m, n>> \in Nat \X Nat /\ <<m, n>>[1] < <<m, n>>[2]
      BY <1>1, <2>1
    <3> QED
      BY <1>2, <3>1 DEF OpToRel
  <2> QED
    BY <1>1, <2>1
<1> QED
  BY <1>3

LEMMA ConstantsTyped ==
  /\ 1 \in Citekeys /\ 1 \in Runs
  /\ NoRow \in Row
  /\ Idle \in WorkerStates
<1>1. 1 \in Citekeys /\ 1 \in Runs
  BY SizesAssumption DEF Citekeys, Runs
<1>2. NoRow \in Row
  BY DEF NoRow, Row
<1> QED
  BY <1>1, <1>2 DEF Idle, WorkerStates, RunStatuses, LibraryStatuses

\* A record but for the counter of events.
LEMMA FreshTyped ==
  ASSUME NEW record \in WorkerStates, NEW fresh \in BOOLEAN
  PROVE  /\ [record EXCEPT !.fresh = fresh] \in WorkerStates
         /\ [record EXCEPT !.fresh = fresh].step = record.step
         /\ [record EXCEPT !.fresh = fresh].alone = record.alone
         /\ [record EXCEPT !.fresh = fresh].content = record.content
  BY DEF WorkerStates

\* The others keep their records but for the counter of events.
LEMMA AfterTyped ==
  ASSUME TypeOK, NEW w \in Workers, NEW record \in WorkerStates
  PROVE  /\ After(w, record) \in [Workers -> WorkerStates]
         /\ After(w, record)[w] = record
         /\ \A v \in Workers \ {w} :
              /\ After(w, record)[v].step = worker[v].step
              /\ After(w, record)[v].alone = worker[v].alone
              /\ After(w, record)[v].content = worker[v].content
<1> DEFINE Still(v) == (worker[v].fresh /\ worker[v].run # worker[w].run)
<1>1. \A v \in Workers \ {w} :
        After(w, record)[v] = [worker[v] EXCEPT !.fresh = Still(v)]
  BY DEF After
<1>2. \A v \in Workers : worker[v] \in WorkerStates /\ Still(v) \in BOOLEAN
  BY DEF TypeOK
<1> HIDE DEF Still
<1>3. \A v \in Workers \ {w} :
        /\ After(w, record)[v] \in WorkerStates
        /\ After(w, record)[v].step = worker[v].step
        /\ After(w, record)[v].alone = worker[v].alone
        /\ After(w, record)[v].content = worker[v].content
  <2> SUFFICES ASSUME NEW v \in Workers \ {w}
               PROVE  /\ [worker[v] EXCEPT !.fresh = Still(v)] \in WorkerStates
                      /\ [worker[v] EXCEPT !.fresh = Still(v)].step = worker[v].step
                      /\ [worker[v] EXCEPT !.fresh = Still(v)].alone = worker[v].alone
                      /\ [worker[v] EXCEPT !.fresh = Still(v)].content = worker[v].content
    BY <1>1, Zenon
  <2> QED
    BY <1>2, FreshTyped, Zenon
<1>4. After(w, record)[w] = record
  BY DEF After
<1>5. After(w, record) = [v \in Workers |-> After(w, record)[v]]
  BY DEF After
<1>6. \A v \in Workers : After(w, record)[v] \in WorkerStates
  BY <1>3, <1>4
<1> QED
  BY <1>3, <1>4, <1>5, <1>6

LEMMA RowsTyped ==
  ASSUME TypeOK, NEW dirty \in SUBSET Citekeys
  PROVE  Flushed(dirty) \in [Citekeys -> Row]
<1>1. \A k \in Citekeys : row[k] \in Row
  BY DEF TypeOK
<1>2. \A k \in Citekeys : [row[k] EXCEPT !.status = "INDEXED"] \in Row
  BY <1>1 DEF Row
<1> QED
  BY <1>1, <1>2 DEF Flushed

LEMMA CataloguedTyped == TypeOK => Catalogued \subseteq Contents \cup {"none"}
  BY DEF TypeOK, Catalogued, Row

LEMMA TypeInit == Init => TypeOK
  BY ConstantsTyped, SizesAssumption DEF Init, TypeOK, RunStatuses, LibraryStatuses

\* One entry, in terms of what the attempt knows before and after it: the entry is
\* quarantined, found unchanged or given to the parser.
Looked(w, k) ==
  LET old == worker[w]
      new == worker'[w]
      found == [status |-> "INDEXED", sha |-> source[k]]
  IN  /\ <<new.run, new.hashed, new.errors, new.alone>>
           = <<old.run, old.hashed, old.errors, old.alone>>
      /\ new.todo = old.todo \ {k}
      /\ \/ /\ new.step = "matching"
            /\ <<new.rows, new.seen>> = <<old.rows, old.seen>>
            /\ new.dirty = {}
            /\ new.bad = old.bad \cup {k}
            /\ quarantine' = [quarantine EXCEPT ![old.run] = @ \cup {k}]
         \/ /\ ~Rejected(w, k, source[k]) /\ old.rows[k].sha = source[k]
            /\ new.step = "matching"
            /\ new.bad = old.bad /\ UNCHANGED quarantine
            /\ new.rows = [old.rows EXCEPT ![k] = found]
            /\ new.seen = old.seen \cup {k}
            /\ new.dirty = IF old.rows[k].status = "INDEXED" THEN {} ELSE {k}
         \/ /\ ~Rejected(w, k, source[k])
            /\ new.step = "indexing" /\ new.key = k /\ new.content = source[k]
            /\ <<new.bad, new.rows, new.seen>> = <<old.bad, old.rows, old.seen>>
            /\ new.dirty = {} /\ UNCHANGED quarantine

\* What another worker does is visible to an attempt in its counter of events only.
OthersStay(w) ==
  \A v \in Workers \ {w} :
    <<worker'[v].step, worker'[v].alone, worker'[v].content>>
      = <<worker[v].step, worker[v].alone, worker[v].content>>

LEMMA MatchTyped ==
  ASSUME TypeOK, NEW w \in Workers, Match(w)
  PROVE  /\ TypeOK'
         /\ \E k \in worker[w].todo : Looked(w, k)
         /\ OthersStay(w)
<1> DEFINE k == CHOOSE j \in worker[w].todo : \A i \in worker[w].todo : j <= i
           c == source[k]
           copy == worker[w].rows[k]
           taken == [worker[w] EXCEPT !.todo = @ \ {k}, !.dirty = {},
                                      !.claimed = @ \cup ({c} \cap Contents)]
           rejected == [taken EXCEPT !.bad = @ \cup {k}]
           kept == [taken EXCEPT !.seen = @ \cup {k}, !.rows[k].status = "INDEXED",
                                 !.dirty = IF copy.status = "INDEXED" THEN {} ELSE {k}]
           parsed == [taken EXCEPT !.step = "indexing", !.key = k, !.content = c]
<1>1. worker[w] \in WorkerStates
  BY DEF TypeOK
<1>2. k \in Citekeys /\ k \in worker[w].todo
  BY <1>1, NextEntry DEF Match, WorkerStates
<1>3. c \in Contents \cup {"none", "unreadable"}
  BY <1>2 DEF TypeOK
<1>4. copy \in Row
  BY <1>1, <1>2 DEF WorkerStates
<1>5. \/ /\ quarantine' = [quarantine EXCEPT ![worker[w].run] = @ \cup {k}]
         /\ worker' = After(w, rejected)
      \/ /\ ~Rejected(w, k, c) /\ copy.sha = c
         /\ worker' = After(w, kept)
         /\ UNCHANGED quarantine
      \/ /\ ~Rejected(w, k, c)
         /\ worker' = After(w, parsed)
         /\ UNCHANGED quarantine
  BY DEF Match
<1> HIDE DEF k, c
<1>6. /\ rejected \in WorkerStates
      /\ <<rejected.run, rejected.hashed, rejected.errors, rejected.alone, rejected.rows,
           rejected.seen>>
           = <<worker[w].run, worker[w].hashed, worker[w].errors, worker[w].alone,
               worker[w].rows, worker[w].seen>>
      /\ rejected.todo = worker[w].todo \ {k} /\ rejected.dirty = {}
      /\ rejected.bad = worker[w].bad \cup {k}
      /\ rejected.step = worker[w].step
  BY <1>1, <1>2 DEF WorkerStates
<1>7. ~Rejected(w, k, c) => c \in Contents
  BY DEF Rejected
<1>8. ASSUME c \in Contents, copy.sha = c
      PROVE  /\ kept \in WorkerStates
             /\ <<kept.run, kept.hashed, kept.errors, kept.alone, kept.bad, kept.step>>
                  = <<worker[w].run, worker[w].hashed, worker[w].errors, worker[w].alone,
                      worker[w].bad, worker[w].step>>
             /\ kept.todo = worker[w].todo \ {k}
             /\ kept.rows = [worker[w].rows EXCEPT ![k] = [status |-> "INDEXED", sha |-> c]]
             /\ kept.seen = worker[w].seen \cup {k}
             /\ kept.dirty = IF copy.status = "INDEXED" THEN {} ELSE {k}
  <2> DEFINE rows == [worker[w].rows EXCEPT ![k].status = "INDEXED"]
  <2>1. rows = [worker[w].rows EXCEPT ![k] = [status |-> "INDEXED", sha |-> c]]
    BY <1>1, <1>2, <1>4, <1>8 DEF WorkerStates, Row
  <2>2. rows \in [Citekeys -> Row]
    BY <1>1, <1>2, <1>8, <2>1 DEF WorkerStates, Row
  <2> DEFINE dirty == IF copy.status = "INDEXED" THEN {} ELSE {k}
  <2>3. kept = [taken EXCEPT !.seen = @ \cup {k}, !.rows = rows, !.dirty = dirty]
    BY <1>1 DEF WorkerStates
  <2>4. dirty \in SUBSET Citekeys
    BY <1>2
  <2> HIDE DEF rows, kept, dirty
  <2>5. /\ kept \in WorkerStates /\ kept.rows = rows /\ kept.dirty = dirty
        /\ <<kept.run, kept.hashed, kept.errors, kept.alone, kept.bad, kept.step>>
             = <<worker[w].run, worker[w].hashed, worker[w].errors, worker[w].alone,
                 worker[w].bad, worker[w].step>>
        /\ kept.todo = worker[w].todo \ {k}
        /\ kept.seen = worker[w].seen \cup {k}
    BY <1>1, <1>2, <1>8, <2>2, <2>3, <2>4 DEF WorkerStates
  <2> QED
    BY <2>1, <2>5 DEF dirty
<1>9. ASSUME c \in Contents
      PROVE  /\ parsed \in WorkerStates
             /\ <<parsed.run, parsed.hashed, parsed.errors, parsed.alone, parsed.bad,
                  parsed.rows, parsed.seen>>
                  = <<worker[w].run, worker[w].hashed, worker[w].errors, worker[w].alone,
                      worker[w].bad, worker[w].rows, worker[w].seen>>
             /\ parsed.todo = worker[w].todo \ {k} /\ parsed.dirty = {}
             /\ parsed.step = "indexing" /\ parsed.key = k /\ parsed.content = c
  BY <1>1, <1>2, <1>9 DEF WorkerStates
<1> HIDE DEF rejected, kept, parsed
<1>10. \E record \in {rejected, kept, parsed} :
         record \in WorkerStates /\ worker' = After(w, record)
  BY <1>5, <1>6, <1>7, <1>8, <1>9
<1>11. /\ worker' \in [Workers -> WorkerStates]
       /\ OthersStay(w)
  <2>1. PICK record \in WorkerStates : worker' = After(w, record)
    BY <1>10
  <2> QED
    BY <2>1, AfterTyped DEF OthersStay
<1>12. quarantine' \in [Runs -> SUBSET Citekeys]
  <2>1. quarantine \in [Runs -> SUBSET Citekeys] /\ worker[w].run \in Runs
    BY <1>1 DEF TypeOK, WorkerStates
  <2> QED
    BY <1>2, <1>5, <2>1
<1>13. row' \in [Citekeys -> Row]
  BY <1>1, RowsTyped DEF Match, WorkerStates
<1>14. TypeOK'
  BY <1>11, <1>12, <1>13 DEF Match, TypeOK, queue, bounds
<1>15. CASE quarantine' = [quarantine EXCEPT ![worker[w].run] = @ \cup {k}]
            /\ worker' = After(w, rejected)
  <2>1. worker'[w] = rejected
    BY <1>6, <1>15, AfterTyped
  <2> QED
    BY <1>2, <1>6, <1>11, <1>14, <1>15, <2>1 DEF Match, Looked
<1>16. CASE ~Rejected(w, k, c) /\ copy.sha = c /\ worker' = After(w, kept)
            /\ UNCHANGED quarantine
  <2>1. worker'[w] = kept
    BY <1>7, <1>8, <1>16, AfterTyped
  <2> QED
    BY <1>2, <1>7, <1>8, <1>11, <1>14, <1>16, <2>1 DEF Match, Looked, c
<1>17. CASE ~Rejected(w, k, c) /\ worker' = After(w, parsed) /\ UNCHANGED quarantine
  <2>1. worker'[w] = parsed
    BY <1>7, <1>9, <1>17, AfterTyped
  <2> QED
    BY <1>2, <1>7, <1>9, <1>11, <1>14, <1>17, <2>1 DEF Looked, c
<1> QED
  BY <1>5, <1>15, <1>16, <1>17

LEMMA DiscoverTyped ==
  ASSUME TypeOK, NEW w \in Workers, Discover(w)
  PROVE  LET old == worker[w]
             new == worker'[w]
         IN  /\ TypeOK' /\ OthersStay(w)
             /\ <<new.run, new.seen, new.bad, new.errors, new.alone>>
                  = <<old.run, old.seen, old.bad, old.errors, old.alone>>
             /\ new.step = "matching"
             /\ new.rows = Flushed(new.dirty)
             /\ new.dirty = {k \in Citekeys : row[k].status = "MISSING" /\ source[k] = row[k].sha}
             /\ new.hashed = Catalogued
             /\ new.todo = {k \in Citekeys : source[k] # "none"}
<1> DEFINE back == {k \in Citekeys : row[k].status = "MISSING" /\ source[k] = row[k].sha}
           todo == {k \in Citekeys : source[k] # "none"}
           rows == Flushed(back)
           hashed == Catalogued
           record == [worker[w] EXCEPT !.step = "matching", !.status = "RUNNING",
                        !.library = "RUNNING", !.rows = rows, !.dirty = back,
                        !.hashed = hashed, !.todo = todo]
<1>1. worker[w] \in WorkerStates
  BY DEF TypeOK
<1>2. /\ back \in SUBSET Citekeys /\ todo \in SUBSET Citekeys
      /\ rows \in [Citekeys -> Row]
      /\ hashed \in SUBSET (Contents \cup {"none"})
  BY RowsTyped, CataloguedTyped
<1>3. worker' = After(w, record)
  BY DEF Discover, Flushed
<1> HIDE DEF back, todo, rows, hashed
<1>4. /\ record \in WorkerStates
      /\ <<record.run, record.seen, record.bad, record.errors, record.alone>>
           = <<worker[w].run, worker[w].seen, worker[w].bad, worker[w].errors, worker[w].alone>>
      /\ record.step = "matching" /\ record.rows = rows /\ record.dirty = back
      /\ record.hashed = hashed /\ record.todo = todo
  BY <1>1, <1>2 DEF WorkerStates, RunStatuses, LibraryStatuses
<1> HIDE DEF record
<1>5. worker' \in [Workers -> WorkerStates] /\ worker'[w] = record /\ OthersStay(w)
  BY <1>3, <1>4, AfterTyped DEF OthersStay
<1>6. /\ run' \in [Runs -> RunStatuses] /\ library' \in LibraryStatuses
      /\ quarantine' \in [Runs -> SUBSET Citekeys]
  BY <1>1 DEF Discover, TypeOK, Written, Emptied, RunStatuses, LibraryStatuses
<1>7. TypeOK'
  BY <1>5, <1>6 DEF Discover, TypeOK, catalogue, queue, bounds
<1> QED
  BY <1>4, <1>5, <1>7 DEF back, rows, hashed, todo

LEMMA BuildTyped ==
  ASSUME TypeOK, NEW w \in Workers, Build(w)
  PROVE  LET old == worker[w]
             new == worker'[w]
         IN  /\ TypeOK' /\ OthersStay(w)
             /\ <<new.run, new.seen, new.bad, new.errors, new.alone, new.rows, new.dirty,
                  new.hashed, new.todo, new.key, new.content>>
                  = <<old.run, old.seen, old.bad, old.errors, old.alone, old.rows, old.dirty,
                      old.hashed, old.todo, old.key, old.content>>
             /\ new.step = "switched"
<1>1. worker[w] \in WorkerStates
  BY DEF TypeOK
<1> DEFINE record == [worker[w] EXCEPT !.step = "switched", !.candidate = TRUE]
<1>2. worker' = [worker EXCEPT ![w] = record]
  BY DEF Build, TypeOK, WorkerStates
<1>3. /\ record \in WorkerStates
      /\ <<record.run, record.seen, record.bad, record.errors, record.alone, record.rows,
           record.dirty, record.hashed, record.todo, record.key, record.content>>
           = <<worker[w].run, worker[w].seen, worker[w].bad, worker[w].errors, worker[w].alone,
               worker[w].rows, worker[w].dirty, worker[w].hashed, worker[w].todo, worker[w].key,
               worker[w].content>>
      /\ record.step = "switched"
  BY <1>1 DEF WorkerStates
<1> HIDE DEF record
<1>4. worker' \in [Workers -> WorkerStates] /\ worker'[w] = record /\ OthersStay(w)
  BY <1>2, <1>3 DEF TypeOK, OthersStay
<1>5. TypeOK'
  BY <1>4 DEF Build, TypeOK, runRows, queue, bounds
<1> QED
  BY <1>3, <1>4, <1>5

LEMMA CommitTyped ==
  ASSUME TypeOK, NEW w \in Workers, CommitVersion(w), worker[w].content \in Contents
  PROVE  LET old == worker[w]
             new == worker'[w]
             version == [status |-> "INDEXED", sha |-> old.content]
         IN  /\ TypeOK' /\ OthersStay(w)
             /\ <<new.run, new.bad, new.errors, new.alone, new.dirty, new.todo>>
                  = <<old.run, old.bad, old.errors, old.alone, old.dirty, old.todo>>
             /\ new.step = "matching"
             /\ new.seen = old.seen \cup {old.key}
             /\ new.rows = [old.rows EXCEPT ![old.key] = version]
             /\ row' = [row EXCEPT ![old.key] = version]
             /\ new.hashed = old.hashed \cup {old.content}
<1> DEFINE k == worker[w].key
           version == [status |-> "INDEXED", sha |-> worker[w].content]
           rows == [worker[w].rows EXCEPT ![k] = version]
           seen == worker[w].seen \cup {k}
           hashed == worker[w].hashed \cup {worker[w].content}
           record == [worker[w] EXCEPT !.step = "matching", !.key = 1, !.content = "none",
                        !.candidate = FALSE, !.seen = seen, !.rows = rows, !.hashed = hashed]
<1>1. worker[w] \in WorkerStates
  BY DEF TypeOK
<1>2. k \in Citekeys /\ version \in Row /\ version.sha = worker[w].content
  BY <1>1 DEF WorkerStates, Row
<1>3. worker' = [worker EXCEPT ![w] = record]
  BY DEF CommitVersion, Resumed
<1>4. /\ rows \in [Citekeys -> Row] /\ seen \in SUBSET Citekeys
      /\ hashed \in SUBSET (Contents \cup {"none"})
  BY <1>1, <1>2 DEF WorkerStates
<1>5. row' = [row EXCEPT ![k] = version] /\ row' \in [Citekeys -> Row]
  BY <1>2 DEF CommitVersion, TypeOK
<1> HIDE DEF rows, seen, hashed
<1>6. /\ record \in WorkerStates
      /\ <<record.run, record.bad, record.errors, record.alone, record.dirty, record.todo>>
           = <<worker[w].run, worker[w].bad, worker[w].errors, worker[w].alone,
               worker[w].dirty, worker[w].todo>>
      /\ record.step = "matching"
      /\ record.seen = seen /\ record.rows = rows /\ record.hashed = hashed
  BY <1>1, <1>4, ConstantsTyped DEF WorkerStates
<1> HIDE DEF record
<1>7. worker' \in [Workers -> WorkerStates] /\ worker'[w] = record /\ OthersStay(w)
  BY <1>3, <1>6 DEF TypeOK, OthersStay
<1>8. points' \subseteq Citekeys
  BY <1>2 DEF CommitVersion, TypeOK
<1>9. TypeOK'
  BY <1>5, <1>7, <1>8 DEF CommitVersion, TypeOK, runRows, queue, bounds
<1> QED
  BY <1>5, <1>6, <1>7, <1>9 DEF rows, seen, hashed

LEMMA IndexFailsTyped ==
  ASSUME TypeOK, NEW w \in Workers, IndexFails(w)
  PROVE  LET old == worker[w]
             new == worker'[w]
         IN  /\ TypeOK' /\ OthersStay(w)
             /\ <<new.run, new.alone, new.dirty, new.todo>>
                  = <<old.run, old.alone, old.dirty, old.todo>>
             /\ new.step = "matching"
             /\ new.seen = old.seen \cup Preserved(old.key, old.content)
             /\ new.bad = old.bad \cup {old.key}
             /\ new.errors = old.errors \cup {old.key}
             /\ new.rows = row /\ new.hashed = Catalogued
             /\ quarantine' = [quarantine EXCEPT ![old.run] = @ \cup {old.key}]
<1> DEFINE k == worker[w].key
           seen == worker[w].seen \cup Preserved(k, worker[w].content)
           hashed == Catalogued
           bad == worker[w].bad \cup {k}
           errors == worker[w].errors \cup {k}
           record == [worker[w] EXCEPT !.step = "matching", !.key = 1, !.content = "none",
                        !.candidate = FALSE, !.fresh = TRUE, !.rows = row, !.hashed = hashed,
                        !.status = run[worker[w].run], !.library = library,
                        !.bad = bad, !.errors = errors, !.seen = seen]
<1>1. worker[w] \in WorkerStates
  BY DEF TypeOK
<1>2. k \in Citekeys /\ worker[w].run \in Runs /\ run[worker[w].run] \in RunStatuses
  BY <1>1 DEF WorkerStates, TypeOK
<1>3. worker' = [worker EXCEPT ![w] = record]
  BY DEF IndexFails, Resumed
<1>4. /\ seen \in SUBSET Citekeys /\ bad \in SUBSET Citekeys /\ errors \in SUBSET Citekeys
      /\ hashed \in SUBSET (Contents \cup {"none"})
  BY <1>1, <1>2, CataloguedTyped DEF WorkerStates, Preserved
<1>5. /\ quarantine' = [quarantine EXCEPT ![worker[w].run] = @ \cup {k}]
      /\ quarantine' \in [Runs -> SUBSET Citekeys]
  <2>1. quarantine \in [Runs -> SUBSET Citekeys]
    BY DEF TypeOK
  <2> QED
    BY <1>2, <2>1 DEF IndexFails
<1> HIDE DEF seen, hashed, bad, errors
<1>6. /\ record \in WorkerStates
      /\ <<record.run, record.alone, record.dirty, record.todo>>
           = <<worker[w].run, worker[w].alone, worker[w].dirty, worker[w].todo>>
      /\ record.step = "matching"
      /\ record.seen = seen /\ record.rows = row /\ record.hashed = hashed
      /\ record.bad = bad /\ record.errors = errors
  BY <1>1, <1>2, <1>4, ConstantsTyped DEF WorkerStates, TypeOK
<1> HIDE DEF record
<1>7. worker' \in [Workers -> WorkerStates] /\ worker'[w] = record /\ OthersStay(w)
  BY <1>3, <1>6 DEF TypeOK, OthersStay
<1>8. faults' \in 0..MaxFaults
  BY SizesAssumption DEF IndexFails, Fault, TypeOK
<1>9. TypeOK'
  BY <1>5, <1>7, <1>8 DEF IndexFails, TypeOK, catalogue, queue
<1> QED
  BY <1>5, <1>6, <1>7, <1>9 DEF seen, hashed, bad, errors

LEMMA CandidateTyped ==
  ASSUME NEW record \in WorkerStates, NEW candidate \in BOOLEAN
  PROVE  /\ [record EXCEPT !.candidate = candidate] \in WorkerStates
         /\ [record EXCEPT !.candidate = candidate].step = record.step
         /\ [record EXCEPT !.candidate = candidate].alone = record.alone
         /\ [record EXCEPT !.candidate = candidate].content = record.content
  BY DEF WorkerStates

LEMMA ReconcileTyped ==
  ASSUME TypeOK, NEW w \in Workers, Reconcile(w)
  PROVE  LET old == worker[w]
             new == worker'[w]
         IN  /\ TypeOK' /\ OthersStay(w)
             /\ <<new.run, new.seen, new.bad, new.errors, new.alone, new.rows, new.dirty,
                  new.hashed, new.todo>>
                  = <<old.run, old.seen, old.bad, old.errors, old.alone, old.rows, old.dirty,
                      old.hashed, old.todo>>
             /\ new.step = "closing"
<1> DEFINE record == [worker[w] EXCEPT !.step = "closing"]
           Still(v) == (worker[v].candidate /\ worker[v].key \notin Dropped(w))
<1>1. \A v \in Workers : worker[v] \in WorkerStates /\ Still(v) \in BOOLEAN
  BY DEF TypeOK
<1>2. worker' = [v \in Workers |-> IF v = w THEN record
                                  ELSE [worker[v] EXCEPT !.candidate = Still(v)]]
  BY DEF Reconcile
<1>3. /\ record \in WorkerStates
      /\ <<record.run, record.seen, record.bad, record.errors, record.alone, record.rows,
           record.dirty, record.hashed, record.todo>>
           = <<worker[w].run, worker[w].seen, worker[w].bad, worker[w].errors, worker[w].alone,
               worker[w].rows, worker[w].dirty, worker[w].hashed, worker[w].todo>>
      /\ record.step = "closing"
  BY <1>1 DEF WorkerStates
<1> HIDE DEF record, Still
<1>4. \A v \in Workers \ {w} :
        LET other == [worker[v] EXCEPT !.candidate = Still(v)]
        IN  /\ other \in WorkerStates
            /\ other.step = worker[v].step
            /\ other.alone = worker[v].alone
            /\ other.content = worker[v].content
  BY <1>1, CandidateTyped, Zenon
<1>5. worker' \in [Workers -> WorkerStates] /\ worker'[w] = record /\ OthersStay(w)
  <2>1. \A v \in Workers \ {w} : worker'[v] = [worker[v] EXCEPT !.candidate = Still(v)]
    BY <1>2
  <2>2. worker'[w] = record
    BY <1>2
  <2>3. \A v \in Workers : worker'[v] \in WorkerStates
    BY <1>3, <1>4, <2>1, <2>2
  <2>4. worker' = [v \in Workers |-> worker'[v]]
    BY <1>2
  <2>5. OthersStay(w)
    BY <1>4, <2>1 DEF OthersStay
  <2> QED
    BY <2>2, <2>3, <2>4, <2>5
<1>6. points' \subseteq Citekeys
  BY DEF Reconcile, TypeOK
<1>7. TypeOK'
  BY <1>5, <1>6 DEF Reconcile, TypeOK, runRows, queue, bounds
<1> QED
  BY <1>3, <1>5, <1>7

\* An attempt that ends, by its COMPLETED event, an exception or the end of its process.
LEMMA EndTyped ==
  ASSUME TypeOK, NEW w \in Workers, Complete(w) \/ SyncFails(w) \/ Crash(w)
  PROVE  /\ TypeOK' /\ OthersStay(w)
         /\ worker'[w] = Idle
<1>1. worker[w] \in WorkerStates /\ worker[w].run \in Runs /\ worker[w].dirty \subseteq Citekeys
  BY DEF TypeOK, WorkerStates
<1>2. worker' = After(w, Idle) \/ worker' = [worker EXCEPT ![w] = Idle]
  BY DEF Complete, SyncFails, Crash
<1>3. worker' \in [Workers -> WorkerStates] /\ worker'[w] = Idle /\ OthersStay(w)
  <2>1. CASE worker' = After(w, Idle)
    BY <2>1, AfterTyped, ConstantsTyped DEF OthersStay
  <2>2. CASE worker' = [worker EXCEPT ![w] = Idle]
    BY <2>2, ConstantsTyped DEF TypeOK, OthersStay
  <2> QED
    BY <1>2, <2>1, <2>2
<1>4. CASE Complete(w)
  <2>1. \A k \in Citekeys : row[k] \in Row /\ [row[k] EXCEPT !.status = "MISSING"] \in Row
    BY DEF TypeOK, Row
  <2>2. row' \in [Citekeys -> Row]
    BY <1>1, <1>4, <2>1, RowsTyped DEF Complete
  <2>3. /\ run' \in [Runs -> RunStatuses] /\ library' \in LibraryStatuses
        /\ completed' \subseteq Runs
    BY <1>1, <1>4 DEF Complete, TypeOK, Written, RunStatuses, LibraryStatuses
  <2> QED
    BY <1>3, <1>4, <2>2, <2>3 DEF Complete, TypeOK, queue, bounds
<1>5. CASE SyncFails(w)
  <2>1. faults' \in 0..MaxFaults
    BY <1>5, SizesAssumption DEF SyncFails, Fault, TypeOK
  <2>2. run' \in [Runs -> RunStatuses] /\ library' \in LibraryStatuses
    BY <1>1, <1>5 DEF SyncFails, TypeOK, RunStatuses, LibraryStatuses
  <2> QED
    BY <1>3, <1>5, <2>1, <2>2 DEF SyncFails, TypeOK, catalogue, queue
<1>6. CASE Crash(w)
  <2>1. faults' \in 0..MaxFaults
    BY <1>6, SizesAssumption DEF Crash, Fault, TypeOK
  <2>2. messages' \in [Runs -> Nat]
    BY <1>1, <1>6 DEF Crash, TypeOK
  <2> QED
    BY <1>3, <1>6, <2>1, <2>2 DEF Crash, TypeOK, catalogue, runRows
<1> QED
  BY <1>3, <1>4, <1>5, <1>6

LEMMA DisturbedTyped ==
  ASSUME NEW record \in WorkerStates
  PROVE  LET other == [record EXCEPT !.alone = FALSE]
         IN  /\ other \in WorkerStates /\ other.alone = FALSE
             /\ <<other.step, other.content>> = <<record.step, record.content>>
  BY DEF WorkerStates

LEMMA BeginTyped ==
  ASSUME TypeOK, NEW w \in Workers, NEW r \in Runs, Begin(w, r)
  PROVE  LET new == worker'[w]
         IN  /\ TypeOK'
             /\ new.step = "begun" /\ new.run = r
             /\ new.bad = {} /\ new.seen = {} /\ new.errors = {}
             /\ new.alone <=> \A v \in Workers : ~Busy(v)
             /\ \A v \in Workers \ {w} :
                  /\ <<worker'[v].step, worker'[v].content>> = <<worker[v].step, worker[v].content>>
                  /\ worker'[v].alone = FALSE
<1> DEFINE alone == \A u \in Workers : ~Busy(u)
           status == run[r]
           record == [Idle EXCEPT !.step = "begun", !.run = r, !.status = status,
                                  !.library = library, !.fresh = TRUE, !.alone = alone]
<1>1. \A v \in Workers : worker[v] \in WorkerStates
  BY DEF TypeOK
<1>2. worker' = [v \in Workers |-> IF v = w THEN record ELSE [worker[v] EXCEPT !.alone = FALSE]]
  BY DEF Begin
<1>3. alone \in BOOLEAN /\ status \in RunStatuses /\ library \in LibraryStatuses
  BY DEF TypeOK
<1> HIDE DEF alone, status
<1>4. /\ record \in WorkerStates
      /\ record.step = "begun" /\ record.run = r /\ record.alone = alone
      /\ record.bad = {} /\ record.seen = {} /\ record.errors = {}
  BY <1>3, ConstantsTyped DEF WorkerStates, Idle
<1>5. \A v \in Workers :
        LET other == [worker[v] EXCEPT !.alone = FALSE]
        IN  /\ other \in WorkerStates /\ other.alone = FALSE
            /\ <<other.step, other.content>> = <<worker[v].step, worker[v].content>>
  BY <1>1, DisturbedTyped, Zenon
<1> HIDE DEF record
<1>6. /\ worker'[w] = record
      /\ \A v \in Workers \ {w} : worker'[v] = [worker[v] EXCEPT !.alone = FALSE]
  BY <1>2
<1>7. worker' \in [Workers -> WorkerStates]
  <2>1. \A v \in Workers : worker'[v] \in WorkerStates
    BY <1>4, <1>5, <1>6
  <2>2. worker' = [v \in Workers |-> worker'[v]]
    BY <1>2
  <2> QED
    BY <2>1, <2>2
<1>8. messages' \in [Runs -> Nat]
  <2>1. messages \in [Runs -> Nat] /\ messages[r] > 0 /\ messages' = [messages EXCEPT ![r] = @ - 1]
    BY DEF Begin, TypeOK
  <2>2. messages[r] - 1 \in Nat
    BY <2>1
  <2> QED
    BY <2>1, <2>2
<1>9. TypeOK'
  BY <1>7, <1>8 DEF Begin, TypeOK, catalogue, runRows, bounds
<1> QED
  BY <1>4, <1>5, <1>6, <1>9 DEF alone

\* What happens beside the attempts leaves them as they are, or disturbs them all.
LEMMA OutsideTyped ==
  ASSUME TypeOK,
         \/ Edit
         \/ \E q \in Requesters : AskActive(q) \/ AskIdle(q) \/ Request(q)
         \/ \E w \in Workers, r \in Runs : Redelivered(w, r)
  PROVE  /\ TypeOK'
         /\ \A w \in Workers :
              <<worker'[w].step, worker'[w].content>> = <<worker[w].step, worker[w].content>>
         /\ \/ UNCHANGED <<source, row, quarantine, completed, worker>>
            \/ Edit /\ \A w \in Workers : worker'[w].alone = FALSE
<1>1. CASE Edit
  <2>1. \A w \in Workers : worker[w] \in WorkerStates
    BY DEF TypeOK
  <2>2. worker' = [w \in Workers |-> [worker[w] EXCEPT !.alone = FALSE]]
    BY <1>1 DEF Edit
  <2>3. \A w \in Workers : worker'[w] = [worker[w] EXCEPT !.alone = FALSE]
    BY <2>2
  <2>4. \A w \in Workers :
          /\ worker'[w] \in WorkerStates /\ worker'[w].alone = FALSE
          /\ <<worker'[w].step, worker'[w].content>> = <<worker[w].step, worker[w].content>>
    <3>1. \A w \in Workers :
            LET other == [worker[w] EXCEPT !.alone = FALSE]
            IN  /\ other \in WorkerStates /\ other.alone = FALSE
                /\ <<other.step, other.content>> = <<worker[w].step, worker[w].content>>
      BY <2>1, DisturbedTyped, Zenon
    <3> QED
      BY <2>3, <3>1
  <2>5. worker' \in [Workers -> WorkerStates]
    <3>1. worker' = [w \in Workers |-> worker'[w]]
      BY <2>2
    <3> QED
      BY <2>4, <3>1
  <2>6. source' \in [Citekeys -> Contents \cup {"none", "unreadable"}]
    BY <1>1 DEF Edit, TypeOK
  <2>7. edits' \in 0..MaxEdits
    BY <1>1, SizesAssumption DEF Edit, TypeOK
  <2> QED
    BY <1>1, <2>4, <2>5, <2>6, <2>7 DEF Edit, TypeOK, catalogue, runRows, queue
<1>2. CASE \E q \in Requesters : AskActive(q)
  <2>1. messages' \in [Runs -> Nat]
    BY <1>2 DEF AskActive, Active, Enqueue, TypeOK
  <2> QED
    BY <1>2, <2>1 DEF AskActive, TypeOK, catalogue, runRows, bounds
<1>3. CASE \E q \in Requesters : AskIdle(q)
  BY <1>3 DEF AskIdle, TypeOK, catalogue, runRows, bounds
<1>4. CASE \E q \in Requesters : Request(q)
  <2>1. messages' \in [Runs -> Nat]
    BY <1>4 DEF Request, Enqueue, TypeOK
  <2>2. run' \in [Runs -> RunStatuses] /\ library' \in LibraryStatuses
    BY <1>4 DEF Request, TypeOK, RunStatuses, LibraryStatuses
  <2>3. faults' \in 0..MaxFaults
    BY <1>4, SizesAssumption DEF Request, Fault, TypeOK
  <2> QED
    BY <1>4, <2>1, <2>2, <2>3 DEF Request, TypeOK, catalogue
<1>5. CASE \E w \in Workers, r \in Runs : Redelivered(w, r)
  <2>1. messages' \in [Runs -> Nat]
    <3>1. PICK r \in Runs : messages[r] > 0 /\ messages' = [messages EXCEPT ![r] = @ - 1]
      BY <1>5 DEF Redelivered
    <3>2. messages \in [Runs -> Nat] /\ messages[r] - 1 \in Nat
      BY <3>1 DEF TypeOK
    <3> QED
      BY <3>1, <3>2
  <2>2. run' \in [Runs -> RunStatuses] /\ library' \in LibraryStatuses
    BY <1>5 DEF Redelivered, TypeOK, RunStatuses, LibraryStatuses
  <2> QED
    BY <1>5, <2>1, <2>2 DEF Redelivered, TypeOK, catalogue, bounds
<1> QED
  BY <1>1, <1>2, <1>3, <1>4, <1>5

\* A content reaches the catalogue only if the entry was not rejected.
LEMMA TypeNext ==
  ASSUME TypeOK, Parsed, [Next]_vars
  PROVE  TypeOK' /\ Parsed'
<1> USE DEF Parsed, AtWork
<1>1. CASE UNCHANGED vars
  BY <1>1 DEF vars, catalogue, runRows, queue, bounds, TypeOK
<1>2. CASE \/ Edit
           \/ \E q \in Requesters : AskActive(q) \/ AskIdle(q) \/ Request(q)
           \/ \E w \in Workers, r \in Runs : Redelivered(w, r)
  BY <1>2, OutsideTyped
<1>3. ASSUME NEW w \in Workers, NEW r \in Runs, Begin(w, r) PROVE TypeOK' /\ Parsed'
  BY <1>3, BeginTyped
<1>4. ASSUME NEW w \in Workers, Complete(w) \/ SyncFails(w) \/ Crash(w) PROVE TypeOK' /\ Parsed'
  BY <1>4, EndTyped DEF OthersStay, Idle
<1>5. ASSUME NEW w \in Workers, Match(w) PROVE TypeOK' /\ Parsed'
  <2>1. PICK k \in worker[w].todo : Looked(w, k)
    BY <1>5, MatchTyped
  <2>2. AtWork(w)' => worker'[w].content \in Contents
    BY <2>1 DEF Looked, Rejected
  <2> QED
    BY <1>5, <2>2, MatchTyped DEF OthersStay
<1>6. ASSUME NEW w \in Workers, Discover(w) \/ IndexFails(w) \/ Reconcile(w)
      PROVE  TypeOK' /\ Parsed'
  BY <1>6, DiscoverTyped, IndexFailsTyped, ReconcileTyped DEF OthersStay
<1>7. ASSUME NEW w \in Workers, CommitVersion(w) PROVE TypeOK' /\ Parsed'
  <2>1. worker[w].content \in Contents
    BY <1>7 DEF CommitVersion
  <2> QED
    BY <1>7, <2>1, CommitTyped DEF OthersStay
<1>8. ASSUME NEW w \in Workers, Build(w) PROVE TypeOK' /\ Parsed'
  <2>1. worker[w].content \in Contents
    BY <1>8 DEF Build
  <2>2. TypeOK' /\ OthersStay(w) /\ worker'[w].content = worker[w].content
    BY <1>8, BuildTyped
  <2> QED
    BY <2>1, <2>2 DEF OthersStay
<1> QED
  BY <1>1, <1>2, <1>3, <1>4, <1>5, <1>6, <1>7, <1>8 DEF Next, Attempt

\* Every column, every session's copy of it and the queue keep their types: a rejected
\* source never reaches the catalogue.
THEOREM LibraryTypeCorrect == Spec => []TypeOK
<1>1. Init => TypeOK /\ Parsed
  BY TypeInit DEF Init, Parsed, AtWork, Idle
<1> QED
  BY <1>1, TypeNext, PTL DEF Spec

-----------------------------------------------------------------------------
(* An attempt that has the library to itself *)

Underway(w) == worker[w].step \in {"matching", "indexing", "switched", "closing"}

\* The attempt is done with the entry.
Handled(w, k) == k \notin worker[w].todo /\ ~(AtWork(w) /\ k = worker[w].key)

AsInSource(k) == [status |-> "INDEXED", sha |-> source[k]]

\* Nobody else is at work, and the run has not been completed by anybody else.
Solo ==
  \A w \in Workers : worker[w].alone =>
    /\ Busy(w) /\ worker[w].run \notin completed
    /\ \A v \in Workers \ {w} : ~Busy(v)

\* An attempt begins with empty hands.
Unblemished(w) ==
  worker[w].step = "begun" =>
    worker[w].bad = {} /\ worker[w].seen = {} /\ worker[w].errors = {}

\* The quarantine is the attempt's own, its session shows the catalogue with the papers
\* that are about to be INDEXED again, and it knows every content of the catalogue.
Copied(w) ==
  Underway(w) =>
    /\ quarantine[worker[w].run] = worker[w].bad
    /\ worker[w].rows = Flushed(worker[w].dirty)
    /\ Catalogued \subseteq worker[w].hashed

\* An entry that was handled is quarantined or as in the source; a paper was seen because
\* it is, or because its rebuild failed; a paper whose rebuild failed is left alone.
Settled(w) ==
  Underway(w) =>
    /\ \A k \in Citekeys :
         source[k] # "none" /\ Handled(w, k) =>
           \/ k \in worker[w].bad
           \/ k \in worker[w].seen /\ worker[w].rows[k] = AsInSource(k)
    /\ \A k \in worker[w].seen : k \in worker[w].errors \/ worker[w].rows[k] = AsInSource(k)
    /\ \A k \in worker[w].errors :
         /\ Handled(w, k) /\ k \notin worker[w].dirty
         /\ row[k].status = "INDEXED" => k \in worker[w].seen

\* The entry being worked on is off the list and brings a content that no other paper of
\* the catalogue has, unless it replaces the paper's own.
AtEntry(w) ==
  /\ AtWork(w) =>
       /\ worker[w].dirty = {} /\ worker[w].key \notin worker[w].todo
       /\ worker[w].content = source[worker[w].key]
       /\ worker[w].rows[worker[w].key] = NoRow => worker[w].content \notin worker[w].hashed
  /\ worker[w].step = "closing" => worker[w].todo = {}

Account(w) == Unblemished(w) /\ Copied(w) /\ Settled(w) /\ AtEntry(w)

IInv ==
  /\ TypeOK /\ Parsed /\ Solo
  /\ \A w \in Workers : worker[w].alone => Account(w)

LEMMA FlushedKeeps ==
  ASSUME TypeOK, NEW dirty \in SUBSET Citekeys, NEW k \in Citekeys
  PROVE  /\ Flushed(dirty)[k].sha = row[k].sha
         /\ Flushed(dirty)[k].status \in {"INDEXED", row[k].status}
         /\ k \notin dirty => Flushed(dirty)[k] = row[k]
         /\ Flushed({}) = row
<1>1. row \in [Citekeys -> Row]
  BY DEF TypeOK
<1>2. row[k] \in Row
  BY <1>1
<1>3. Flushed({}) = row
  BY <1>1 DEF Flushed
<1> QED
  BY <1>2, <1>3 DEF Flushed, Row

LEMMA DiscoverAccount ==
  ASSUME TypeOK, NEW w \in Workers, Account(w), Discover(w)
  PROVE  Account(w)'
<1>1. worker[w].bad = {} /\ worker[w].seen = {} /\ worker[w].errors = {}
  BY DEF Account, Unblemished, Discover
<1>2. worker[w].run \in Runs /\ quarantine'[worker[w].run] = {}
  BY DEF TypeOK, WorkerStates, Discover, Emptied
<1>3. row' = row /\ source' = source
  BY DEF Discover, catalogue
<1>4. Copied(w)'
  <2>1. worker'[w].rows = Flushed(worker[w].dirty)'
    BY <1>3, DiscoverTyped DEF Flushed
  <2>2. worker'[w].hashed = Catalogued'
    BY <1>3, DiscoverTyped DEF Catalogued
  <2>3. worker'[w].run = worker[w].run /\ worker'[w].bad = {}
    BY <1>1, DiscoverTyped
  <2> QED
    BY <1>2, <2>1, <2>2, <2>3 DEF Copied
<1>5. Settled(w)'
  BY <1>1, <1>3, DiscoverTyped DEF Settled, Handled
<1>6. Unblemished(w)' /\ AtEntry(w)'
  BY DiscoverTyped DEF Unblemished, AtEntry, AtWork
<1> QED
  BY <1>4, <1>5, <1>6 DEF Account

LEMMA MatchAccount ==
  ASSUME TypeOK, NEW w \in Workers, Account(w), Match(w)
  PROVE  Account(w)'
<1> DEFINE old == worker[w]
           new == worker'[w]
<1>1. PICK k \in old.todo : Looked(w, k)
  BY MatchTyped
<1>2. /\ old.dirty \in SUBSET Citekeys /\ old.run \in Runs
      /\ old.rows \in [Citekeys -> Row] /\ k \in Citekeys
  BY DEF TypeOK, WorkerStates
<1>3. /\ old.step = "matching" /\ source' = source
      /\ row' = Flushed(old.dirty) /\ row' = old.rows
  BY DEF Match, Account, Copied, Underway
<1>4. /\ \A j \in Citekeys : row'[j].sha = row[j].sha
      /\ \A j \in Citekeys : j \notin old.dirty => row'[j] = row[j]
  BY <1>2, <1>3, FlushedKeeps
<1>5. Catalogued' = Catalogued /\ Catalogued \subseteq old.hashed
  BY <1>3, <1>4 DEF Catalogued, Account, Copied, Underway
<1>6. /\ new.todo = old.todo \ {k} /\ new.errors = old.errors /\ new.hashed = old.hashed
      /\ new.run = old.run /\ old.seen \subseteq new.seen /\ new.dirty \subseteq {k}
      /\ new.step \in {"matching", "indexing"}
      /\ new.step = "indexing" => new.key = k
      /\ \A j \in Citekeys : j # k => new.rows[j] = old.rows[j]
  BY <1>1, <1>2 DEF Looked
<1>7. new.rows = Flushed(worker[w].dirty)'
  <2>1. Flushed(worker[w].dirty)' =
          [j \in Citekeys |-> IF j \in new.dirty THEN [row'[j] EXCEPT !.status = "INDEXED"]
                                                 ELSE row'[j]]
    BY DEF Flushed
  <2>2. row' \in [Citekeys -> Row]
    BY <1>2, <1>3
  <2>3. CASE new.dirty = {} /\ new.rows = old.rows
    BY <1>3, <2>1, <2>2, <2>3
  <2>4. CASE /\ new.rows = [old.rows EXCEPT ![k] = AsInSource(k)] /\ old.rows[k].sha = source[k]
             /\ new.dirty = IF old.rows[k].status = "INDEXED" THEN {} ELSE {k}
    <3>1. old.rows[k] \in Row
      BY <1>2
    <3>2. [old.rows[k] EXCEPT !.status = "INDEXED"] = AsInSource(k)
      BY <2>4, <3>1 DEF Row, AsInSource
    <3>3. old.rows[k].status = "INDEXED" => old.rows[k] = AsInSource(k)
      BY <2>4, <3>1 DEF Row, AsInSource
    <3> QED
      BY <1>2, <1>3, <2>1, <2>2, <2>4, <3>2, <3>3
  <2> QED
    BY <1>1, <2>3, <2>4 DEF Looked, AsInSource
<1>8. quarantine'[new.run] = new.bad
  <2>1. quarantine[old.run] = old.bad /\ quarantine \in [Runs -> SUBSET Citekeys]
    BY <1>3 DEF TypeOK, Account, Copied, Underway
  <2> QED
    BY <1>1, <1>2, <1>6, <2>1 DEF Looked
<1>9. Settled(w)'
  <2>1. ASSUME NEW j \in Citekeys, source[j] # "none", Handled(w, j)'
        PROVE  j \in new.bad \/ (j \in new.seen /\ new.rows[j] = AsInSource(j))
    <3>1. CASE j = k
      BY <1>1, <1>2, <1>6, <2>1, <3>1 DEF Looked, AsInSource, Handled, AtWork
    <3>2. CASE j # k
      <4>1. Handled(w, j)
        BY <1>3, <1>6, <2>1, <3>2 DEF Handled, AtWork
      <4>2. j \in old.bad \/ (j \in old.seen /\ old.rows[j] = AsInSource(j))
        BY <1>3, <2>1, <4>1 DEF Account, Settled, Underway
      <4>3. old.bad \subseteq new.bad
        BY <1>1 DEF Looked
      <4> QED
        BY <1>6, <3>2, <4>2, <4>3
    <3> QED
      BY <3>1, <3>2
  <2>2. ASSUME NEW j \in new.seen PROVE j \in new.errors \/ new.rows[j] = AsInSource(j)
    <3>1. \A i \in old.seen : i \in old.errors \/ old.rows[i] = AsInSource(i)
      BY <1>3 DEF Account, Settled, Underway
    <3>2. old.seen \subseteq Citekeys
      BY DEF TypeOK, WorkerStates
    <3> QED
      BY <1>1, <1>2, <1>6, <2>2, <3>1, <3>2 DEF Looked, AsInSource
  <2>3. ASSUME NEW j \in new.errors
        PROVE  /\ Handled(w, j)' /\ j \notin new.dirty
               /\ row'[j].status = "INDEXED" => j \in new.seen
    <3>1. /\ Handled(w, j) /\ j \notin old.dirty
          /\ row[j].status = "INDEXED" => j \in old.seen
      BY <1>3, <1>6, <2>3 DEF Account, Settled, Underway
    <3>2. j # k /\ j \in Citekeys
      BY <1>6, <2>3, <3>1 DEF Handled, TypeOK, WorkerStates
    <3> QED
      BY <1>4, <1>6, <3>1, <3>2 DEF Handled, AtWork
  <2> QED
    BY <1>3, <2>1, <2>2, <2>3 DEF Settled, AsInSource
<1>10. AtEntry(w)' /\ Unblemished(w)'
  BY <1>1, <1>2, <1>3, <1>6 DEF Looked, Rejected, Duplicate, AtEntry, AtWork, Unblemished
<1> QED
  BY <1>5, <1>6, <1>7, <1>8, <1>9, <1>10 DEF Account, Copied

LEMMA BuildAccount ==
  ASSUME TypeOK, NEW w \in Workers, Account(w), Build(w)
  PROVE  Account(w)'
<1>1. /\ source' = source /\ row' = row /\ quarantine' = quarantine
      /\ worker[w].step = "indexing"
  BY DEF Build, runRows
<1>2. Copied(w)'
  BY <1>1, BuildTyped DEF Account, Copied, Underway, Flushed, Catalogued
<1>3. \A k \in Citekeys : Handled(w, k)' <=> Handled(w, k)
  BY <1>1, BuildTyped DEF Handled, AtWork
<1>4. Settled(w)'
  <2>1. worker[w].errors \subseteq Citekeys /\ worker[w].seen \subseteq Citekeys
    BY DEF TypeOK, WorkerStates
  <2> QED
    BY <1>1, <1>3, <2>1, BuildTyped DEF Account, Settled, Underway, AsInSource
<1>5. AtEntry(w)' /\ Unblemished(w)'
  BY <1>1, BuildTyped DEF Account, AtEntry, AtWork, Unblemished
<1> QED
  BY <1>2, <1>4, <1>5 DEF Account

LEMMA ReconcileAccount ==
  ASSUME TypeOK, NEW w \in Workers, Account(w), Reconcile(w)
  PROVE  Account(w)'
<1>1. /\ source' = source /\ row' = row /\ quarantine' = quarantine
      /\ worker[w].step = "matching" /\ worker[w].todo = {}
  BY DEF Reconcile, runRows
<1>2. Copied(w)'
  BY <1>1, ReconcileTyped DEF Account, Copied, Underway, Flushed, Catalogued
<1>3. \A k \in Citekeys : Handled(w, k)' <=> Handled(w, k)
  BY <1>1, ReconcileTyped DEF Handled, AtWork
<1>4. Settled(w)'
  <2>1. worker[w].errors \subseteq Citekeys /\ worker[w].seen \subseteq Citekeys
    BY DEF TypeOK, WorkerStates
  <2> QED
    BY <1>1, <1>3, <2>1, ReconcileTyped DEF Account, Settled, Underway, AsInSource
<1>5. AtEntry(w)' /\ Unblemished(w)'
  BY <1>1, ReconcileTyped DEF Account, AtEntry, AtWork, Unblemished
<1> QED
  BY <1>2, <1>4, <1>5 DEF Account

LEMMA CommitAccount ==
  ASSUME TypeOK, Parsed, NEW w \in Workers, Account(w), CommitVersion(w)
  PROVE  Account(w)'
<1> DEFINE old == worker[w]
           new == worker'[w]
           k == old.key
           version == [status |-> "INDEXED", sha |-> old.content]
<1>1. /\ source' = source /\ quarantine' = quarantine /\ old.step = "switched"
      /\ old.content \in Contents
  BY DEF CommitVersion, runRows, Parsed, AtWork
<1>2. /\ k \in Citekeys /\ k \notin old.todo /\ old.dirty = {}
      /\ old.content = source[k]
      /\ row \in [Citekeys -> Row]
      /\ old.errors \subseteq Citekeys /\ old.seen \subseteq Citekeys
  BY <1>1 DEF Account, AtEntry, AtWork, TypeOK, WorkerStates
<1>3. old.rows = row
  BY <1>1, <1>2, FlushedKeeps DEF Account, Copied, Underway
<1>4. version = AsInSource(k)
  BY <1>2 DEF AsInSource
<1>5. /\ new.run = old.run /\ new.bad = old.bad /\ new.errors = old.errors
      /\ new.dirty = {} /\ new.todo = old.todo /\ new.step = "matching"
      /\ new.seen = old.seen \cup {k} /\ new.hashed = old.hashed \cup {old.content}
      /\ new.rows = row' /\ row' = [row EXCEPT ![k] = version]
  BY <1>1, <1>2, <1>3, CommitTyped
<1>6. Copied(w)'
  <2>1. row' \in [Citekeys -> Row]
    BY <1>1, CommitTyped DEF TypeOK
  <2>2. Flushed(worker[w].dirty)' = row'
    BY <1>5, <2>1 DEF Flushed
  <2>3. Catalogued' \subseteq Catalogued \cup {old.content}
    BY <1>2, <1>5 DEF Catalogued
  <2> QED
    BY <1>1, <1>5, <2>2, <2>3 DEF Account, Copied, Underway
<1>7. Settled(w)'
  <2>1. ASSUME NEW j \in Citekeys, source[j] # "none", Handled(w, j)'
        PROVE  j \in new.bad \/ (j \in new.seen /\ new.rows[j] = AsInSource(j))
    <3>1. CASE j = k
      BY <1>2, <1>4, <1>5, <3>1
    <3>2. CASE j # k
      <4>1. Handled(w, j)
        BY <1>5, <2>1, <3>2 DEF Handled
      <4> QED
        BY <1>1, <1>2, <1>3, <1>5, <2>1, <3>2, <4>1 DEF Account, Settled, Underway
    <3> QED
      BY <3>1, <3>2
  <2>2. ASSUME NEW j \in new.seen PROVE j \in new.errors \/ new.rows[j] = AsInSource(j)
    <3>1. \A i \in old.seen : i \in old.errors \/ row[i] = AsInSource(i)
      BY <1>1, <1>3 DEF Account, Settled, Underway
    <3> QED
      BY <1>2, <1>4, <1>5, <2>2, <3>1
  <2>3. ASSUME NEW j \in new.errors
        PROVE  /\ Handled(w, j)' /\ j \notin new.dirty
               /\ row'[j].status = "INDEXED" => j \in new.seen
    <3>1. row[j].status = "INDEXED" => j \in old.seen
      BY <1>1, <1>5, <2>3 DEF Account, Settled, Underway
    <3>2. j \in Citekeys /\ Handled(w, j)
      BY <1>1, <1>2, <1>5, <2>3 DEF Account, Settled, Underway
    <3>3. j # k
      BY <1>1, <3>2 DEF Handled, AtWork
    <3> QED
      BY <1>2, <1>5, <3>1, <3>2, <3>3 DEF Handled, AtWork
  <2> QED
    BY <1>1, <2>1, <2>2, <2>3 DEF Settled, AsInSource
<1>8. AtEntry(w)' /\ Unblemished(w)'
  BY <1>5 DEF AtEntry, AtWork, Unblemished
<1> QED
  BY <1>6, <1>7, <1>8 DEF Account

LEMMA IndexFailsAccount ==
  ASSUME TypeOK, Parsed, NEW w \in Workers, Account(w), IndexFails(w)
  PROVE  Account(w)'
<1> DEFINE old == worker[w]
           new == worker'[w]
           k == old.key
<1>1. source' = source /\ row' = row /\ old.step \in {"indexing", "switched"}
  BY DEF IndexFails, catalogue
<1>2. /\ k \in Citekeys /\ k \notin old.todo /\ old.dirty = {}
      /\ old.content \in Contents
      /\ old.rows[k] = NoRow => old.content \notin old.hashed
      /\ row \in [Citekeys -> Row] /\ old.run \in Runs
      /\ quarantine \in [Runs -> SUBSET Citekeys]
      /\ old.errors \subseteq Citekeys /\ old.seen \subseteq Citekeys
  BY <1>1 DEF Account, AtEntry, AtWork, TypeOK, WorkerStates, Parsed
<1>3. old.rows = row /\ Catalogued \subseteq old.hashed /\ quarantine[old.run] = old.bad
  BY <1>1, <1>2, FlushedKeeps DEF Account, Copied, Underway
<1>4. /\ Preserved(k, old.content) \subseteq {k}
      /\ row[k].status = "INDEXED" => k \in Preserved(k, old.content)
  <2>1. row[k] = NoRow => \A j \in Citekeys : row[j].sha # old.content
    BY <1>2, <1>3 DEF Catalogued
  <2>2. row[k] = NoRow => row[k].status # "INDEXED"
    BY DEF NoRow
  <2> QED
    BY <1>2, <2>1, <2>2 DEF Preserved
<1>5. /\ new.run = old.run /\ new.dirty = {} /\ new.todo = old.todo
      /\ new.step = "matching"
      /\ new.seen = old.seen \cup Preserved(k, old.content)
      /\ new.bad = old.bad \cup {k} /\ new.errors = old.errors \cup {k}
      /\ new.rows = row /\ new.hashed = Catalogued
      /\ quarantine' = [quarantine EXCEPT ![old.run] = @ \cup {k}]
  BY <1>2, IndexFailsTyped
<1>6. Copied(w)'
  <2>1. Flushed(worker[w].dirty)' = row
    BY <1>1, <1>2, <1>5 DEF Flushed
  <2>2. Catalogued' = Catalogued
    BY <1>1 DEF Catalogued
  <2> QED
    BY <1>2, <1>3, <1>5, <2>1, <2>2 DEF Copied
<1>7. Settled(w)'
  <2>1. ASSUME NEW j \in Citekeys, source[j] # "none", Handled(w, j)'
        PROVE  j \in new.bad \/ (j \in new.seen /\ new.rows[j] = AsInSource(j))
    <3>1. CASE j = k
      BY <1>5, <3>1
    <3>2. CASE j # k
      <4>1. Handled(w, j)
        BY <1>5, <2>1, <3>2 DEF Handled
      <4> QED
        BY <1>1, <1>3, <1>5, <2>1, <4>1 DEF Account, Settled, Underway
    <3> QED
      BY <3>1, <3>2
  <2>2. ASSUME NEW j \in new.seen PROVE j \in new.errors \/ new.rows[j] = AsInSource(j)
    <3>1. \A i \in old.seen : i \in old.errors \/ row[i] = AsInSource(i)
      BY <1>1, <1>3 DEF Account, Settled, Underway
    <3> QED
      BY <1>4, <1>5, <2>2, <3>1
  <2>3. ASSUME NEW j \in new.errors
        PROVE  /\ Handled(w, j)' /\ j \notin new.dirty
               /\ row'[j].status = "INDEXED" => j \in new.seen
    <3>1. CASE j = k
      BY <1>1, <1>2, <1>4, <1>5, <3>1 DEF Handled, AtWork
    <3>2. CASE j \in old.errors
      <4>1. Handled(w, j)
        BY <1>1, <3>2 DEF Account, Settled, Underway
      <4>2. row[j].status = "INDEXED" => j \in old.seen
        BY <1>1, <3>2 DEF Account, Settled, Underway
      <4> QED
        BY <1>1, <1>5, <4>1, <4>2 DEF Handled, AtWork
    <3> QED
      BY <1>5, <2>3, <3>1, <3>2
  <2> QED
    BY <1>1, <2>1, <2>2, <2>3 DEF Settled, AsInSource
<1>8. AtEntry(w)' /\ Unblemished(w)'
  BY <1>5 DEF AtEntry, AtWork, Unblemished
<1> QED
  BY <1>6, <1>7, <1>8 DEF Account

\* An attempt takes a step and goes on.
GoesOn(w) ==
  Discover(w) \/ Match(w) \/ Build(w) \/ CommitVersion(w) \/ IndexFails(w) \/ Reconcile(w)

\* An attempt stays alone only through its own steps and those that leave it as it is.
LEMMA AloneSteps ==
  ASSUME IInv, [Next]_vars, NEW w \in Workers, worker'[w].alone
  PROVE  \/ UNCHANGED <<source, row, quarantine, completed, worker>>
         \/ \E r \in Runs : Begin(w, r)
         \/ worker[w].alone /\ GoesOn(w)
<1>1. CASE UNCHANGED vars
  BY <1>1 DEF vars, catalogue, runRows
<1>2. CASE \/ Edit
           \/ \E q \in Requesters : AskActive(q) \/ AskIdle(q) \/ Request(q)
           \/ \E v \in Workers, r \in Runs : Redelivered(v, r)
  BY <1>2, OutsideTyped DEF IInv
<1>3. ASSUME NEW v \in Workers, NEW r \in Runs, Begin(v, r) PROVE v = w
  BY <1>3, BeginTyped DEF IInv
<1>4. ASSUME NEW v \in Workers, Attempt(v) \/ Crash(v), v # w PROVE FALSE
  <2>1. OthersStay(v)
    BY <1>4, MatchTyped, DiscoverTyped, BuildTyped, CommitTyped, IndexFailsTyped, ReconcileTyped,
       EndTyped DEF Attempt, IInv, Parsed, AtWork, CommitVersion
  <2>2. worker[w].alone
    BY <1>4, <2>1 DEF OthersStay
  <2>3. ~Busy(v)
    BY <1>4, <2>2 DEF IInv, Solo
  <2> QED
    BY <1>4, <2>3 DEF Attempt, Crash, Busy, Discover, Match, Build, CommitVersion, IndexFails,
       Reconcile, Complete, SyncFails
<1>5. ASSUME Complete(w) \/ SyncFails(w) \/ Crash(w) PROVE FALSE
  BY <1>5, EndTyped DEF IInv, Idle
<1>6. ASSUME GoesOn(w) PROVE worker[w].alone
  BY <1>6, MatchTyped, DiscoverTyped, BuildTyped, CommitTyped, IndexFailsTyped, ReconcileTyped
     DEF GoesOn, IInv, Parsed, AtWork, CommitVersion, Looked
<1> QED
  BY <1>1, <1>2, <1>3, <1>4, <1>5, <1>6 DEF Next, Attempt, GoesOn

LEMMA SoloNext ==
  ASSUME IInv, [Next]_vars
  PROVE  Solo'
<1> SUFFICES ASSUME NEW w \in Workers, worker'[w].alone
             PROVE  /\ Busy(w)' /\ worker'[w].run \notin completed'
                    /\ \A v \in Workers \ {w} : ~Busy(v)'
  BY DEF Solo
<1>1. CASE UNCHANGED <<source, row, quarantine, completed, worker>>
  BY <1>1 DEF IInv, Solo, Busy
<1>2. ASSUME NEW r \in Runs, Begin(w, r)
      PROVE  /\ Busy(w)' /\ worker'[w].run \notin completed'
             /\ \A v \in Workers \ {w} : ~Busy(v)'
  <2>1. completed' = completed /\ r \notin completed
    BY <1>2 DEF Begin, runRows
  <2>2. /\ worker'[w].run = r /\ worker'[w].step = "begun"
        /\ worker'[w].alone <=> \A v \in Workers : ~Busy(v)
        /\ \A v \in Workers \ {w} : worker'[v].step = worker[v].step
    BY <1>2, BeginTyped DEF IInv
  <2>3. \A v \in Workers : ~Busy(v)
    BY <2>2
  <2> QED
    BY <2>1, <2>2, <2>3 DEF Busy
<1>3. ASSUME worker[w].alone, GoesOn(w)
      PROVE  /\ Busy(w)' /\ worker'[w].run \notin completed'
             /\ \A v \in Workers \ {w} : ~Busy(v)'
  <2>1. /\ worker[w].run \notin completed
        /\ \A v \in Workers \ {w} : ~Busy(v)
    BY <1>3 DEF IInv, Solo
  <2>2. completed' = completed
    BY <1>3 DEF GoesOn, Discover, Match, Build, CommitVersion, IndexFails, Reconcile, runRows
  <2>3. OthersStay(w) /\ worker'[w].run = worker[w].run /\ worker'[w].step # "idle"
    BY <1>3, MatchTyped, DiscoverTyped, BuildTyped, CommitTyped, IndexFailsTyped, ReconcileTyped
       DEF GoesOn, IInv, Parsed, AtWork, CommitVersion, Looked
  <2> QED
    BY <2>1, <2>2, <2>3 DEF OthersStay, Busy
<1> QED
  BY <1>1, <1>2, <1>3, AloneSteps

LEMMA IInvNext ==
  ASSUME IInv, [Next]_vars
  PROVE  IInv'
<1>1. TypeOK' /\ Parsed'
  BY TypeNext DEF IInv
<1>2. Solo'
  BY SoloNext
<1>3. ASSUME NEW w \in Workers, worker'[w].alone PROVE Account(w)'
  <2>1. CASE UNCHANGED <<source, row, quarantine, completed, worker>>
    <3>1. Account(w)
      BY <1>3, <2>1 DEF IInv
    <3> QED
      BY <2>1, <3>1 DEF Account, Unblemished, Copied, Settled, AtEntry, Underway, Handled, AtWork,
         AsInSource, Flushed, Catalogued
  <2>2. CASE \E r \in Runs : Begin(w, r)
    BY <2>2, BeginTyped DEF IInv, Account, Unblemished, Copied, Settled, AtEntry, Underway, AtWork
  <2>3. CASE worker[w].alone /\ GoesOn(w)
    BY <2>3, DiscoverAccount, MatchAccount, BuildAccount, CommitAccount, IndexFailsAccount,
       ReconcileAccount DEF GoesOn, IInv
  <2> QED
    BY <1>3, <2>1, <2>2, <2>3, AloneSteps
<1> QED
  BY <1>1, <1>2, <1>3 DEF IInv

LEMMA IInvInit == Init => IInv
  BY TypeInit DEF Init, IInv, Parsed, AtWork, Solo, Idle

-----------------------------------------------------------------------------
(* What a completed run leaves behind *)

\* A run that is completed while an attempt has the library to itself is its own.
LEMMA CompletesItself ==
  ASSUME IInv, [Next]_vars, NEW w \in Workers, Completes(w), worker[w].alone
  PROVE  Complete(w)
<1>1. worker[w].run \notin completed /\ \A v \in Workers \ {w} : ~Busy(v)
  BY DEF IInv, Solo
<1>2. completed' # completed
  BY <1>1 DEF Completes
<1>3. \E v \in Workers : Complete(v)
  <2> SUFFICES ASSUME \A v \in Workers : ~Complete(v) PROVE FALSE
    OBVIOUS
  <2>1. \A v \in Workers : GoesOn(v) \/ SyncFails(v) \/ Crash(v) => completed' = completed
    <3> TAKE v \in Workers
    <3>1. Discover(v) \/ Match(v) \/ Build(v) => completed' = completed
      BY DEF Discover, Match, Build, runRows
    <3>2. CommitVersion(v) \/ IndexFails(v) \/ Reconcile(v) => completed' = completed
      BY DEF CommitVersion, IndexFails, Reconcile, runRows
    <3>3. SyncFails(v) \/ Crash(v) => completed' = completed
      BY DEF SyncFails, Crash, runRows
    <3> QED
      BY <3>1, <3>2, <3>3 DEF GoesOn
  <2>2. \A v \in Workers, r \in Runs : Begin(v, r) \/ Redelivered(v, r) => completed' = completed
    BY DEF Begin, Redelivered, runRows
  <2>3. \A q \in Requesters : AskActive(q) \/ AskIdle(q) \/ Request(q) => completed' = completed
    BY DEF AskActive, AskIdle, Request, runRows
  <2>4. Edit \/ UNCHANGED vars => completed' = completed
    BY DEF Edit, vars, runRows
  <2> QED
    BY <1>2, <2>1, <2>2, <2>3, <2>4 DEF Next, Attempt, GoesOn
<1>4. PICK v \in Workers : Complete(v)
  BY <1>3
<1>5. v = w
  BY <1>1, <1>4 DEF Complete, Busy
<1> QED
  BY <1>4, <1>5

\* The row a completed run leaves a paper: MISSING if it was not seen, else as the session
\* has it.
LEMMA CompletedRows ==
  ASSUME IInv, NEW w \in Workers, Complete(w), worker[w].alone, NEW k \in Citekeys
  PROVE  /\ row'[k] = IF k \notin worker[w].seen /\ worker[w].rows[k].status = "INDEXED"
                       THEN [row[k] EXCEPT !.status = "MISSING"] ELSE worker[w].rows[k]
         /\ Account(w) /\ Underway(w) /\ ~AtWork(w) /\ worker[w].todo = {}
         /\ source' = source
<1>1. /\ Account(w) /\ Underway(w) /\ ~AtWork(w) /\ worker[w].todo = {}
  BY DEF IInv, Complete, Underway, AtWork, Account, AtEntry
<1>2. worker[w].rows = Flushed(worker[w].dirty)
  BY <1>1 DEF Account, Copied
<1> QED
  BY <1>1, <1>2 DEF Complete, Dropped

\* What the summary of a completed run counts as quarantined is what the run quarantined,
\* for every number of attempts that died before it.
THEOREM QuarantineIsExact == Spec => QuarantineExact
<1>1. ASSUME IInv, [Next]_vars
      PROVE  [\A w \in Workers : Completes(w) /\ worker[w].alone =>
                quarantine'[worker[w].run] = worker[w].bad]_vars
  <2> SUFFICES ASSUME NEW w \in Workers, Completes(w), worker[w].alone
               PROVE  quarantine'[worker[w].run] = worker[w].bad
    OBVIOUS
  <2>1. Complete(w)
    BY <1>1, CompletesItself
  <2> QED
    BY <1>1, <2>1 DEF IInv, Account, Copied, Complete, Underway
<1> QED
  BY <1>1, IInvInit, IInvNext, PTL DEF Spec, QuarantineExact

\* A run that had the library to itself and is completed leaves a catalogue that says what
\* the source says, whatever the catalogue was, whichever entries failed and however
\* many runs there were.
THEOREM CatalogueReflectsSource == Spec => Reflected
<1>1. ASSUME IInv, [Next]_vars
      PROVE  [\A w \in Workers : Completes(w) /\ worker[w].alone =>
                \A k \in Citekeys :
                  /\ row'[k].status = "INDEXED" => row'[k].sha = source[k] \/ k \in worker[w].errors
                  /\ source[k] # "none" /\ k \notin worker[w].bad =>
                       row'[k] = [status |-> "INDEXED", sha |-> source[k]]]_vars
  <2> SUFFICES ASSUME NEW w \in Workers, Completes(w), worker[w].alone, NEW k \in Citekeys
               PROVE  /\ row'[k].status = "INDEXED" => row'[k].sha = source[k] \/ k \in worker[w].errors
                      /\ source[k] # "none" /\ k \notin worker[w].bad =>
                           row'[k] = [status |-> "INDEXED", sha |-> source[k]]
    OBVIOUS
  <2>1. Complete(w)
    BY <1>1, CompletesItself
  <2>2. /\ row'[k] = IF k \notin worker[w].seen /\ worker[w].rows[k].status = "INDEXED"
                     THEN [row[k] EXCEPT !.status = "MISSING"] ELSE worker[w].rows[k]
        /\ Settled(w) /\ Underway(w) /\ Handled(w, k)
    BY <1>1, <2>1, CompletedRows DEF Account, Handled
  <2>3. [row[k] EXCEPT !.status = "MISSING"].status = "MISSING"
    BY <1>1 DEF IInv, TypeOK, Row
  <2>4. k \in worker[w].seen => k \in worker[w].errors \/ worker[w].rows[k] = AsInSource(k)
    BY <2>2 DEF Settled
  <2>5. source[k] # "none" /\ k \notin worker[w].bad
          => k \in worker[w].seen /\ worker[w].rows[k] = AsInSource(k)
    BY <2>2 DEF Settled
  <2> QED
    BY <2>2, <2>3, <2>4, <2>5 DEF AsInSource
<1> QED
  BY <1>1, IInvInit, IInvNext, PTL DEF Spec, Reflected

\* However often the rebuild of a paper fails, reconciliation leaves the version that is in
\* service as it is.
THEOREM RebuildFailureServes == Spec => FailedRebuildServes
<1>1. ASSUME IInv, [Next]_vars
      PROVE  [\A w \in Workers, k \in Citekeys :
                Completes(w) /\ worker[w].alone /\ k \in worker[w].errors /\ row[k].status = "INDEXED"
                  => row'[k] = row[k]]_vars
  <2> SUFFICES ASSUME NEW w \in Workers, NEW k \in Citekeys, Completes(w), worker[w].alone,
                      k \in worker[w].errors, row[k].status = "INDEXED"
               PROVE  row'[k] = row[k]
    OBVIOUS
  <2>1. Complete(w)
    BY <1>1, CompletesItself
  <2>2. /\ k \in worker[w].seen => row'[k] = worker[w].rows[k]
        /\ Settled(w) /\ Copied(w) /\ Underway(w)
    BY <1>1, <2>1, CompletedRows DEF Account
  <2>3. k \in worker[w].seen /\ k \notin worker[w].dirty
    BY <2>2 DEF Settled
  <2>4. worker[w].rows[k] = row[k]
    BY <2>2, <2>3 DEF Copied, Flushed
  <2> QED
    BY <2>2, <2>3, <2>4
<1> QED
  BY <1>1, IInvInit, IInvNext, PTL DEF Spec, FailedRebuildServes

=============================================================================
