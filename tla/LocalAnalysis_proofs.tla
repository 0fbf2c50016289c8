------------------------ MODULE LocalAnalysis_proofs ------------------------
(***************************************************************************)
(* Theorems about LocalAnalysis: types, that a job which says it is done   *)
(* is done, and that no stage is attempted more often than it may be.      *)
(***************************************************************************)
EXTENDS LocalAnalysis, NaturalsInduction, WellFoundedInduction, TLAPS

-----------------------------------------------------------------------------
(* Stages, rows and workers *)

LEMMA PaperStages ==
  /\ Papers \subseteq Stages /\ Synthesis \in Stages /\ Synthesis \notin Papers
  /\ \A s \in Stages : s = Synthesis \/ s \in Papers
  /\ Papers # {} /\ Papers \subseteq Nat
  BY SizesAssumption DEF Papers, Stages, Synthesis

LEMMA RowTypes ==
  /\ NoRow \in Row /\ NoRow.status = "ABSENT" /\ NoRow.attempts = 0
  /\ NoRows \in [Stages -> Row]
  /\ \A s \in Stages : NoRows[s] = NoRow
  /\ PreparedRows \in [Stages -> Row]
  /\ \A s \in Stages : PreparedRows[s].attempts = 0
  /\ \A p \in Papers : PreparedRows[p].status = "PENDING"
  /\ PreparedRows[Synthesis].status = "BLOCKED"
  BY PaperStages DEF NoRow, Row, NoRows, StageStatuses, PreparedRows

LEMMA IdleIs ==
  /\ Idle \in WorkerStates
  /\ Idle.step = "idle" /\ Idle.task = "none" /\ Idle.status = "ABSENT"
  /\ Idle.rows = NoRows /\ Idle.claimed = {}
  BY RowTypes DEF Idle, WorkerStates, Steps, JobStatuses

\* The papers whose results come first.
LEMMA FirstClaimed ==
  ASSUME NEW set \in SUBSET Papers, set # {}
  PROVE  LET p == CHOOSE q \in set : \A r \in set : q <= r
         IN  p \in set /\ \A r \in set : p <= r
<1>1. set \subseteq Nat
  BY PaperStages
<1>2. PICK q \in set : \A r \in set : ~(<<r, q>> \in OpToRel(<, Nat))
  BY <1>1, NatLessThanWellFounded, WFMin
<1>3. ASSUME NEW r \in set, r < q PROVE FALSE
  <2>1. <<r, q>> \in Nat \X Nat /\ <<r, q>>[1] < <<r, q>>[2]
    BY <1>1, <1>3
  <2>2. <<r, q>> \in OpToRel(<, Nat)
    BY <2>1 DEF OpToRel
  <2> QED
    BY <1>2, <2>2
<1>4. \A r \in set : q <= r
  BY <1>1, <1>3
<1> QED
  BY <1>4

LEMMA StatusWords ==
  /\ Terminal \subseteq JobStatuses
  /\ \A copy, new, stored : Written(copy, new, stored) \in {new, stored}
  /\ \A copy \in JobStatuses \ Terminal, new \in Terminal :
       \A stored : Written(copy, new, stored) = new
  /\ \A p, q, b : Outcome(p, q, b) \in {"COMPLETED", "PARTIAL", "FAILED"}
  BY DEF Terminal, JobStatuses, Written, Outcome

\* A worker holds claimed papers exactly while it calls the model for them.
Tidy == \A w \in Workers : worker[w].step = "calling" <=> worker[w].claimed # {}

\* The worker that moves, and what it becomes.
Turns(w, x) ==
  /\ x \in WorkerStates
  /\ x.step = "calling" <=> x.claimed # {}
  /\ worker' = [worker EXCEPT ![w] = x]

LEMMA TurnsOnly ==
  ASSUME TypeOK, Tidy, NEW w \in Workers, NEW x, Turns(w, x)
  PROVE  /\ worker' \in [Workers -> WorkerStates] /\ Tidy'
         /\ worker'[w] = x
         /\ \A v \in Workers \ {w} : worker'[v] = worker[v]
  BY DEF TypeOK, Turns, Tidy

LEMMA FreeTurns == ASSUME NEW w \in Workers, Free(w) PROVE Turns(w, Idle)
  BY IdleIs DEF Free, Turns

\* The papers as they are in the database, the synthesis not loaded.
Copy == [stage EXCEPT ![Synthesis] = NoRow]

LEMMA CopyIs ==
  ASSUME TypeOK
  PROVE  /\ Copy \in [Stages -> Row] /\ Copy[Synthesis] = NoRow
         /\ \A p \in Papers : Copy[p] = stage[p]
         /\ stage = NoRows => Copy = NoRows
  BY PaperStages, RowTypes DEF TypeOK, Copy

-----------------------------------------------------------------------------
(* What each step does to the job, its stages and the worker that takes it *)

Held == <<cancel, request, analysed, faults, cancels>>

LEMMA StartStep ==
  ASSUME TypeOK, NEW w \in Workers, Start(w)
  PROVE  /\ worker[w].step = "idle" /\ runs > 0 /\ runs' = runs - 1
         /\ UNCHANGED <<Held, stage>>
         /\ \/ Ended /\ UNCHANGED <<status, worker>>
            \/ ~Ended /\ cancel /\ status' = "CANCELLED" /\ UNCHANGED worker
            \/ /\ ~Ended /\ ~cancel /\ stage = NoRows /\ status' = "RETRIEVING"
               /\ \E x : /\ Turns(w, x) /\ x.step = "preparing" /\ x.status = "RETRIEVING"
                         /\ x.rows = NoRows
            \/ /\ ~Ended /\ ~cancel /\ stage # NoRows /\ UNCHANGED status
               /\ \E x : /\ Turns(w, x) /\ x.step = "entered" /\ x.status = status
                         /\ x.rows = Copy
<1>1. worker[w].step = "idle" /\ runs > 0 /\ runs' = runs - 1 /\ UNCHANGED <<Held, stage>>
  BY DEF Start, Held
<1>2. \/ Ended /\ UNCHANGED <<status, worker>>
      \/ ~Ended /\ cancel /\ status' = "CANCELLED" /\ UNCHANGED worker
      \/ /\ ~Ended /\ ~cancel /\ stage = NoRows /\ status' = "RETRIEVING"
         /\ worker' = [worker EXCEPT ![w] = [Idle EXCEPT !.step = "preparing", !.task = "run",
                                                         !.status = "RETRIEVING"]]
      \/ /\ ~Ended /\ ~cancel /\ stage # NoRows /\ UNCHANGED status
         /\ worker' = [worker EXCEPT ![w] = Loaded(w, "run")]
  BY DEF Start
<1> DEFINE x == [Idle EXCEPT !.step = "preparing", !.task = "run", !.status = "RETRIEVING"]
           y == Loaded(w, "run")
<1>3. ASSUME worker' = [worker EXCEPT ![w] = x]
      PROVE  Turns(w, x) /\ x.step = "preparing" /\ x.status = "RETRIEVING" /\ x.rows = NoRows
  <2>1. x \in WorkerStates
    BY IdleIs DEF WorkerStates, Steps, JobStatuses
  <2>2. x.step = "preparing" /\ x.status = "RETRIEVING" /\ x.rows = NoRows /\ x.claimed = {}
    BY IdleIs DEF WorkerStates
  <2> QED
    BY <1>3, <2>1, <2>2 DEF Turns
<1>4. ASSUME worker' = [worker EXCEPT ![w] = y]
      PROVE  Turns(w, y) /\ y.step = "entered" /\ y.status = status /\ y.rows = Copy
  <2>1. y \in WorkerStates /\ y.claimed = {} /\ y.step = "entered"
    BY CopyIs DEF Loaded, WorkerStates, Steps, Copy, TypeOK
  <2>2. y.status = status /\ y.rows = Copy
    BY DEF Loaded, Copy
  <2> QED
    BY <1>4, <2>1, <2>2 DEF Turns
<1> QED
  BY <1>1, <1>2, <1>3, <1>4

LEMMA PrepareStep ==
  ASSUME TypeOK, Tidy, NEW w \in Workers, Prepare(w)
  PROVE  /\ worker[w].step = "preparing" /\ stage = NoRows /\ stage' = PreparedRows
         /\ UNCHANGED <<Held, runs>>
         /\ status' = Written(worker[w].status, "ANALYZING", status)
         /\ \E x : /\ Turns(w, x) /\ x.step = "looping" /\ x.status = "ANALYZING"
                   /\ x.rows = [PreparedRows EXCEPT ![Synthesis] = NoRow]
<1> DEFINE rows == [PreparedRows EXCEPT ![Synthesis] = NoRow]
           x == [worker[w] EXCEPT !.step = "looping", !.status = "ANALYZING", !.rows = rows]
<1>1. worker[w] \in WorkerStates
  BY DEF TypeOK
<1>2. rows \in [Stages -> Row]
  BY RowTypes
<1>3. x \in WorkerStates /\ x.step = "looping" /\ x.status = "ANALYZING" /\ x.rows = rows
      /\ x.claimed = worker[w].claimed
  BY <1>1, <1>2 DEF WorkerStates, Steps, JobStatuses
<1>4. worker[w].step = "preparing"
  BY DEF Prepare
<1>5. Turns(w, x)
  BY <1>3, <1>4 DEF Turns, Tidy, Prepare
<1> QED
  BY <1>3, <1>5 DEF Prepare, Held

LEMMA PrepareFailsStep ==
  ASSUME TypeOK, Tidy, NEW w \in Workers, PrepareFails(w)
  PROVE  /\ worker[w].step = "preparing"
         /\ UNCHANGED <<Held, runs, stage>>
         /\ status' = Written(worker[w].status, "FAILED", status)
         /\ \E x : Turns(w, x) /\ x.step = "looping" /\ x.status = "FAILED" /\ x.rows = Copy
<1> DEFINE x == [worker[w] EXCEPT !.step = "looping", !.status = "FAILED", !.rows = Copy]
<1>1. worker[w] \in WorkerStates
  BY DEF TypeOK
<1>3. x \in WorkerStates /\ x.step = "looping" /\ x.status = "FAILED" /\ x.rows = Copy
      /\ x.claimed = worker[w].claimed
  BY <1>1, CopyIs DEF WorkerStates, Steps, JobStatuses, Terminal
<1>4. worker[w].step = "preparing"
  BY DEF PrepareFails
<1>5. Turns(w, x)
  BY <1>3, <1>4 DEF Turns, Tidy, PrepareFails, Copy
<1> QED
  BY <1>3, <1>5 DEF PrepareFails, Held

LEMMA ClaimStep ==
  ASSUME TypeOK, Tidy, NEW w \in Workers, Claim(w)
  PROVE  /\ worker[w].step \in {"entered", "looping"}
         /\ UNCHANGED <<Held, runs, status>>
         /\ \E x :
              /\ Turns(w, x) /\ x.step = "calling" /\ x.status = worker[w].status
              /\ \A p \in x.claimed : p \in Papers /\ worker[w].rows[p].status = "PENDING"
              /\ x.rows = [s \in Stages |-> IF s \in x.claimed THEN Claimed(worker[w].rows[s])
                                                              ELSE worker[w].rows[s]]
              /\ stage' = [s \in Stages |-> IF s \in x.claimed THEN x.rows[s] ELSE stage[s]]
<1> DEFINE chosen == FirstOf(Pending(w), MaxConcurrency)
           rows == [p \in Stages |-> IF p \in chosen THEN Claimed(worker[w].rows[p])
                                                     ELSE worker[w].rows[p]]
           x == [worker[w] EXCEPT !.step = "calling", !.rows = rows, !.claimed = chosen]
<1>1. worker[w] \in WorkerStates
  BY DEF TypeOK
<1>2. chosen \subseteq Pending(w)
  BY DEF FirstOf
<1>3. \A p \in chosen : p \in Papers /\ worker[w].rows[p].status = "PENDING"
  BY <1>2 DEF Pending, WithStatus
<1>4. rows \in [Stages -> Row]
  <2>1. \A r \in Row : Claimed(r) \in Row
    BY DEF Claimed, Row, StageStatuses
  <2> QED
    BY <1>1, <2>1 DEF WorkerStates
<1>5. /\ worker[w].step \in {"entered", "looping"} /\ chosen # {}
      /\ UNCHANGED <<Held, runs, status>>
      /\ stage' = [p \in Stages |-> IF p \in chosen THEN rows[p] ELSE stage[p]]
      /\ worker' = [worker EXCEPT ![w] = x]
  BY DEF Claim, InLoop, Held, jobRow
<1>6. /\ x \in WorkerStates /\ x.step = "calling" /\ x.status = worker[w].status
      /\ x.rows = rows /\ x.claimed = chosen
  <2> HIDE DEF rows, chosen
  <2> QED
    BY <1>1, <1>3, <1>4 DEF WorkerStates, Steps
<1>7. Turns(w, x)
  BY <1>5, <1>6 DEF Turns
<1>8. /\ \A p \in x.claimed : p \in Papers /\ worker[w].rows[p].status = "PENDING"
      /\ x.rows = [s \in Stages |-> IF s \in x.claimed THEN Claimed(worker[w].rows[s])
                                                      ELSE worker[w].rows[s]]
      /\ stage' = [s \in Stages |-> IF s \in x.claimed THEN x.rows[s] ELSE stage[s]]
  <2> HIDE DEF x
  <2> QED
    BY <1>3, <1>5, <1>6
<1> HIDE DEF x
<1> QED
  BY <1>5, <1>6, <1>7, <1>8

\* w stores what became of paper p.
Stores(w, p, new, x) ==
  /\ worker[w].step = "calling" /\ p \in Papers /\ p \in worker[w].claimed
  /\ UNCHANGED <<cancel, request, runs, faults, cancels>>
  /\ stage' = [stage EXCEPT ![p].status = new]
  /\ status' \in {status, "ANALYZING"}
  /\ new = "PENDING" => worker[w].rows[p].attempts <= MaxRetries
  /\ analysed' = IF new = "SUCCEEDED" THEN analysed \cup {p} ELSE analysed
  /\ Turns(w, x) /\ x.step \in {"looping", "calling"}
  /\ x.status \in {worker[w].status, "ANALYZING"}
  /\ x.claimed = worker[w].claimed \ {p}
  /\ x.rows = [worker[w].rows EXCEPT ![p].status = new]

LEMMA StoreStep ==
  ASSUME TypeOK, Tidy, NEW w \in Workers, Store(w)
  PROVE  \E p \in Papers, new \in {"SUCCEEDED", "PENDING", "FAILED"} : \E x : Stores(w, p, new, x)
<1> DEFINE p == CHOOSE q \in worker[w].claimed : \A r \in worker[w].claimed : q <= r
           rest == worker[w].claimed \ {p}
           x(new, progress) == [worker[w] EXCEPT !.step = IF rest = {} THEN "looping" ELSE "calling",
                                                 !.status = IF progress THEN "ANALYZING" ELSE worker[w].status,
                                                 !.rows[p].status = new,
                                                 !.claimed = rest]
<1>1. worker[w] \in WorkerStates /\ worker[w].step = "calling" /\ worker[w].claimed # {}
  BY DEF TypeOK, Tidy, Store
<1>2. p \in worker[w].claimed /\ p \in Papers /\ p \in Stages
  <2>1. worker[w].claimed \in SUBSET Papers
    BY <1>1 DEF WorkerStates
  <2> QED
    BY <1>1, <2>1, FirstClaimed, PaperStages
<1>3. /\ UNCHANGED <<cancel, request, runs, faults, cancels>>
      /\ \E new \in {"SUCCEEDED", "PENDING", "FAILED"}, progress \in BOOLEAN :
           /\ new = "PENDING" => Retried(Attempts(w))
           /\ StoreResult(w, new, progress)
  BY DEF Store
<1>4. PICK new \in {"SUCCEEDED", "PENDING", "FAILED"}, progress \in BOOLEAN :
        /\ new = "PENDING" => Retried(Attempts(w))
        /\ StoreResult(w, new, progress)
  BY <1>3
<1>5. new = "PENDING" => worker[w].rows[p].attempts <= MaxRetries
  BY <1>4 DEF Attempts, Retried
<1>6. /\ stage' = [stage EXCEPT ![p].status = new]
      /\ status' = IF progress THEN Written(worker[w].status, "ANALYZING", status) ELSE status
      /\ analysed' = IF new = "SUCCEEDED" THEN analysed \cup {p} ELSE analysed
      /\ worker' = [worker EXCEPT ![w] = x(new, progress)]
  BY <1>4 DEF StoreResult
<1>7. status' \in {status, "ANALYZING"}
  BY <1>6, StatusWords
<1> DEFINE y == x(new, progress)
<1>8. /\ y.step = IF rest = {} THEN "looping" ELSE "calling"
      /\ y.status = IF progress THEN "ANALYZING" ELSE worker[w].status
      /\ y.rows = [worker[w].rows EXCEPT ![p].status = new]
      /\ y.claimed = rest /\ y.task = worker[w].task /\ y.cancel = worker[w].cancel
  <2> HIDE DEF p, rest
  <2> QED
    BY <1>1, <1>2 DEF WorkerStates
<1>9. y \in WorkerStates
  <2> HIDE DEF p
  <2>1. [worker[w].rows EXCEPT ![p].status = new] \in [Stages -> Row]
    BY <1>1, <1>2 DEF WorkerStates, Row, StageStatuses
  <2>2. rest \subseteq Papers
    BY <1>1 DEF WorkerStates
  <2> HIDE DEF rest
  <2> QED
    BY <1>1, <2>1, <2>2 DEF WorkerStates, Steps, JobStatuses
<1>10. Turns(w, y)
  BY <1>6, <1>8, <1>9 DEF Turns
<1> HIDE DEF y, p
<1>11. Stores(w, p, new, y)
  BY <1>1, <1>2, <1>3, <1>5, <1>6, <1>7, <1>8, <1>10 DEF Stores
<1> QED
  BY <1>2, <1>11

LEMMA LeaveStep ==
  ASSUME TypeOK, NEW w \in Workers, Leave(w)
  PROVE  /\ worker[w].step \in {"entered", "looping"} /\ Turns(w, Idle)
         /\ UNCHANGED <<Held, runs, stage, status>>
  BY FreeTurns DEF Leave, InLoop, Held, jobRow

LEMMA NothingAnalysedStep ==
  ASSUME TypeOK, NEW w \in Workers, NothingAnalysed(w)
  PROVE  /\ worker[w].step \in {"entered", "looping"} /\ Turns(w, Idle)
         /\ UNCHANGED <<Held, runs, stage>> /\ status' \in {status, "FAILED"}
         /\ status' = Written(worker[w].status, "FAILED", status)
<1>1. Outcome(Succeeded(w), Failed(w), FALSE) = "FAILED"
  BY DEF NothingAnalysed, Outcome
<1>2. /\ worker[w].step \in {"entered", "looping"} /\ Free(w)
      /\ UNCHANGED <<Held, runs, stage>>
  BY DEF NothingAnalysed, LoopOver, InLoop, Finalize, Held
<1>3. status' = Written(worker[w].status, Outcome(Succeeded(w), Failed(w), FALSE), status)
  BY DEF NothingAnalysed, Finalize
<1>4. status' = Written(worker[w].status, "FAILED", status)
  BY <1>1, <1>3
<1>5. status' \in {status, "FAILED"}
  BY <1>4 DEF Written
<1> QED
  BY <1>2, <1>4, <1>5, FreeTurns

LEMMA SynthesiseStep ==
  ASSUME TypeOK, Tidy, NEW w \in Workers, Synthesise(w)
  PROVE  /\ worker[w].step \in {"entered", "looping"} /\ UNCHANGED <<Held, runs>>
         /\ Pending(w) = {} /\ Running(w) = {} /\ Succeeded(w) # {}
         /\ \/ Turns(w, Idle) /\ UNCHANGED <<stage, status>> /\ SynthesisRow(w).status \in StageTerminal
            \/ /\ SynthesisRow(w).status \notin StageTerminal
               /\ stage' = [stage EXCEPT ![Synthesis] = Claimed(SynthesisRow(w))]
               /\ status' \in {status, "SYNTHESIZING"}
               /\ \E x : /\ Turns(w, x) /\ x.step = "synthesising" /\ x.status = "SYNTHESIZING"
                         /\ x.rows = [worker[w].rows EXCEPT ![Synthesis] = Claimed(SynthesisRow(w))]
<1> DEFINE row == SynthesisRow(w)
           rows == [worker[w].rows EXCEPT ![Synthesis] = Claimed(row)]
           x == [worker[w] EXCEPT !.step = "synthesising", !.status = "SYNTHESIZING",
                                  !.rows[Synthesis] = Claimed(row)]
<1>1. worker[w] \in WorkerStates /\ worker[w].step \in {"entered", "looping"}
  BY DEF TypeOK, Synthesise, LoopOver, InLoop
<1>2. /\ UNCHANGED <<Held, runs>>
      /\ Pending(w) = {} /\ Running(w) = {} /\ Succeeded(w) # {}
      /\ \/ row.status \in StageTerminal /\ Free(w) /\ UNCHANGED <<stage, status>>
         \/ /\ row.status \notin StageTerminal
            /\ stage' = [stage EXCEPT ![Synthesis] = Claimed(row)]
            /\ status' = Written(worker[w].status, "SYNTHESIZING", status)
            /\ worker' = [worker EXCEPT ![w] = x]
  BY DEF Synthesise, LoopOver, Held
<1>3. /\ x.step = "synthesising" /\ x.status = "SYNTHESIZING" /\ x.rows = rows
      /\ x.claimed = worker[w].claimed
  <2> HIDE DEF row
  <2> QED
    BY <1>1 DEF WorkerStates
<1>4. row \in Row /\ Claimed(row) \in Row
  <2>1. row \in Row
    BY <1>1, PaperStages DEF SynthesisRow, TypeOK, WorkerStates
  <2> QED
    BY <2>1 DEF Claimed, Row, StageStatuses
<1>5. x \in WorkerStates
  <2>1. rows \in [Stages -> Row]
    BY <1>1, <1>4 DEF WorkerStates
  <2> HIDE DEF row
  <2> QED
    BY <1>1, <2>1 DEF WorkerStates, Steps, JobStatuses
<1>6. worker' = [worker EXCEPT ![w] = x] => Turns(w, x)
  BY <1>1, <1>3, <1>5 DEF Turns, Tidy
<1> HIDE DEF x
<1>7. status' = Written(worker[w].status, "SYNTHESIZING", status) => status' \in {status, "SYNTHESIZING"}
  BY StatusWords
<1> QED
  BY <1>1, <1>2, <1>3, <1>6, <1>7, FreeTurns

LEMMA StoreSynthesisStep ==
  ASSUME TypeOK, Tidy, NEW w \in Workers, StoreSynthesis(w)
  PROVE  /\ worker[w].step = "synthesising" /\ UNCHANGED <<Held, runs>>
         /\ \/ /\ stage' = [stage EXCEPT ![Synthesis].status = "SUCCEEDED"] /\ Turns(w, Idle)
               /\ status' = Written(worker[w].status, Outcome(Succeeded(w), Failed(w), TRUE), status)
            \/ /\ stage' = [stage EXCEPT ![Synthesis].status = "FAILED"] /\ Turns(w, Idle)
               /\ status' = Written(worker[w].status, Outcome(Succeeded(w), Failed(w), FALSE), status)
            \/ /\ stage' = [stage EXCEPT ![Synthesis].status = "BLOCKED"] /\ UNCHANGED status
               /\ worker[w].rows[Synthesis].attempts <= MaxRetries
               /\ \E x : /\ Turns(w, x) /\ x.step = "looping" /\ x.status = worker[w].status
                         /\ x.rows = [worker[w].rows EXCEPT ![Synthesis].status = "BLOCKED"]
<1> DEFINE rows == [worker[w].rows EXCEPT ![Synthesis].status = "BLOCKED"]
           x == [worker[w] EXCEPT !.step = "looping", !.rows = rows]
<1>1. worker[w] \in WorkerStates /\ worker[w].step = "synthesising"
  BY DEF TypeOK, StoreSynthesis
<1>2. ASSUME worker' = [worker EXCEPT ![w].step = "looping", ![w].rows[Synthesis].status = "BLOCKED"]
      PROVE  worker' = [worker EXCEPT ![w] = x]
  BY <1>1, <1>2 DEF TypeOK, WorkerStates
<1>3. x.step = "looping" /\ x.rows = rows /\ x.claimed = worker[w].claimed /\ x.status = worker[w].status
  BY <1>1 DEF WorkerStates
<1>4. x \in WorkerStates
  <2>1. rows \in [Stages -> Row]
    BY <1>1, PaperStages DEF WorkerStates, Row, StageStatuses
  <2> HIDE DEF rows
  <2> QED
    BY <1>1, <2>1 DEF WorkerStates, Steps
<1>5. worker' = [worker EXCEPT ![w] = x] => Turns(w, x)
  BY <1>1, <1>3, <1>4 DEF Turns, Tidy
<1> HIDE DEF x
<1> QED
  BY <1>1, <1>2, <1>3, <1>5, FreeTurns DEF StoreSynthesis, Finalize, Retried, Held

LEMMA FailureStep ==
  ASSUME TypeOK, NEW w \in Workers, Raise(w) \/ Crash(w)
  PROVE  /\ worker[w].step # "idle" /\ Turns(w, Idle)
         /\ UNCHANGED <<cancel, request, analysed, cancels, stage>>
         /\ Fault /\ status' \in {status, "FAILED"} /\ runs' \in {runs, runs + 1}
  BY FreeTurns DEF Raise, Crash, jobRow

LEMMA PrepareConflictsStep ==
  ASSUME TypeOK, NEW w \in Workers, PrepareConflicts(w)
  PROVE  /\ worker[w].step = "preparing" /\ stage # NoRows /\ Turns(w, Idle)
         /\ UNCHANGED <<Held, runs, stage>>
         /\ status' = IF Ended THEN status ELSE "FAILED"
  BY FreeTurns DEF PrepareConflicts, Held

LEMMA RedeliverStep ==
  ASSUME TypeOK, Redeliver
  PROVE  /\ UNCHANGED <<status, cancel, stage, request, worker, analysed, cancels>>
         /\ Fault /\ runs' = runs + 1
  BY DEF Redeliver, jobRow

LEMMA RecoverStep ==
  ASSUME TypeOK, NEW w \in Workers, NEW s \in Stages, Recover(w, s)
  PROVE  /\ worker[w].step = "idle" /\ stage[s].status = "RUNNING" /\ ~Leased(s)
         /\ UNCHANGED <<Held, runs, status>>
         /\ Reclaimed(s) \in {"FAILED", "PENDING", "BLOCKED"}
         /\ Reclaimed(s) = "BLOCKED" => s = Synthesis
         /\ stage' = [stage EXCEPT ![s].status = Reclaimed(s)]
         /\ \E x : /\ Turns(w, x) /\ x.step = "recovered"
                   /\ x.rows = [NoRows EXCEPT ![s] = stage'[s]]
<1> DEFINE rows == [NoRows EXCEPT ![s] = stage'[s]]
           x == [Idle EXCEPT !.step = "recovered", !.task = "recover", !.status = status,
                             !.cancel = cancel, !.rows[s] = stage'[s]]
<1>1. /\ worker[w].step = "idle" /\ stage[s].status = "RUNNING" /\ ~Leased(s)
      /\ UNCHANGED <<Held, runs, status>>
      /\ stage' = [stage EXCEPT ![s].status = Reclaimed(s)]
      /\ worker' = [worker EXCEPT ![w] = x]
  BY DEF Recover, Held, jobRow
<1>2. /\ Reclaimed(s) \in {"FAILED", "PENDING", "BLOCKED"}
      /\ Reclaimed(s) = "BLOCKED" => s = Synthesis
  BY DEF Reclaimed
<1>3. stage'[s] \in Row
  BY <1>1, <1>2 DEF TypeOK, Row, StageStatuses
<1>4. x.step = "recovered" /\ x.rows = rows /\ x.claimed = {} /\ x \in WorkerStates
  <2>1. rows \in [Stages -> Row]
    BY <1>3, RowTypes
  <2>2. Idle.rows = NoRows /\ Idle.claimed = {} /\ Idle \in WorkerStates
    BY IdleIs
  <2>3. x.rows = rows /\ x.step = "recovered" /\ x.claimed = {}
    BY <2>2 DEF WorkerStates
  <2>4. x = [Idle EXCEPT !.step = "recovered", !.task = "recover", !.status = status,
                         !.cancel = cancel, !.rows = rows]
    BY <2>2 DEF WorkerStates
  <2> HIDE DEF rows
  <2>5. x \in WorkerStates
    BY <2>1, <2>2, <2>4 DEF WorkerStates, Steps, TypeOK
  <2> QED
    BY <2>3, <2>5 DEF rows
<1>5. Turns(w, x)
  BY <1>1, <1>4 DEF Turns
<1> HIDE DEF x
<1> QED
  BY <1>1, <1>2, <1>4, <1>5

LEMMA RunRecoveredStep ==
  ASSUME TypeOK, Tidy, NEW w \in Workers, RunRecovered(w)
  PROVE  /\ worker[w].step = "recovered" /\ UNCHANGED <<Held, runs, stage>>
         /\ \/ status' = "CANCELLED" /\ Turns(w, Idle)
            \/ /\ UNCHANGED status
               /\ \E x : /\ Turns(w, x) /\ x.step = "entered" /\ x.status = worker[w].status
                         /\ x.rows = [s \in Stages |-> IF worker[w].rows[s] # NoRow
                                                       THEN worker[w].rows[s] ELSE Copy[s]]
<1> DEFINE rows == [s \in Stages |-> IF worker[w].rows[s] # NoRow THEN worker[w].rows[s] ELSE Copy[s]]
           x == [worker[w] EXCEPT !.step = "entered", !.cancel = FALSE, !.rows = rows]
<1>1. worker[w] \in WorkerStates /\ worker[w].step = "recovered"
  BY DEF TypeOK, RunRecovered
<1>2. Loaded(w, "recover").rows = Copy
  BY DEF Loaded, Copy
<1>3. /\ UNCHANGED <<Held, runs, stage>>
      /\ \/ status' = "CANCELLED" /\ Free(w)
         \/ UNCHANGED status /\ worker' = [worker EXCEPT ![w] = x]
  BY <1>2 DEF RunRecovered, Held
<1>4. rows \in [Stages -> Row]
  BY <1>1, CopyIs DEF WorkerStates
<1>5. /\ x \in WorkerStates /\ x.step = "entered" /\ x.rows = rows
      /\ x.status = worker[w].status /\ x.claimed = worker[w].claimed
  <2> HIDE DEF rows
  <2> QED
    BY <1>1, <1>4 DEF WorkerStates, Steps
<1>6. worker' = [worker EXCEPT ![w] = x] => Turns(w, x)
  BY <1>1, <1>5 DEF Turns, Tidy
<1> HIDE DEF x
<1> QED
  BY <1>1, <1>3, <1>5, <1>6, FreeTurns

LEMMA RequestSteps ==
  ASSUME TypeOK, Create \/ Enqueue \/ RequestCancel
  PROVE  /\ UNCHANGED <<stage, worker, analysed>>
         /\ runs' \in {runs, runs + 1}
         /\ faults' = faults \/ Fault
         /\ faults' = faults =>
              \/ Create /\ request = "none" /\ request' = "committed" /\ status' = "QUEUED"
                        /\ UNCHANGED <<cancel, runs, cancels>>
              \/ Enqueue /\ request = "committed" /\ request' = "done" /\ runs' = runs + 1
                        /\ UNCHANGED <<status, cancel, cancels>>
              \/ /\ RequestCancel /\ request # "none" /\ UNCHANGED <<status, request>>
                 /\ cancel' \in {TRUE, cancel} /\ (~Ended => cancel' = TRUE)
         /\ status' \in {status, "QUEUED", "FAILED"} /\ cancel' \in {TRUE, cancel}
         /\ request' \in {request, "committed", "done"} /\ cancels' \in 0..MaxCancels
<1>1. MaxFaults \in Nat /\ MaxCancels \in Nat /\ faults \in 0..MaxFaults /\ cancels \in 0..MaxCancels
  BY SizesAssumption DEF TypeOK
<1>2. CASE Create
  BY <1>1, <1>2 DEF Create
<1>3. CASE Enqueue
  BY <1>1, <1>3 DEF Enqueue, Fault
<1>4. CASE RequestCancel
  <2>1. /\ UNCHANGED <<status, request, stage, worker, analysed>> /\ request # "none"
        /\ cancel' \in {TRUE, cancel}
        /\ ~Ended => cancel' = TRUE
    BY <1>4 DEF RequestCancel
  <2>2. /\ runs' \in {runs, runs + 1} /\ (faults' = faults \/ Fault) /\ cancels' \in 0..MaxCancels
    BY <1>1, <1>4 DEF RequestCancel, Fault
  <2> QED
    BY <1>4, <2>1, <2>2
<1> QED
  BY <1>2, <1>3, <1>4

-----------------------------------------------------------------------------
(* Types *)

LEMMA TypeInit == Init => TypeOK /\ Tidy
<1> SUFFICES ASSUME Init PROVE TypeOK /\ Tidy
  OBVIOUS
<1>1. worker \in [Workers -> WorkerStates] /\ Tidy
  BY IdleIs DEF Init, Tidy
<1>2. 0 \in 0..MaxFaults /\ 0 \in 0..MaxCancels /\ "ABSENT" \in JobStatuses
  BY SizesAssumption DEF JobStatuses
<1> QED
  BY <1>1, <1>2, RowTypes DEF Init, TypeOK

LEMMA HeldTypes ==
  ASSUME TypeOK, UNCHANGED Held
  PROVE  /\ cancel' \in BOOLEAN /\ request' \in {"none", "committed", "done"}
         /\ analysed' \subseteq Papers /\ faults' \in 0..MaxFaults /\ cancels' \in 0..MaxCancels
  BY DEF TypeOK, Held

LEMMA FaultTypes == ASSUME TypeOK, Fault PROVE faults' \in 0..MaxFaults /\ faults' # 0
  BY SizesAssumption DEF TypeOK, Fault

LEMMA RowKept ==
  ASSUME TypeOK, NEW s \in Stages, NEW new \in StageStatuses
  PROVE  [stage EXCEPT ![s].status = new] \in [Stages -> Row]
  BY DEF TypeOK, Row

LEMMA TypeKept == TypeOK /\ Tidy /\ [Next]_vars => TypeOK' /\ Tidy'
<1> SUFFICES ASSUME TypeOK, Tidy, [Next]_vars PROVE TypeOK' /\ Tidy'
  OBVIOUS
<1> USE PaperStages
<1>1. CASE Create \/ Enqueue \/ RequestCancel
  <2>1. status' \in JobStatuses /\ cancel' \in BOOLEAN /\ request' \in {"none", "committed", "done"}
    BY <1>1, RequestSteps DEF TypeOK, JobStatuses, Terminal
  <2>2. runs' \in Nat /\ faults' \in 0..MaxFaults /\ cancels' \in 0..MaxCancels
    <3>1. runs' \in {runs, runs + 1} /\ (faults' = faults \/ Fault) /\ cancels' \in 0..MaxCancels
      BY <1>1, RequestSteps
    <3> QED
      BY <3>1, FaultTypes DEF TypeOK
  <2>3. UNCHANGED <<stage, worker, analysed>>
    BY <1>1, RequestSteps
  <2> QED
    BY <2>1, <2>2, <2>3 DEF TypeOK, Tidy
<1>2. CASE Redeliver
  <2>1. UNCHANGED <<status, cancel, stage, request, worker, analysed, cancels>>
    BY <1>2, RedeliverStep
  <2>2. runs' \in Nat
    BY <1>2, RedeliverStep DEF TypeOK
  <2>3. faults' \in 0..MaxFaults
    BY <1>2, RedeliverStep, FaultTypes
  <2>4. Tidy'
    BY <2>1 DEF Tidy
  <2> QED
    BY <2>1, <2>2, <2>3, <2>4 DEF TypeOK
<1>3. ASSUME NEW w \in Workers, Start(w) PROVE TypeOK' /\ Tidy'
  <2>1. worker' \in [Workers -> WorkerStates] /\ Tidy'
    BY <1>3, StartStep, TurnsOnly DEF TypeOK, Tidy
  <2>2. status' \in JobStatuses /\ runs' \in Nat /\ stage' \in [Stages -> Row] /\ UNCHANGED Held
    BY <1>3, StartStep DEF TypeOK, JobStatuses, Terminal
  <2> QED
    BY <2>1, <2>2, HeldTypes DEF TypeOK
<1>4. ASSUME NEW w \in Workers, Prepare(w) PROVE TypeOK' /\ Tidy'
  <2>1. worker' \in [Workers -> WorkerStates] /\ Tidy'
    BY <1>4, PrepareStep, TurnsOnly
  <2>2. status' \in JobStatuses /\ runs' \in Nat /\ stage' \in [Stages -> Row] /\ UNCHANGED Held
    BY <1>4, PrepareStep, StatusWords, RowTypes DEF TypeOK, JobStatuses
  <2> QED
    BY <2>1, <2>2, HeldTypes DEF TypeOK
<1>5. ASSUME NEW w \in Workers, PrepareFails(w) PROVE TypeOK' /\ Tidy'
  <2>1. worker' \in [Workers -> WorkerStates] /\ Tidy'
    BY <1>5, PrepareFailsStep, TurnsOnly
  <2>2. status' \in JobStatuses /\ runs' \in Nat /\ stage' \in [Stages -> Row] /\ UNCHANGED Held
    BY <1>5, PrepareFailsStep, StatusWords DEF TypeOK, JobStatuses, Terminal
  <2> QED
    BY <2>1, <2>2, HeldTypes DEF TypeOK
<1>6. ASSUME NEW w \in Workers, PrepareConflicts(w) PROVE TypeOK' /\ Tidy'
  <2>1. worker' \in [Workers -> WorkerStates] /\ Tidy'
    BY <1>6, PrepareConflictsStep, TurnsOnly
  <2>2. status' \in JobStatuses /\ runs' \in Nat /\ stage' \in [Stages -> Row] /\ UNCHANGED Held
    BY <1>6, PrepareConflictsStep DEF TypeOK, JobStatuses, Terminal
  <2> QED
    BY <2>1, <2>2, HeldTypes DEF TypeOK
<1>7. ASSUME NEW w \in Workers, Claim(w) PROVE TypeOK' /\ Tidy'
  <2>1. PICK x : /\ Turns(w, x) /\ x.claimed \subseteq Papers
                 /\ stage' = [s \in Stages |-> IF s \in x.claimed THEN x.rows[s] ELSE stage[s]]
    BY <1>7, ClaimStep
  <2>2. worker' \in [Workers -> WorkerStates] /\ Tidy'
    BY <2>1, TurnsOnly
  <2>3. x.rows \in [Stages -> Row]
    BY <2>1 DEF Turns, WorkerStates
  <2>4. status' \in JobStatuses /\ runs' \in Nat /\ stage' \in [Stages -> Row] /\ UNCHANGED Held
    BY <1>7, ClaimStep, <2>1, <2>3 DEF TypeOK
  <2> QED
    BY <2>2, <2>4, HeldTypes DEF TypeOK
<1>8. ASSUME NEW w \in Workers, Store(w) PROVE TypeOK' /\ Tidy'
  <2>0. PICK p \in Papers, new \in {"SUCCEEDED", "PENDING", "FAILED"} : \E x : Stores(w, p, new, x)
    BY <1>8, StoreStep
  <2>1. PICK x : Stores(w, p, new, x)
    BY <2>0
  <2>2. worker' \in [Workers -> WorkerStates] /\ Tidy'
    BY <2>1, TurnsOnly DEF Stores
  <2>3. stage' \in [Stages -> Row]
    BY <2>1, RowKept DEF Stores, StageStatuses
  <2> QED
    BY <2>1, <2>2, <2>3 DEF Stores, TypeOK, JobStatuses
<1>9. ASSUME NEW w \in Workers, Leave(w) PROVE TypeOK' /\ Tidy'
  <2>1. worker' \in [Workers -> WorkerStates] /\ Tidy'
    BY <1>9, LeaveStep, TurnsOnly
  <2> QED
    BY <1>9, <2>1, LeaveStep, HeldTypes DEF TypeOK
<1>10. ASSUME NEW w \in Workers, NothingAnalysed(w) PROVE TypeOK' /\ Tidy'
  <2>1. worker' \in [Workers -> WorkerStates] /\ Tidy'
    BY <1>10, NothingAnalysedStep, TurnsOnly
  <2> QED
    BY <1>10, <2>1, NothingAnalysedStep, HeldTypes DEF TypeOK, JobStatuses, Terminal
<1>11. ASSUME NEW w \in Workers, Synthesise(w) PROVE TypeOK' /\ Tidy'
  <2>1. worker' \in [Workers -> WorkerStates] /\ Tidy'
    BY <1>11, SynthesiseStep, TurnsOnly
  <2>2. Claimed(SynthesisRow(w)) \in Row
    <3>1. SynthesisRow(w) \in Row
      BY DEF SynthesisRow, TypeOK, WorkerStates
    <3> QED
      BY <3>1 DEF Claimed, Row, StageStatuses
  <2>3. status' \in JobStatuses /\ stage' \in [Stages -> Row] /\ UNCHANGED <<Held, runs>>
    BY <1>11, <2>2, SynthesiseStep DEF TypeOK, JobStatuses
  <2> QED
    BY <2>1, <2>3, HeldTypes DEF TypeOK
<1>12. ASSUME NEW w \in Workers, StoreSynthesis(w) PROVE TypeOK' /\ Tidy'
  <2>1. worker' \in [Workers -> WorkerStates] /\ Tidy'
    BY <1>12, StoreSynthesisStep, TurnsOnly
  <2>2. stage' \in [Stages -> Row]
    <3>1. PICK new \in {"SUCCEEDED", "FAILED", "BLOCKED"} : stage' = [stage EXCEPT ![Synthesis].status = new]
      BY <1>12, StoreSynthesisStep
    <3>2. new \in StageStatuses
      BY DEF StageStatuses
    <3> QED
      BY <3>1, <3>2, RowKept
  <2>3. status' \in JobStatuses /\ UNCHANGED <<Held, runs>>
    <3>1. \E b \in BOOLEAN : \/ status' = status
                             \/ status' = Outcome(Succeeded(w), Failed(w), b)
      <4>1. \/ status' = status
            \/ \E b \in BOOLEAN :
                 status' = Written(worker[w].status, Outcome(Succeeded(w), Failed(w), b), status)
        BY <1>12, StoreSynthesisStep
      <4> QED
        BY <4>1 DEF Written
    <3>2. status' \in {status, "COMPLETED", "PARTIAL", "FAILED"}
      BY <3>1, StatusWords
    <3>3. UNCHANGED <<Held, runs>>
      BY <1>12, StoreSynthesisStep
    <3> QED
      BY <3>2, <3>3 DEF TypeOK, JobStatuses, Terminal
  <2> QED
    BY <2>1, <2>2, <2>3, HeldTypes DEF TypeOK
<1>13. ASSUME NEW w \in Workers, RunRecovered(w) PROVE TypeOK' /\ Tidy'
  <2>1. worker' \in [Workers -> WorkerStates] /\ Tidy'
    BY <1>13, RunRecoveredStep, TurnsOnly
  <2> QED
    BY <1>13, <2>1, RunRecoveredStep, HeldTypes DEF TypeOK, JobStatuses, Terminal
<1>14. ASSUME NEW w \in Workers, Raise(w) \/ Crash(w) PROVE TypeOK' /\ Tidy'
  <2>1. worker' \in [Workers -> WorkerStates] /\ Tidy'
    BY <1>14, FailureStep, TurnsOnly
  <2> QED
    <3>1. /\ UNCHANGED <<cancel, request, analysed, cancels, stage>> /\ Fault
          /\ status' \in {status, "FAILED"} /\ runs' \in {runs, runs + 1}
      BY <1>14, FailureStep
    <3>2. faults' \in 0..MaxFaults
      BY <3>1, FaultTypes
    <3>3. status' \in JobStatuses /\ runs' \in Nat
      BY <3>1 DEF TypeOK, JobStatuses, Terminal
    <3> QED
      BY <2>1, <3>1, <3>2, <3>3 DEF TypeOK
<1>15. ASSUME NEW w \in Workers, NEW s \in Stages, Recover(w, s) PROVE TypeOK' /\ Tidy'
  <2>1. worker' \in [Workers -> WorkerStates] /\ Tidy'
    BY <1>15, RecoverStep, TurnsOnly
  <2>2. stage' \in [Stages -> Row]
    <3>1. stage' = [stage EXCEPT ![s].status = Reclaimed(s)]
      BY <1>15, RecoverStep
    <3>2. Reclaimed(s) \in StageStatuses
      BY <1>15, RecoverStep DEF StageStatuses
    <3> QED
      BY <3>1, <3>2, RowKept
  <2> QED
    BY <1>15, <2>1, <2>2, RecoverStep, HeldTypes DEF TypeOK
<1>16. CASE UNCHANGED vars
  BY <1>16 DEF vars, jobRow, TypeOK, Tidy
<1> QED
  BY <1>1, <1>2, <1>3, <1>4, <1>5, <1>6, <1>7, <1>8, <1>9, <1>10, <1>11, <1>12, <1>13, <1>14,
     <1>15, <1>16 DEF Next, Work

LEMMA TypeHolds == Spec => [](TypeOK /\ Tidy)
  BY TypeInit, TypeKept, PTL DEF Spec

\* The values of the columns, of a worker's copies of them and of the queue: every
\* worker writes only rows and words the tables know.
THEOREM LocalTypeCorrect == Spec => []TypeOK
  BY TypeHolds, PTL

-----------------------------------------------------------------------------
(* What a worker holds is never ahead of what was stored *)

Live == {"PENDING", "RUNNING"} \cup StageTerminal

\* The rows of the papers were inserted.
Rooted == \A p \in Papers : stage[p].status \in Live

\* A copy holds the rows of all the papers or of none.
Whole(rows) ==
  \/ \A p \in Papers : rows[p].status = "ABSENT"
  \/ \A p \in Papers : rows[p].status \in Live

\* A copy says of no paper that it is analysed unless it is among those done; only a
\* worker that reclaimed one stage and has not read the others holds a part of the rows.
CopySound(x, done) ==
  /\ \A p \in Papers : x.rows[p].status = "SUCCEEDED" => p \in done
  /\ x.step # "recovered" => Whole(x.rows)
  /\ x.step = "recovered" => \A p \in Papers : x.rows[p] = NoRow \/ x.rows[p].status \in Live
  /\ x.step = "calling" => \A p \in Papers : x.rows[p].status \in Live
  /\ x.step = "synthesising" => \A p \in Papers : x.rows[p].status \in StageTerminal

RowsSound ==
  /\ stage = NoRows \/ Rooted
  /\ \A p \in Papers : stage[p].status = "SUCCEEDED" => p \in analysed

CopiesSound ==
  \A w \in Workers :
    /\ worker[w].rows # NoRows \/ worker[w].step = "recovered" => Rooted
    /\ CopySound(worker[w], analysed)

Sound == OutcomeHonest /\ RowsSound /\ CopiesSound

LEMMA EmptyCopy ==
  ASSUME NEW x, x.rows = NoRows, x.step \notin {"recovered", "calling", "synthesising"}, NEW done
  PROVE  CopySound(x, done)
<1>1. \A p \in Papers : x.rows[p].status = "ABSENT"
  BY RowTypes, PaperStages
<1> QED
  BY <1>1 DEF CopySound, Whole

\* A step that changes one worker disturbs no other copy.
LEMMA CopiesKept ==
  ASSUME TypeOK, Tidy, CopiesSound, NEW w \in Workers, NEW x, Turns(w, x),
         analysed \subseteq analysed', Rooted => Rooted',
         x.rows # NoRows \/ x.step = "recovered" => Rooted', CopySound(x, analysed')
  PROVE  CopiesSound'
<1>1. worker'[w] = x /\ \A v \in Workers \ {w} : worker'[v] = worker[v]
  BY TurnsOnly
<1>2. ASSUME NEW y, CopySound(y, analysed) PROVE CopySound(y, analysed')
  BY <1>2 DEF CopySound
<1>3. \A v \in Workers : /\ worker[v].rows # NoRows \/ worker[v].step = "recovered" => Rooted
                         /\ CopySound(worker[v], analysed)
  BY DEF CopiesSound
<1>4. \A v \in Workers :
        /\ worker'[v].rows # NoRows \/ worker'[v].step = "recovered" => Rooted'
        /\ CopySound(worker'[v], analysed')
  BY <1>1, <1>2, <1>3
<1> QED
  BY <1>4 DEF CopiesSound

\* ... and one that ends leaves none.
LEMMA CopyDropped ==
  ASSUME TypeOK, Tidy, CopiesSound, NEW w \in Workers, Turns(w, Idle),
         UNCHANGED analysed, Rooted => Rooted'
  PROVE  CopiesSound'
<1>1. CopySound(Idle, analysed')
  BY EmptyCopy, IdleIs
<1> QED
  BY <1>1, IdleIs, CopiesKept

\* What the database holds is a sound copy.
LEMMA CopyOfRows ==
  ASSUME TypeOK, RowsSound
  PROVE  /\ \A p \in Papers : Copy[p].status = "SUCCEEDED" => p \in analysed
         /\ Whole(Copy)
         /\ Copy # NoRows => Rooted
  BY CopyIs, RowTypes, PaperStages DEF RowsSound, Whole, Rooted

LEMMA Stored ==
  ASSUME TypeOK, RowsSound, Rooted, NEW s \in Stages, NEW new \in Live,
         stage' = [stage EXCEPT ![s].status = new],
         analysed \subseteq analysed',
         new = "SUCCEEDED" => s \notin Papers \/ s \in analysed'
  PROVE  RowsSound' /\ Rooted'
<1>1. \A p \in Papers : p # s => stage'[p] = stage[p]
  BY PaperStages DEF TypeOK
<1>2. stage'[s].status = new
  BY DEF TypeOK, Row
<1> QED
  BY <1>1, <1>2 DEF RowsSound, Rooted

LEMMA SynthesisStored ==
  ASSUME TypeOK, RowsSound, Rooted, UNCHANGED analysed,
         \A p \in Papers : stage'[p] = stage[p]
  PROVE  RowsSound' /\ Rooted'
  BY DEF RowsSound, Rooted

LEMMA HonestKept ==
  ASSUME TypeOK, OutcomeHonest, analysed \subseteq analysed', analysed' \subseteq Papers,
         status' = status \/ status' \notin {"COMPLETED", "PARTIAL"}
  PROVE  OutcomeHonest'
  BY DEF OutcomeHonest

\* A worker holding any paper's row in the loop holds them all, and so does the database.
LEMMA HoldsAll ==
  ASSUME TypeOK, CopiesSound, NEW w \in Workers, worker[w].step # "recovered",
         NEW p \in Papers, worker[w].rows[p].status # "ABSENT"
  PROVE  Rooted /\ \A q \in Papers : worker[w].rows[q].status \in Live
<1>1. CopySound(worker[w], analysed) /\ (worker[w].rows # NoRows => Rooted)
  BY DEF CopiesSound
<1>2. worker[w].rows # NoRows
  BY RowTypes, PaperStages
<1> QED
  BY <1>1, <1>2 DEF CopySound, Whole

LEMMA SoundStart ==
  ASSUME TypeOK, Tidy, Sound, NEW w \in Workers, Start(w) PROVE Sound'
<1>1. UNCHANGED <<stage, analysed>> /\ (status' = status \/ status' \in {"CANCELLED", "RETRIEVING"})
  BY StartStep DEF Held
<1>2. OutcomeHonest' /\ RowsSound' /\ (Rooted => Rooted')
  BY <1>1, HonestKept DEF Sound, RowsSound, Rooted, TypeOK
<1>3. CASE UNCHANGED worker
  BY <1>1, <1>3, <1>2 DEF Sound, CopiesSound, CopySound, Whole, Rooted
<1>4. CASE \E x : Turns(w, x) /\ x.step = "preparing" /\ x.rows = NoRows
  BY <1>1, <1>2, <1>4, EmptyCopy, CopiesKept DEF Sound
<1>5. CASE \E x : Turns(w, x) /\ x.step = "entered" /\ x.rows = Copy
  <2>1. PICK x : Turns(w, x) /\ x.step = "entered" /\ x.rows = Copy
    BY <1>5
  <2>2. CopySound(x, analysed') /\ (x.rows # NoRows => Rooted')
    BY <1>1, <1>2, <2>1, CopyOfRows DEF Sound, CopySound
  <2> QED
    BY <1>1, <1>2, <2>1, <2>2, CopiesKept DEF Sound
<1> QED
  BY <1>3, <1>4, <1>5, StartStep

LEMMA SoundPrepare ==
  ASSUME TypeOK, Tidy, Sound, NEW w \in Workers,
         Prepare(w) \/ PrepareFails(w) \/ PrepareConflicts(w)
  PROVE  Sound'
<1>1. CASE Prepare(w)
  <2>1. PICK x : /\ Turns(w, x) /\ x.step = "looping"
                 /\ x.rows = [PreparedRows EXCEPT ![Synthesis] = NoRow]
    BY <1>1, PrepareStep
  <2>2. stage' = PreparedRows /\ UNCHANGED analysed
    BY <1>1, PrepareStep DEF Held
  <2>3. \A p \in Papers : stage'[p].status = "PENDING" /\ x.rows[p].status = "PENDING"
    BY <2>1, <2>2, RowTypes, PaperStages
  <2>4. Rooted' /\ RowsSound' /\ CopySound(x, analysed')
    BY <2>1, <2>3 DEF Rooted, RowsSound, CopySound, Whole, Live
  <2>5. status' = status \/ status' = "ANALYZING"
    BY <1>1, PrepareStep DEF Written
  <2>6. OutcomeHonest'
    BY <2>2, <2>5, HonestKept DEF Sound, TypeOK
  <2>7. CopiesSound'
    BY <2>1, <2>2, <2>4, CopiesKept DEF Sound
  <2> QED
    BY <2>4, <2>6, <2>7 DEF Sound
<1>2. CASE PrepareFails(w)
  <2>1. PICK x : Turns(w, x) /\ x.step = "looping" /\ x.rows = Copy
    BY <1>2, PrepareFailsStep
  <2>2. UNCHANGED <<stage, analysed>>
    BY <1>2, PrepareFailsStep DEF Held
  <2>3. RowsSound' /\ (Rooted => Rooted')
    BY <2>2 DEF Sound, RowsSound, Rooted
  <2>4. CopySound(x, analysed') /\ (x.rows # NoRows => Rooted')
    BY <2>1, <2>2, <2>3, CopyOfRows DEF Sound, CopySound
  <2>5. status' = status \/ status' = "FAILED"
    BY <1>2, PrepareFailsStep DEF Written
  <2>6. OutcomeHonest'
    BY <2>2, <2>5, HonestKept DEF Sound, TypeOK
  <2>7. CopiesSound'
    BY <2>1, <2>2, <2>3, <2>4, CopiesKept DEF Sound
  <2> QED
    BY <2>3, <2>6, <2>7 DEF Sound
<1>3. CASE PrepareConflicts(w)
  <2>1. Turns(w, Idle) /\ UNCHANGED <<stage, analysed>> /\ (status' = status \/ status' = "FAILED")
    BY <1>3, PrepareConflictsStep DEF Held
  <2>2. RowsSound' /\ (Rooted => Rooted') /\ OutcomeHonest'
    BY <2>1, HonestKept DEF Sound, RowsSound, Rooted, TypeOK
  <2> QED
    BY <2>1, <2>2, CopyDropped DEF Sound
<1> QED
  BY <1>1, <1>2, <1>3

LEMMA SoundClaim ==
  ASSUME TypeOK, Tidy, Sound, NEW w \in Workers, Claim(w) PROVE Sound'
<1>1. UNCHANGED <<status, analysed>> /\ worker[w].step \in {"entered", "looping"}
  BY ClaimStep DEF Held
<1>2. PICK x :
        /\ Turns(w, x) /\ x.step = "calling"
        /\ \A p \in x.claimed : p \in Papers /\ worker[w].rows[p].status = "PENDING"
        /\ x.rows = [s \in Stages |-> IF s \in x.claimed THEN Claimed(worker[w].rows[s])
                                                        ELSE worker[w].rows[s]]
        /\ stage' = [s \in Stages |-> IF s \in x.claimed THEN x.rows[s] ELSE stage[s]]
  BY ClaimStep
<1>3. PICK p \in x.claimed : p \in Papers /\ worker[w].rows[p].status = "PENDING"
  BY <1>2 DEF Turns
<1>4. Rooted /\ \A q \in Papers : worker[w].rows[q].status \in Live
  BY <1>1, <1>3, HoldsAll DEF Sound
<1>5. \A q \in Papers :
        /\ stage'[q].status = IF q \in x.claimed THEN "RUNNING" ELSE stage[q].status
        /\ x.rows[q].status = IF q \in x.claimed THEN "RUNNING" ELSE worker[w].rows[q].status
  BY <1>2, PaperStages DEF Claimed
<1>6. Rooted'
  BY <1>4, <1>5 DEF Rooted, Live
<1>7. RowsSound'
  BY <1>1, <1>5, <1>6 DEF Sound, RowsSound
<1>8. CopySound(worker[w], analysed)
  BY DEF Sound, CopiesSound
<1>9. CopySound(x, analysed')
  BY <1>1, <1>2, <1>4, <1>5, <1>8 DEF CopySound, Whole, Live
<1>10. CopiesSound'
  BY <1>1, <1>2, <1>6, <1>9, CopiesKept DEF Sound
<1>11. OutcomeHonest'
  BY <1>1, HonestKept DEF Sound, TypeOK
<1> QED
  BY <1>7, <1>10, <1>11 DEF Sound

LEMMA SoundStore ==
  ASSUME TypeOK, Tidy, Sound, NEW w \in Workers, Store(w) PROVE Sound'
<1>0. PICK p \in Papers, new \in {"SUCCEEDED", "PENDING", "FAILED"} : \E x : Stores(w, p, new, x)
  BY StoreStep
<1>1. PICK x : Stores(w, p, new, x)
  BY <1>0
<1>2. /\ worker[w].step = "calling"
      /\ stage' = [stage EXCEPT ![p].status = new] /\ status' \in {status, "ANALYZING"}
      /\ analysed' = IF new = "SUCCEEDED" THEN analysed \cup {p} ELSE analysed
      /\ Turns(w, x) /\ x.step \in {"looping", "calling"}
      /\ x.rows = [worker[w].rows EXCEPT ![p].status = new]
  BY <1>1 DEF Stores
<1>3. /\ worker[w].rows # NoRows => Rooted
      /\ CopySound(worker[w], analysed)
      /\ worker[w].rows \in [Stages -> Row]
  BY DEF Sound, CopiesSound, TypeOK, WorkerStates
<1>4. \A q \in Papers : worker[w].rows[q].status \in Live
  BY <1>2, <1>3 DEF CopySound
<1>5. Rooted
  <2>1. worker[w].rows[p].status # "ABSENT"
    BY <1>4 DEF Live, StageTerminal
  <2> QED
    BY <1>3, <2>1, RowTypes, PaperStages
<1>6. new \in Live /\ p \in Stages
  BY PaperStages DEF Live, StageTerminal
<1>7. analysed \subseteq analysed' /\ analysed' \subseteq Papers /\ (new = "SUCCEEDED" => p \in analysed')
  BY <1>2 DEF TypeOK
<1>8. RowsSound' /\ Rooted'
  BY <1>2, <1>5, <1>6, <1>7, Stored DEF Sound
<1>9. \A q \in Papers : x.rows[q].status = IF q = p THEN new ELSE worker[w].rows[q].status
  BY <1>2, <1>3, PaperStages DEF Row
<1>10. CopySound(x, analysed')
  BY <1>2, <1>3, <1>4, <1>6, <1>7, <1>9 DEF CopySound, Whole
<1>11. CopiesSound'
  BY <1>2, <1>7, <1>8, <1>10, CopiesKept DEF Sound
<1>12. OutcomeHonest'
  BY <1>2, <1>7, HonestKept DEF Sound
<1> QED
  BY <1>8, <1>11, <1>12 DEF Sound

LEMMA SoundSynthesise ==
  ASSUME TypeOK, Tidy, Sound, NEW w \in Workers, Synthesise(w) PROVE Sound'
<1>1. /\ worker[w].step \in {"entered", "looping"} /\ UNCHANGED analysed
      /\ Pending(w) = {} /\ Running(w) = {} /\ Succeeded(w) # {}
  BY SynthesiseStep DEF Held
<1>2. PICK p \in Papers : worker[w].rows[p].status = "SUCCEEDED"
  BY <1>1 DEF Succeeded, WithStatus
<1>3. Rooted /\ \A q \in Papers : worker[w].rows[q].status \in Live
  BY <1>1, <1>2, HoldsAll DEF Sound
<1>4. \A q \in Papers : worker[w].rows[q].status \in StageTerminal
  BY <1>1, <1>3 DEF Pending, Running, WithStatus, Live
<1>5. status' = status \/ status' = "SYNTHESIZING"
  BY SynthesiseStep
<1>6. OutcomeHonest'
  BY <1>1, <1>5, HonestKept DEF Sound, TypeOK
<1>7. \A q \in Papers : stage'[q] = stage[q]
  BY SynthesiseStep, PaperStages DEF TypeOK
<1>8. RowsSound' /\ Rooted'
  BY <1>1, <1>3, <1>7, SynthesisStored DEF Sound
<1>9. CASE Turns(w, Idle)
  BY <1>1, <1>6, <1>8, <1>9, CopyDropped DEF Sound
<1>10. CASE \E x : /\ Turns(w, x) /\ x.step = "synthesising"
                   /\ x.rows = [worker[w].rows EXCEPT ![Synthesis] = Claimed(SynthesisRow(w))]
  <2>1. PICK x : /\ Turns(w, x) /\ x.step = "synthesising"
                 /\ x.rows = [worker[w].rows EXCEPT ![Synthesis] = Claimed(SynthesisRow(w))]
    BY <1>10
  <2>2. \A q \in Papers : x.rows[q] = worker[w].rows[q]
    BY <2>1, PaperStages DEF TypeOK, WorkerStates
  <2>3. CopySound(worker[w], analysed)
    BY DEF Sound, CopiesSound
  <2>4. CopySound(x, analysed')
    BY <1>1, <1>3, <1>4, <2>1, <2>2, <2>3 DEF CopySound, Whole
  <2>5. CopiesSound'
    BY <1>1, <1>8, <2>1, <2>4, CopiesKept DEF Sound
  <2> QED
    BY <1>6, <1>8, <2>5 DEF Sound
<1> QED
  BY <1>9, <1>10, SynthesiseStep

\* The outcome a worker writes is honest because its copies are sound.
LEMMA SoundOutcome ==
  ASSUME TypeOK, Tidy, Sound, NEW w \in Workers, NEW b \in BOOLEAN,
         \A p \in Papers : worker[w].rows[p].status \in StageTerminal,
         UNCHANGED analysed,
         status' = Written(worker[w].status, Outcome(Succeeded(w), Failed(w), b), status)
  PROVE  OutcomeHonest'
<1>1. CopySound(worker[w], analysed)
  BY DEF Sound, CopiesSound
<1>2. Succeeded(w) \subseteq analysed
  BY <1>1 DEF Succeeded, WithStatus, CopySound
<1>3. Failed(w) = {} => Papers \subseteq Succeeded(w)
  BY DEF Failed, Succeeded, WithStatus, StageTerminal
<1>4. CASE status' = status
  BY <1>4, HonestKept DEF Sound, TypeOK
<1>5. CASE status' = Outcome(Succeeded(w), Failed(w), b)
  BY <1>2, <1>3, <1>5 DEF Outcome, OutcomeHonest, TypeOK
<1> QED
  BY <1>4, <1>5 DEF Written

LEMMA SoundStoreSynthesis ==
  ASSUME TypeOK, Tidy, Sound, NEW w \in Workers, StoreSynthesis(w) PROVE Sound'
<1>1. worker[w].step = "synthesising" /\ UNCHANGED analysed
  BY StoreSynthesisStep DEF Held
<1>2. CopySound(worker[w], analysed)
  BY DEF Sound, CopiesSound
<1>3. \A p \in Papers : worker[w].rows[p].status \in StageTerminal
  BY <1>1, <1>2 DEF CopySound
<1>4. PICK p \in Papers : TRUE
  BY PaperStages
<1>5. Rooted
  <2>1. worker[w].rows[p].status # "ABSENT"
    BY <1>3 DEF StageTerminal
  <2> QED
    BY <1>1, <2>1, HoldsAll DEF Sound
<1>6. \A q \in Papers : stage'[q] = stage[q]
  BY StoreSynthesisStep, PaperStages DEF TypeOK
<1>7. RowsSound' /\ Rooted'
  BY <1>1, <1>5, <1>6, SynthesisStored DEF Sound
<1>8. OutcomeHonest'
  <2>1. \/ status' = status
        \/ \E b \in BOOLEAN :
             status' = Written(worker[w].status, Outcome(Succeeded(w), Failed(w), b), status)
    BY StoreSynthesisStep
  <2> QED
    BY <1>1, <1>3, <2>1, SoundOutcome, HonestKept DEF Sound, TypeOK
<1>9. CASE Turns(w, Idle)
  BY <1>1, <1>7, <1>8, <1>9, CopyDropped DEF Sound
<1>10. CASE \E x : /\ Turns(w, x) /\ x.step = "looping"
                   /\ x.rows = [worker[w].rows EXCEPT ![Synthesis].status = "BLOCKED"]
  <2>1. PICK x : /\ Turns(w, x) /\ x.step = "looping"
                 /\ x.rows = [worker[w].rows EXCEPT ![Synthesis].status = "BLOCKED"]
    BY <1>10
  <2>2. \A q \in Papers : x.rows[q] = worker[w].rows[q]
    BY <2>1, PaperStages DEF TypeOK, WorkerStates
  <2>3. CopySound(x, analysed')
    BY <1>1, <1>2, <1>3, <2>1, <2>2 DEF CopySound, Whole, Live
  <2>4. CopiesSound'
    BY <1>1, <1>7, <2>1, <2>3, CopiesKept DEF Sound
  <2> QED
    BY <1>7, <1>8, <2>4 DEF Sound
<1> QED
  BY <1>9, <1>10, StoreSynthesisStep

LEMMA SoundRecover ==
  ASSUME TypeOK, Tidy, Sound, NEW w \in Workers, NEW s \in Stages, Recover(w, s) PROVE Sound'
<1>1. /\ UNCHANGED <<status, analysed>> /\ stage[s].status = "RUNNING"
      /\ Reclaimed(s) \in {"FAILED", "PENDING", "BLOCKED"}
      /\ Reclaimed(s) = "BLOCKED" => s = Synthesis
      /\ stage' = [stage EXCEPT ![s].status = Reclaimed(s)]
  BY RecoverStep DEF Held
<1>2. PICK x : Turns(w, x) /\ x.step = "recovered" /\ x.rows = [NoRows EXCEPT ![s] = stage'[s]]
  BY RecoverStep
<1>3. Rooted
  BY <1>1, RowTypes DEF Sound, RowsSound
<1>4. RowsSound' /\ Rooted'
  <2>1. CASE s = Synthesis
    <3>1. \A p \in Papers : stage'[p] = stage[p]
      BY <1>1, <2>1, PaperStages DEF TypeOK
    <3> QED
      BY <1>1, <1>3, <3>1, SynthesisStored DEF Sound
  <2>2. CASE s \in Papers
    <3>1. Reclaimed(s) \in Live /\ Reclaimed(s) # "SUCCEEDED"
      BY <1>1, <2>2, PaperStages DEF Live, StageTerminal
    <3> QED
      BY <1>1, <1>3, <3>1, Stored DEF Sound
  <2> QED
    BY <2>1, <2>2, PaperStages
<1>5. \A p \in Papers : x.rows[p] = IF p = s THEN stage'[p] ELSE NoRow
  BY <1>2, RowTypes, PaperStages
<1>6. CopySound(x, analysed')
  <2>1. \A p \in Papers : stage'[p].status \in Live
    BY <1>4 DEF Rooted
  <2>2. \A p \in Papers : stage'[p].status = "SUCCEEDED" => p \in analysed'
    BY <1>4 DEF RowsSound
  <2> QED
    BY <1>2, <1>5, <2>1, <2>2, RowTypes DEF CopySound
<1>7. CopiesSound'
  BY <1>1, <1>2, <1>4, <1>6, CopiesKept DEF Sound
<1>8. OutcomeHonest'
  BY <1>1, HonestKept DEF Sound, TypeOK
<1> QED
  BY <1>4, <1>7, <1>8 DEF Sound

LEMMA SoundRunRecovered ==
  ASSUME TypeOK, Tidy, Sound, NEW w \in Workers, RunRecovered(w) PROVE Sound'
<1>1. /\ worker[w].step = "recovered" /\ UNCHANGED <<stage, analysed>>
      /\ status' = status \/ status' = "CANCELLED"
  BY RunRecoveredStep DEF Held
<1>2. RowsSound' /\ OutcomeHonest' /\ (Rooted => Rooted')
  BY <1>1, HonestKept DEF Sound, RowsSound, Rooted, TypeOK
<1>3. CASE Turns(w, Idle)
  BY <1>1, <1>2, <1>3, CopyDropped DEF Sound
<1>4. CASE \E x : /\ Turns(w, x) /\ x.step = "entered"
                  /\ x.rows = [s \in Stages |-> IF worker[w].rows[s] # NoRow
                                                THEN worker[w].rows[s] ELSE Copy[s]]
  <2>1. PICK x : /\ Turns(w, x) /\ x.step = "entered"
                 /\ x.rows = [s \in Stages |-> IF worker[w].rows[s] # NoRow
                                               THEN worker[w].rows[s] ELSE Copy[s]]
    BY <1>4
  <2>2. Rooted /\ CopySound(worker[w], analysed)
    BY <1>1 DEF Sound, CopiesSound
  <2>3. \A p \in Papers : x.rows[p] = IF worker[w].rows[p] # NoRow THEN worker[w].rows[p] ELSE stage[p]
    BY <2>1, CopyIs, PaperStages
  <2>4. \A p \in Papers : x.rows[p].status \in Live
    BY <1>1, <2>2, <2>3 DEF CopySound, Rooted
  <2>5. \A p \in Papers : x.rows[p].status = "SUCCEEDED" => p \in analysed
    BY <2>2, <2>3 DEF CopySound, Sound, RowsSound
  <2>6. CopySound(x, analysed')
    BY <1>1, <2>1, <2>4, <2>5 DEF CopySound, Whole
  <2>7. CopiesSound'
    BY <1>1, <1>2, <2>1, <2>2, <2>6, CopiesKept DEF Sound
  <2> QED
    BY <1>2, <2>7 DEF Sound
<1> QED
  BY <1>3, <1>4, RunRecoveredStep

LEMMA SoundEnds ==
  ASSUME TypeOK, Tidy, Sound, NEW w \in Workers,
         Leave(w) \/ NothingAnalysed(w) \/ Raise(w) \/ Crash(w)
  PROVE  Sound'
<1>1. Turns(w, Idle) /\ UNCHANGED <<stage, analysed>> /\ (status' = status \/ status' = "FAILED")
  BY LeaveStep, NothingAnalysedStep, FailureStep DEF Held
<1>2. RowsSound' /\ (Rooted => Rooted') /\ OutcomeHonest'
  BY <1>1, HonestKept DEF Sound, RowsSound, Rooted, TypeOK
<1> QED
  BY <1>1, <1>2, CopyDropped DEF Sound

LEMMA SoundKept == TypeOK /\ Tidy /\ Sound /\ [Next]_vars => Sound'
<1> SUFFICES ASSUME TypeOK, Tidy, Sound, [Next]_vars PROVE Sound'
  OBVIOUS
<1>1. CASE /\ UNCHANGED <<stage, worker, analysed>>
           /\ status' = status \/ status' \in {"QUEUED", "FAILED"}
  <2>1. OutcomeHonest' /\ RowsSound' /\ (Rooted => Rooted') /\ (Rooted' => Rooted)
    BY <1>1, HonestKept DEF Sound, RowsSound, Rooted, TypeOK
  <2>2. CopiesSound'
    BY <1>1, <2>1 DEF Sound, CopiesSound, CopySound
  <2> QED
    BY <2>1, <2>2 DEF Sound
<1>2. CASE Create \/ Enqueue \/ RequestCancel
  BY <1>1, <1>2, RequestSteps
<1>3. CASE Redeliver
  BY <1>1, <1>3, RedeliverStep
<1>4. ASSUME NEW w \in Workers, Work(w) PROVE Sound'
  BY <1>4, SoundStart, SoundPrepare, SoundClaim, SoundStore, SoundEnds, SoundSynthesise,
     SoundStoreSynthesis, SoundRunRecovered DEF Work
<1>5. ASSUME NEW w \in Workers, Raise(w) \/ Crash(w) PROVE Sound'
  BY <1>5, SoundEnds
<1>6. ASSUME NEW w \in Workers, NEW s \in Stages, Recover(w, s) PROVE Sound'
  BY <1>6, SoundRecover
<1>7. CASE UNCHANGED vars
  BY <1>1, <1>7 DEF vars, jobRow
<1> QED
  BY <1>2, <1>3, <1>4, <1>5, <1>6, <1>7 DEF Next

LEMMA SoundInit == Init => Sound
<1> SUFFICES ASSUME Init PROVE Sound
  OBVIOUS
<1>1. \A w \in Workers : worker[w] = Idle /\ CopySound(Idle, analysed)
  BY EmptyCopy, IdleIs DEF Init
<1> QED
  BY <1>1, IdleIs, RowTypes, PaperStages DEF Init, Sound, OutcomeHonest, RowsSound, CopiesSound

\* COMPLETED means an analysis of every paper and PARTIAL of at least one, whatever the
\* workers' copies missed, whoever died and however the writes fell.
THEOREM OutcomesAreHonest == Spec => []OutcomeHonest
<1>1. Spec => []Sound
  BY TypeHolds, SoundInit, SoundKept, PTL DEF Spec
<1>2. Sound => OutcomeHonest
  BY DEF Sound
<1> QED
  BY <1>1, <1>2, PTL

-----------------------------------------------------------------------------
(* While nothing goes wrong one worker has the job, and its copy is the truth *)

Active(w) == worker[w].step # "idle"

\* The copy a worker decides by is what the database holds.
Coherent(x, rows) ==
  /\ x.step \in {"entered", "looping", "calling", "synthesising"} =>
       /\ \A p \in Papers : x.rows[p] = rows[p]
       /\ x.rows[Synthesis] \in {NoRow, rows[Synthesis]}
  /\ x.step = "synthesising" => x.rows[Synthesis] = rows[Synthesis]
  /\ x.step # "idle" /\ x.status \in Terminal => x.step = "looping" /\ rows = NoRows
  /\ x.step = "preparing" => rows = NoRows /\ x.status = "RETRIEVING"
  /\ x.step # "recovered"

Solo == \A v, w \in Workers : Active(v) /\ Active(w) => v = w

\* One delivery of a job that was not cancelled: waiting, or in the hands of a worker.
Asked ==
  /\ request = "none" => status = "ABSENT" /\ runs = 0 /\ ~cancel
  /\ request # "done" /\ ~cancel => /\ runs = 0 /\ status \in {"ABSENT", "QUEUED"}
                                    /\ \A w \in Workers : ~Active(w)
  /\ ~cancel /\ ~Ended => runs \in {0, 1} /\ \A w \in Workers : Active(w) => runs = 0
  /\ ~cancel /\ Ended => \A w \in Workers : Active(w) => worker[w].status \in Terminal

Coherence == \A w \in Workers : Coherent(worker[w], stage)

Leases == \A s \in Stages : stage[s].status = "RUNNING" => Leased(s)

\* A stage that may be claimed has an attempt left.
Bounded ==
  \A s \in Stages :
    /\ stage[s].attempts <= MaxRetries + 1
    /\ stage[s].status \in {"ABSENT", "PENDING", "BLOCKED"} => stage[s].attempts <= MaxRetries

Lone == Solo /\ Asked /\ Coherence /\ Leases /\ Bounded

\* The stage a worker that became x is at work on.
AtWork(x, s) == s \in x.claimed \/ (s = Synthesis /\ x.step = "synthesising")

LEMMA SoleTurn ==
  ASSUME TypeOK, Tidy, NEW w \in Workers, \A v \in Workers \ {w} : ~Active(v),
         NEW x, Turns(w, x), Coherent(x, stage'),
         \A s \in Stages : stage'[s].status = "RUNNING" => AtWork(x, s)
  PROVE  Solo' /\ Coherence' /\ Leases' /\ \A v \in Workers : Active(v)' => v = w /\ x.step # "idle"
<1>1. worker'[w] = x /\ \A v \in Workers \ {w} : worker'[v] = worker[v] /\ worker'[v].step = "idle"
  BY TurnsOnly DEF Active
<1>2. \A v \in Workers : Active(v)' => v = w /\ x.step # "idle"
  BY <1>1 DEF Active
<1>3. Solo'
  BY <1>2 DEF Solo
<1>4. \A v \in Workers : Coherent(worker'[v], stage')
  BY <1>1 DEF Coherent
<1>5. \A s \in Stages : AtWork(x, s) => Leased(s)'
  BY <1>1 DEF AtWork, Leased
<1> QED
  BY <1>2, <1>3, <1>4, <1>5 DEF Coherence, Leases

\* A step of the worker that has the job.
LEMMA ActiveTurn ==
  ASSUME TypeOK, Tidy, Lone, NEW w \in Workers, Active(w), NEW x, Turns(w, x),
         UNCHANGED <<cancel, request, runs>>,
         ~cancel /\ Ended => Ended',
         ~cancel /\ Ended' /\ x.step # "idle" => x.status \in Terminal,
         Coherent(x, stage'),
         \A s \in Stages : stage'[s].status = "RUNNING" => AtWork(x, s),
         Bounded'
  PROVE  Lone'
<1>1. \A v \in Workers \ {w} : ~Active(v)
  BY DEF Lone, Solo
<1>2. Solo' /\ Coherence' /\ Leases' /\ \A v \in Workers : Active(v)' => v = w /\ x.step # "idle"
  BY <1>1, SoleTurn
<1>3. worker'[w] = x
  BY TurnsOnly
<1>4. request # "none" /\ (request = "done" \/ cancel) /\ (~cancel /\ ~Ended => runs = 0)
  BY DEF Lone, Asked, TypeOK
<1>5. Asked'
  BY <1>2, <1>3, <1>4 DEF Asked
<1> QED
  BY <1>2, <1>5 DEF Lone

LEMMA NoneRunning ==
  ASSUME Tidy, Lone, NEW w \in Workers, Active(w), worker[w].step \notin {"calling", "synthesising"}
  PROVE  \A s \in Stages : stage[s].status # "RUNNING"
<1>1. ASSUME NEW s \in Stages, Leased(s) PROVE FALSE
  <2>1. PICK v \in Workers : AtWork(worker[v], s)
    BY <1>1 DEF Leased, AtWork
  <2>2. worker[v].step \in {"calling", "synthesising"}
    BY <2>1 DEF AtWork, Tidy
  <2> QED
    BY <2>2 DEF Lone, Solo, Active
<1> QED
  BY <1>1 DEF Lone, Leases

LEMMA IdleCoherent == \A rows : Coherent(Idle, rows) /\ \A s : ~AtWork(Idle, s)
  BY IdleIs DEF Coherent, AtWork

LEMMA LoneStart ==
  ASSUME TypeOK, Tidy, Lone, NEW w \in Workers, Start(w) PROVE Lone'
<1>1. runs > 0 /\ runs' = runs - 1 /\ UNCHANGED <<cancel, request, stage>> /\ worker[w].step = "idle"
  BY StartStep DEF Held
<1>2. request # "none" /\ (request # "done" => cancel)
  BY <1>1 DEF Lone, Asked
<1>3. Bounded'
  BY <1>1 DEF Lone, Bounded
<1>4. CASE UNCHANGED worker /\ (UNCHANGED status \/ cancel) /\ (Ended \/ cancel)
  <2>1. Solo' /\ Coherence' /\ Leases'
    BY <1>1, <1>4 DEF Lone, Solo, Active, Coherence, Leases, Leased
  <2>2. Asked'
    BY <1>1, <1>2, <1>4 DEF Lone, Asked, Active, Ended
  <2> QED
    BY <1>3, <2>1, <2>2 DEF Lone
<1>5. ASSUME ~Ended, ~cancel, ~Ended', NEW x, Turns(w, x), Coherent(x, stage)
      PROVE  Lone'
  <2>1. runs = 1 /\ \A v \in Workers : ~Active(v)
    BY <1>1, <1>5 DEF Lone, Asked
  <2>2. \A s \in Stages : stage'[s].status # "RUNNING"
    BY <1>1, <2>1 DEF Lone, Leases, Leased, Tidy, Active
  <2>3. Solo' /\ Coherence' /\ Leases'
    BY <1>1, <1>5, <2>1, <2>2, SoleTurn
  <2>4. Asked'
    BY <1>1, <1>2, <1>5, <2>1 DEF Asked
  <2> QED
    BY <1>3, <2>3, <2>4 DEF Lone
<1>6. CASE /\ ~Ended /\ ~cancel /\ stage = NoRows /\ status' = "RETRIEVING"
           /\ \E x : Turns(w, x) /\ x.step = "preparing" /\ x.status = "RETRIEVING" /\ x.rows = NoRows
  <2>1. PICK x : Turns(w, x) /\ x.step = "preparing" /\ x.status = "RETRIEVING" /\ x.rows = NoRows
    BY <1>6
  <2>2. Coherent(x, stage) /\ ~Ended'
    BY <1>6, <2>1 DEF Coherent, Ended, Terminal
  <2> QED
    BY <1>5, <1>6, <2>1, <2>2
<1>7. CASE /\ ~Ended /\ ~cancel /\ UNCHANGED status
           /\ \E x : Turns(w, x) /\ x.step = "entered" /\ x.status = status /\ x.rows = Copy
  <2>1. PICK x : Turns(w, x) /\ x.step = "entered" /\ x.status = status /\ x.rows = Copy
    BY <1>7
  <2>2. Coherent(x, stage) /\ ~Ended'
    BY <1>7, <2>1, CopyIs DEF Coherent, Ended
  <2> QED
    BY <1>5, <1>7, <2>1, <2>2
<1> QED
  BY <1>4, <1>6, <1>7, StartStep

LEMMA LoneRequest ==
  ASSUME TypeOK, Tidy, Lone, Create \/ Enqueue \/ RequestCancel, faults' = faults
  PROVE  Lone'
<1>1. UNCHANGED <<stage, worker>>
  BY RequestSteps
<1>2. Solo' /\ Coherence' /\ Leases' /\ Bounded'
  BY <1>1 DEF Lone, Solo, Active, Coherence, Leases, Leased, Bounded
<1>3. Asked'
  <2>1. CASE request = "none" /\ request' = "committed" /\ status' = "QUEUED" /\ UNCHANGED <<cancel, runs>>
    BY <1>1, <2>1 DEF Lone, Asked, Active, Ended, Terminal
  <2>2. CASE request = "committed" /\ request' = "done" /\ runs' = runs + 1 /\ UNCHANGED <<status, cancel>>
    BY <1>1, <2>2 DEF Lone, Asked, Active, Ended, Terminal
  <2>3. CASE /\ request # "none" /\ UNCHANGED <<status, request>> /\ cancel' \in {TRUE, cancel}
             /\ ~Ended => cancel' = TRUE
    <3>1. CASE cancel' = TRUE
      BY <2>3, <3>1 DEF Asked
    <3>2. CASE cancel' # TRUE
      <4>1. cancel = FALSE /\ cancel' = FALSE /\ Ended
        BY <2>3, <3>2 DEF TypeOK
      <4>2. request = "done"
        BY <2>3, <4>1 DEF Lone, Asked, Ended, Terminal
      <4> QED
        BY <1>1, <2>3, <4>1, <4>2 DEF Lone, Asked, Active, Ended
    <3> QED
      BY <3>1, <3>2
  <2> QED
    BY <2>1, <2>2, <2>3, RequestSteps
<1> QED
  BY <1>2, <1>3 DEF Lone

\* The worker that has a job nobody cancelled and that has not failed to prepare it.
LEMMA StillOpen ==
  ASSUME TypeOK, Lone, NEW w \in Workers, Active(w), stage # NoRows \/ worker[w].step # "looping"
  PROVE  worker[w].status \notin Terminal /\ (~cancel => ~Ended)
  BY DEF Lone, Asked, Coherence, Coherent, Active

LEMMA LoneEnds ==
  ASSUME TypeOK, Tidy, Lone, NEW w \in Workers,
         Active(w), worker[w].step # "calling", Turns(w, Idle), UNCHANGED <<cancel, request, runs>>,
         ~cancel /\ Ended => Ended', Bounded',
         \A s \in Stages : stage'[s].status # "RUNNING"
  PROVE  Lone'
  BY IdleCoherent, IdleIs, ActiveTurn

LEMMA LoneLeave ==
  ASSUME TypeOK, Tidy, Lone, NEW w \in Workers,
         Leave(w) \/ NothingAnalysed(w) \/ PrepareConflicts(w)
  PROVE  Lone'
<1>1. /\ worker[w].step \in {"preparing", "entered", "looping"} /\ Turns(w, Idle)
      /\ UNCHANGED <<cancel, request, runs, stage>>
      /\ status' = status \/ status' = "FAILED"
  BY LeaveStep, NothingAnalysedStep, PrepareConflictsStep DEF Held
<1>2. Active(w) /\ \A s \in Stages : stage'[s].status # "RUNNING"
  BY <1>1, NoneRunning DEF Active
<1>3. Bounded' /\ (Ended => Ended')
  BY <1>1 DEF Lone, Bounded, Ended, Terminal
<1> QED
  BY <1>1, <1>2, <1>3, LoneEnds

LEMMA LonePrepare ==
  ASSUME TypeOK, Tidy, Lone, NEW w \in Workers, Prepare(w) \/ PrepareFails(w) PROVE Lone'
<1>1. worker[w].step = "preparing" /\ UNCHANGED <<cancel, request, runs>>
  BY PrepareStep, PrepareFailsStep DEF Held
<1>2. /\ Active(w) /\ worker[w].status = "RETRIEVING" /\ stage = NoRows
      /\ \A s \in Stages : stage[s].status # "RUNNING"
  BY <1>1, NoneRunning DEF Active, Lone, Coherence, Coherent
<1>3. ~cancel => ~Ended
  BY <1>1, <1>2, StillOpen
<1>4. CASE Prepare(w)
  <2>1. PICK x : /\ Turns(w, x) /\ x.step = "looping" /\ x.status = "ANALYZING"
                 /\ x.rows = [PreparedRows EXCEPT ![Synthesis] = NoRow]
    BY <1>4, PrepareStep
  <2>2. stage' = PreparedRows /\ status' = "ANALYZING"
    BY <1>2, <1>4, PrepareStep DEF Written
  <2>3. Coherent(x, stage')
    BY <2>1, <2>2, RowTypes, PaperStages DEF Coherent, Terminal
  <2>4. /\ \A s \in Stages : stage'[s].status # "RUNNING"
        /\ \A s \in Stages : stage'[s].attempts = 0
    BY <2>2, RowTypes, PaperStages
  <2>5. Bounded'
    BY <2>4, SizesAssumption DEF Bounded
  <2>6. ~Ended'
    BY <2>2 DEF Ended, Terminal
  <2> QED
    BY <1>1, <1>2, <1>3, <2>1, <2>3, <2>4, <2>5, <2>6, ActiveTurn
<1>5. CASE PrepareFails(w)
  <2>1. PICK x : Turns(w, x) /\ x.step = "looping" /\ x.status = "FAILED" /\ x.rows = Copy
    BY <1>5, PrepareFailsStep
  <2>2. UNCHANGED stage
    BY <1>5, PrepareFailsStep
  <2>3. Coherent(x, stage')
    BY <1>2, <2>1, <2>2, CopyIs DEF Coherent
  <2>4. Bounded'
    BY <2>2 DEF Lone, Bounded
  <2>5. x.status \in Terminal
    BY <2>1 DEF Terminal
  <2> QED
    BY <1>1, <1>2, <1>3, <2>1, <2>2, <2>3, <2>4, <2>5, ActiveTurn
<1> QED
  BY <1>4, <1>5

LEMMA LoneClaim ==
  ASSUME TypeOK, Tidy, Lone, NEW w \in Workers, Claim(w) PROVE Lone'
<1>1. UNCHANGED <<cancel, request, runs, status>> /\ worker[w].step \in {"entered", "looping"}
  BY ClaimStep DEF Held
<1>2. PICK x :
        /\ Turns(w, x) /\ x.step = "calling" /\ x.status = worker[w].status
        /\ \A p \in x.claimed : p \in Papers /\ worker[w].rows[p].status = "PENDING"
        /\ x.rows = [s \in Stages |-> IF s \in x.claimed THEN Claimed(worker[w].rows[s])
                                                        ELSE worker[w].rows[s]]
        /\ stage' = [s \in Stages |-> IF s \in x.claimed THEN x.rows[s] ELSE stage[s]]
  BY ClaimStep
<1>3. Active(w) /\ \A s \in Stages : stage[s].status # "RUNNING"
  BY <1>1, NoneRunning DEF Active
<1>4. /\ \A p \in Papers : worker[w].rows[p] = stage[p]
      /\ worker[w].rows[Synthesis] \in {NoRow, stage[Synthesis]}
  BY <1>1 DEF Lone, Coherence, Coherent
<1>5. PICK p \in x.claimed : p \in Papers /\ stage[p].status = "PENDING"
  BY <1>2, <1>4 DEF Turns
<1>6. stage # NoRows
  BY <1>5, RowTypes, PaperStages
<1>7. worker[w].status \notin Terminal /\ (~cancel => ~Ended)
  BY <1>3, <1>6, StillOpen
<1>8. \A s \in Stages :
        /\ stage'[s] = IF s \in x.claimed THEN x.rows[s] ELSE stage[s]
        /\ x.rows[s] = IF s \in x.claimed THEN Claimed(worker[w].rows[s]) ELSE worker[w].rows[s]
  BY <1>2
<1>9. \A s \in x.claimed :
        /\ s \in Papers /\ s \in Stages /\ s # Synthesis
        /\ stage'[s].status = "RUNNING" /\ stage'[s].attempts = stage[s].attempts + 1
        /\ stage[s].status = "PENDING"
  <2> TAKE s \in x.claimed
  <2>1. s \in Papers /\ s \in Stages /\ s # Synthesis /\ worker[w].rows[s].status = "PENDING"
    BY <1>2, PaperStages
  <2>2. stage'[s] = Claimed(stage[s]) /\ stage[s].status = "PENDING"
    BY <1>4, <1>8, <2>1
  <2> QED
    BY <2>1, <2>2 DEF Claimed
<1>10. Coherent(x, stage')
  BY <1>2, <1>4, <1>7, <1>8, <1>9, PaperStages DEF Coherent
<1>11. Bounded'
  <2>1. \A s \in Stages : stage[s].attempts \in Nat
    BY DEF TypeOK, Row
  <2>2. \A s \in Stages : s \notin x.claimed => stage'[s] = stage[s]
    BY <1>8
  <2>3. \A s \in x.claimed : stage[s].attempts <= MaxRetries
    BY <1>9 DEF Lone, Bounded
  <2>4. \A s \in x.claimed : stage'[s].attempts <= MaxRetries + 1
    BY <1>9, <2>1, <2>3, SizesAssumption
  <2> QED
    BY <1>9, <2>2, <2>4 DEF Lone, Bounded
<1>12. \A s \in Stages : stage'[s].status = "RUNNING" => AtWork(x, s)
  BY <1>3, <1>8 DEF AtWork
<1>13. ~cancel => ~Ended'
  BY <1>1, <1>7 DEF Ended
<1> QED
  BY <1>1, <1>2, <1>3, <1>7, <1>10, <1>11, <1>12, <1>13, ActiveTurn

LEMMA LoneStore ==
  ASSUME TypeOK, Tidy, Lone, NEW w \in Workers, Store(w) PROVE Lone'
<1>0. PICK p \in Papers, new \in {"SUCCEEDED", "PENDING", "FAILED"} : \E x : Stores(w, p, new, x)
  BY StoreStep
<1>1. PICK x : Stores(w, p, new, x)
  BY <1>0
<1>2. /\ worker[w].step = "calling" /\ UNCHANGED <<cancel, request, runs>>
      /\ stage' = [stage EXCEPT ![p].status = new] /\ status' \in {status, "ANALYZING"}
      /\ new = "PENDING" => worker[w].rows[p].attempts <= MaxRetries
      /\ Turns(w, x) /\ x.step \in {"looping", "calling"}
      /\ x.status \in {worker[w].status, "ANALYZING"}
      /\ x.claimed = worker[w].claimed \ {p}
      /\ x.rows = [worker[w].rows EXCEPT ![p].status = new]
  BY <1>1 DEF Stores
<1>3. /\ Active(w)
      /\ \A q \in Papers : worker[w].rows[q] = stage[q]
      /\ worker[w].rows[Synthesis] \in {NoRow, stage[Synthesis]}
  BY <1>2 DEF Active, Lone, Coherence, Coherent
<1>4. worker[w].status \notin Terminal /\ (~cancel => ~Ended)
  BY <1>2, <1>3, StillOpen
<1>5. /\ p \in Stages /\ p # Synthesis
      /\ stage'[p] = [stage[p] EXCEPT !.status = new]
      /\ \A s \in Stages \ {p} : stage'[s] = stage[s]
      /\ x.rows[p] = [worker[w].rows[p] EXCEPT !.status = new]
      /\ \A s \in Stages \ {p} : x.rows[s] = worker[w].rows[s]
  BY <1>2, PaperStages DEF TypeOK, WorkerStates
<1>6. stage'[p].status = new /\ stage'[p].attempts = stage[p].attempts
  BY <1>5 DEF TypeOK, Row
<1>7. x.status \notin Terminal /\ (~cancel => ~Ended')
  BY <1>2, <1>4 DEF Ended, Terminal
<1>8. Coherent(x, stage')
  BY <1>2, <1>3, <1>5, <1>7, PaperStages DEF Coherent
<1>9. Bounded'
  <2>1. new = "PENDING" => stage[p].attempts <= MaxRetries
    BY <1>2, <1>3
  <2>2. new \notin {"ABSENT", "BLOCKED"}
    OBVIOUS
  <2> QED
    BY <1>5, <1>6, <2>1, <2>2 DEF Lone, Bounded
<1>10. ASSUME NEW s \in Stages, stage'[s].status = "RUNNING" PROVE AtWork(x, s)
  <2>1. s # p /\ stage[s].status = "RUNNING"
    BY <1>5, <1>6, <1>10
  <2>2. PICK v \in Workers : AtWork(worker[v], s)
    BY <2>1 DEF Lone, Leases, Leased, AtWork
  <2>3. v = w
    BY <1>3, <2>2 DEF AtWork, Tidy, Lone, Solo, Active
  <2> QED
    BY <1>2, <2>1, <2>2, <2>3 DEF AtWork
<1> QED
  BY <1>2, <1>3, <1>4, <1>7, <1>8, <1>9, <1>10, ActiveTurn

LEMMA LoneSynthesise ==
  ASSUME TypeOK, Tidy, Lone, NEW w \in Workers, Synthesise(w) PROVE Lone'
<1>1. /\ worker[w].step \in {"entered", "looping"} /\ UNCHANGED <<cancel, request, runs>>
      /\ Succeeded(w) # {}
  BY SynthesiseStep DEF Held
<1>2. Active(w) /\ \A s \in Stages : stage[s].status # "RUNNING"
  BY <1>1, NoneRunning DEF Active
<1>3. /\ \A q \in Papers : worker[w].rows[q] = stage[q]
      /\ worker[w].rows[Synthesis] \in {NoRow, stage[Synthesis]}
  BY <1>1 DEF Lone, Coherence, Coherent
<1>4. PICK p \in Papers : stage[p].status = "SUCCEEDED"
  BY <1>1, <1>3 DEF Succeeded, WithStatus
<1>5. worker[w].status \notin Terminal /\ (~cancel => ~Ended)
  <2>1. stage # NoRows
    BY <1>4, RowTypes, PaperStages
  <2> QED
    BY <1>2, <2>1, StillOpen
<1>6. SynthesisRow(w) = stage[Synthesis]
  BY <1>3 DEF SynthesisRow
<1>7. CASE Turns(w, Idle) /\ UNCHANGED <<stage, status>>
  <2>1. Bounded' /\ (~cancel => ~Ended')
    BY <1>5, <1>7 DEF Lone, Bounded, Ended
  <2> QED
    BY <1>1, <1>2, <1>5, <1>7, <2>1, LoneEnds
<1>8. CASE /\ SynthesisRow(w).status \notin StageTerminal
           /\ stage' = [stage EXCEPT ![Synthesis] = Claimed(SynthesisRow(w))]
           /\ status' \in {status, "SYNTHESIZING"}
           /\ \E x : /\ Turns(w, x) /\ x.step = "synthesising" /\ x.status = "SYNTHESIZING"
                     /\ x.rows = [worker[w].rows EXCEPT ![Synthesis] = Claimed(SynthesisRow(w))]
  <2>1. PICK x : /\ Turns(w, x) /\ x.step = "synthesising" /\ x.status = "SYNTHESIZING"
                 /\ x.rows = [worker[w].rows EXCEPT ![Synthesis] = Claimed(stage[Synthesis])]
    BY <1>6, <1>8
  <2>2. /\ stage'[Synthesis] = Claimed(stage[Synthesis]) /\ stage[Synthesis].status \notin StageTerminal
        /\ \A s \in Papers : stage'[s] = stage[s]
        /\ x.rows[Synthesis] = Claimed(stage[Synthesis])
        /\ \A s \in Papers : x.rows[s] = worker[w].rows[s]
    BY <1>6, <1>8, <2>1, PaperStages DEF TypeOK, WorkerStates
  <2>3. Coherent(x, stage')
    BY <1>3, <2>1, <2>2 DEF Coherent, Terminal
  <2>4. ~cancel => ~Ended'
    BY <1>5, <1>8 DEF Ended, Terminal
  <2>5. stage[Synthesis].attempts \in Nat /\ stage[Synthesis].attempts <= MaxRetries
    <3>1. stage[Synthesis] \in Row
      BY PaperStages DEF TypeOK
    <3>2. stage[Synthesis].status \in {"ABSENT", "PENDING", "BLOCKED"}
      BY <1>2, <2>2, <3>1, PaperStages DEF Row, StageStatuses, StageTerminal
    <3> QED
      BY <3>1, <3>2, PaperStages DEF Row, Lone, Bounded
  <2>6. Bounded'
    <3>1. stage'[Synthesis].status = "RUNNING" /\ stage'[Synthesis].attempts <= MaxRetries + 1
      BY <2>2, <2>5, SizesAssumption DEF Claimed
    <3> QED
      BY <2>2, <3>1, PaperStages DEF Lone, Bounded
  <2>7. \A s \in Stages : stage'[s].status = "RUNNING" => AtWork(x, s)
    BY <1>2, <2>1, <2>2, PaperStages DEF AtWork
  <2> QED
    BY <1>1, <1>2, <1>5, <2>1, <2>3, <2>4, <2>6, <2>7, ActiveTurn
<1> QED
  BY <1>7, <1>8, SynthesiseStep

LEMMA LoneStoreSynthesis ==
  ASSUME TypeOK, Tidy, Lone, NEW w \in Workers, StoreSynthesis(w) PROVE Lone'
<1>1. worker[w].step = "synthesising" /\ UNCHANGED <<cancel, request, runs>>
  BY StoreSynthesisStep DEF Held
<1>2. /\ Active(w) /\ worker[w].claimed = {}
      /\ \A q \in Papers : worker[w].rows[q] = stage[q]
      /\ worker[w].rows[Synthesis] = stage[Synthesis]
  BY <1>1 DEF Active, Tidy, Lone, Coherence, Coherent
<1>3. worker[w].status \notin Terminal /\ (~cancel => ~Ended)
  BY <1>1, <1>2, StillOpen
<1>4. PICK new \in {"SUCCEEDED", "FAILED", "BLOCKED"} :
        /\ stage' = [stage EXCEPT ![Synthesis].status = new]
        /\ new = "BLOCKED" => stage[Synthesis].attempts <= MaxRetries
  BY <1>2, StoreSynthesisStep
<1>5. /\ stage'[Synthesis].status = new /\ stage'[Synthesis].attempts = stage[Synthesis].attempts
      /\ stage'[Synthesis] = [stage[Synthesis] EXCEPT !.status = new]
      /\ \A p \in Papers : stage'[p] = stage[p]
  BY <1>4, PaperStages DEF TypeOK, Row
<1>6. Bounded'
  BY <1>4, <1>5, PaperStages DEF Lone, Bounded
<1>7. ASSUME NEW s \in Stages PROVE stage'[s].status # "RUNNING"
  <2>1. ASSUME s \in Papers, stage[s].status = "RUNNING" PROVE FALSE
    <3>1. PICK v \in Workers : AtWork(worker[v], s)
      BY <2>1, PaperStages DEF Lone, Leases, Leased, AtWork
    <3>2. v = w
      BY <1>2, <3>1 DEF AtWork, Tidy, Lone, Solo, Active
    <3> QED
      BY <1>2, <2>1, <3>1, <3>2, PaperStages DEF AtWork
  <2> QED
    BY <1>5, <2>1, PaperStages
<1>8. CASE Turns(w, Idle)
  BY <1>1, <1>2, <1>3, <1>6, <1>7, <1>8, LoneEnds
<1>9. CASE /\ stage' = [stage EXCEPT ![Synthesis].status = "BLOCKED"] /\ UNCHANGED status
           /\ \E x : /\ Turns(w, x) /\ x.step = "looping" /\ x.status = worker[w].status
                     /\ x.rows = [worker[w].rows EXCEPT ![Synthesis].status = "BLOCKED"]
  <2>1. PICK x : /\ Turns(w, x) /\ x.step = "looping" /\ x.status = worker[w].status
                 /\ x.rows = [worker[w].rows EXCEPT ![Synthesis].status = "BLOCKED"]
    BY <1>9
  <2>2. /\ x.rows[Synthesis] = [stage[Synthesis] EXCEPT !.status = "BLOCKED"]
        /\ \A p \in Papers : x.rows[p] = stage[p]
    BY <1>2, <2>1, PaperStages DEF TypeOK, WorkerStates
  <2>3. stage'[Synthesis] = [stage[Synthesis] EXCEPT !.status = "BLOCKED"]
    BY <1>9, PaperStages DEF TypeOK
  <2>4. Coherent(x, stage')
    BY <1>3, <1>5, <2>1, <2>2, <2>3 DEF Coherent
  <2>5. ~cancel => ~Ended'
    BY <1>3, <1>9 DEF Ended
  <2> QED
    BY <1>1, <1>2, <1>3, <1>6, <1>7, <2>1, <2>4, <2>5, ActiveTurn
<1> QED
  BY <1>8, <1>9, StoreSynthesisStep

LEMMA FaultsCount == TypeOK /\ [Next]_vars => faults' = faults \/ Fault
<1> SUFFICES ASSUME TypeOK, [Next]_vars PROVE faults' = faults \/ Fault
  OBVIOUS
<1>1. CASE Create \/ Enqueue \/ RequestCancel
  BY <1>1, RequestSteps
<1>2. CASE Redeliver
  BY <1>2, RedeliverStep
<1>3. ASSUME NEW w \in Workers, Work(w) PROVE faults' = faults
  BY <1>3 DEF Work, Start, Prepare, PrepareFails, PrepareConflicts, Claim, Store, Leave,
              NothingAnalysed, Synthesise, StoreSynthesis, RunRecovered
<1>4. ASSUME NEW w \in Workers, Raise(w) \/ Crash(w) PROVE Fault
  BY <1>4, FailureStep
<1>5. ASSUME NEW w \in Workers, NEW s \in Stages, Recover(w, s) PROVE faults' = faults
  BY <1>5 DEF Recover
<1>6. CASE UNCHANGED vars
  BY <1>6 DEF vars
<1> QED
  BY <1>1, <1>2, <1>3, <1>4, <1>5, <1>6 DEF Next

LEMMA LoneKept ==
  ASSUME TypeOK, Tidy, faults = 0 => Lone, [Next]_vars, faults' = 0 PROVE Lone'
<1>1. faults' = faults /\ Lone /\ ~Fault
  BY FaultsCount, FaultTypes
<1>2. CASE Create \/ Enqueue \/ RequestCancel
  BY <1>1, <1>2, LoneRequest
<1>3. CASE Redeliver
  BY <1>1, <1>3, RedeliverStep
<1>4. ASSUME NEW w \in Workers, Work(w) PROVE Lone'
  <2>1. ~RunRecovered(w)
    BY <1>1, RunRecoveredStep DEF Lone, Coherence, Coherent
  <2> QED
    BY <1>1, <1>4, <2>1, LoneStart, LonePrepare, LoneClaim, LoneStore, LoneLeave,
       LoneSynthesise, LoneStoreSynthesis DEF Work
<1>5. ASSUME NEW w \in Workers, Raise(w) \/ Crash(w) PROVE FALSE
  BY <1>1, <1>5, FailureStep
<1>6. ASSUME NEW w \in Workers, NEW s \in Stages, Recover(w, s) PROVE FALSE
  BY <1>1, <1>6, RecoverStep DEF Lone, Leases
<1>7. CASE UNCHANGED vars
  BY <1>1, <1>7 DEF vars, jobRow, Lone, Solo, Active, Asked, Ended, Coherence, Leases, Leased, Bounded
<1> QED
  BY <1>2, <1>3, <1>4, <1>5, <1>6, <1>7 DEF Next

LEMMA LoneInit == Init => Lone
<1> SUFFICES ASSUME Init PROVE Lone
  OBVIOUS
<1>1. \A w \in Workers : worker[w] = Idle /\ ~Active(w)
  BY IdleIs DEF Init, Active
<1>2. Solo /\ Coherence
  BY <1>1, IdleCoherent DEF Solo, Coherence
<1>3. Asked
  BY <1>1 DEF Init, Asked, Ended, Terminal
<1>4. Leases /\ Bounded
  BY RowTypes, SizesAssumption DEF Init, Leases, Bounded
<1> QED
  BY <1>2, <1>3, <1>4 DEF Lone

\* As long as no worker dies and no message is lost or repeated, no stage is attempted
\* more than MaxRetries + 1 times, however often the job is cancelled meanwhile.
THEOREM StagesRetriedOnce == Spec => []RetriedOnce
<1> DEFINE Alone == faults = 0 => Lone
<1>1. Init => Alone
  BY LoneInit
<1>2. TypeOK /\ Tidy /\ Alone /\ [Next]_vars => Alone'
  BY LoneKept
<1>3. Alone => RetriedOnce
  BY DEF Lone, Bounded, RetriedOnce
<1> HIDE DEF Alone
<1> QED
  BY <1>1, <1>2, <1>3, TypeHolds, PTL DEF Spec

=============================================================================
