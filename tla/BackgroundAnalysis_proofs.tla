---------------------- MODULE BackgroundAnalysis_proofs ----------------------
(***************************************************************************)
(* Theorems about BackgroundAnalysis: types, that a report rests on an     *)
(* analysis, and that a cancelled job never gets a report.                 *)
(***************************************************************************)
EXTENDS BackgroundAnalysis, TLAPS

\* A stage that succeeded left its analysis, and a report rests on one.
Grounded ==
  /\ \A p \in Papers : stage[p] = "SUCCEEDED" => p \in analysed
  /\ ReportHasAnalysis

\* A job is cancelled, or about to be, only while the flag is set.
Flagged ==
  /\ status = "CANCELLED" => cancel
  /\ \A w \in Workers : worker[w].step = "cancelling" => cancel

-----------------------------------------------------------------------------
(* Types *)

LEMMA PaperStages ==
  /\ Papers \subseteq Stages /\ Synthesis \in Stages /\ Synthesis \notin Papers
  /\ \A s \in Stages : s = Synthesis \/ s \in Papers
  BY SizesAssumption DEF Papers, Stages, Synthesis

LEMMA IdleType ==
  /\ Idle \in WorkerStates /\ Idle.step = "idle"
  /\ \A w \in Workers : worker \in [Workers -> WorkerStates] /\ Free(w) =>
       /\ worker' \in [Workers -> WorkerStates] /\ worker'[w].step = "idle"
       /\ \A v \in Workers \ {w} : worker'[v] = worker[v]
<1>1. Idle \in WorkerStates /\ Idle.step = "idle"
  BY DEF Idle, WorkerStates, JobStatuses, StageStatuses
<1> QED
  BY <1>1 DEF Free

LEMMA EnteredType ==
  ASSUME NEW task \in {"none", "run", "poll"}, NEW copy \in JobStatuses,
         NEW rows \in [Papers -> StageStatuses]
  PROVE  Entered(task, copy, rows) \in WorkerStates /\ Entered(task, copy, rows).step = "entered"
<1>1. Available(rows) \in SUBSET Stages
  BY PaperStages DEF Available, FirstOf, WithStatus
<1> QED
  BY <1>1 DEF Entered, WorkerStates

LEMMA WrittenType ==
  ASSUME NEW copy, NEW new \in JobStatuses, NEW stored \in JobStatuses
  PROVE  Written(copy, new, stored) \in JobStatuses /\ Written(copy, new, stored) \in {new, stored}
  BY DEF Written

LEMMA TypeInit == Init => TypeOK
<1> SUFFICES ASSUME Init PROVE TypeOK
  OBVIOUS
<1>1. stage \in [Stages -> StageStatuses]
  BY DEF Init, StageStatuses
<1>2. worker \in [Workers -> WorkerStates]
  <2>1. Rows \in [Papers -> StageStatuses]
    BY <1>1, PaperStages DEF Rows
  <2> DEFINE entered == Entered("run", "ANALYZING", Rows)
             first == [entered EXCEPT !.step = "submitting"]
  <2>2. entered \in WorkerStates
    BY <2>1, EnteredType DEF JobStatuses
  <2>3. \E w \in Workers : worker = [v \in Workers |-> IF v # w THEN Idle ELSE first]
    BY DEF Init
  <2> HIDE DEF entered
  <2>4. first \in WorkerStates
    BY <2>2 DEF WorkerStates
  <2> HIDE DEF first
  <2> QED
    BY <2>3, <2>4, IdleType
<1>3. /\ status \in JobStatuses /\ cancel \in BOOLEAN
      /\ due \subseteq Stages /\ runs \in Nat /\ polls \subseteq Stages /\ analysed \subseteq Papers
  BY DEF Init, JobStatuses
<1>4. faults \in 0..MaxFaults /\ cancels \in 0..MaxCancels /\ running \in 0..MaxPolls
  <2>1. faults = 0 /\ cancels = 0 /\ running = 0
    BY DEF Init
  <2> QED
    BY <2>1, SizesAssumption
<1> QED
  BY <1>1, <1>2, <1>3, <1>4 DEF TypeOK

-----------------------------------------------------------------------------
(* What each step does to the job, its stages and the workers *)

\* A step in which w stops.
LEMMA FreeStep ==
  ASSUME TypeOK, NEW w \in Workers, CancelJob(w) \/ Raise(w) \/ Crash(w)
  PROVE  /\ TypeOK' /\ UNCHANGED <<cancel, stage, analysed>>
         /\ status' \in {status, "FAILED", "CANCELLED"}
         /\ status' = "CANCELLED" => status = "CANCELLED" \/ worker[w].step = "cancelling"
         /\ \A v \in Workers : worker'[v].step = "cancelling" => worker[v].step = "cancelling"
<1>1. /\ worker' \in [Workers -> WorkerStates] /\ worker'[w].step = "idle"
      /\ \A v \in Workers \ {w} : worker'[v] = worker[v]
  BY IdleType DEF CancelJob, Raise, Crash, TypeOK
<1>2. status' \in {status, "FAILED", "CANCELLED"} /\ UNCHANGED <<cancel, stage, analysed>>
  BY DEF CancelJob, Raise, Crash, Written, jobRow
<1>3. status' = "CANCELLED" => status = "CANCELLED" \/ worker[w].step = "cancelling"
  BY DEF CancelJob, Raise, Crash, jobRow
<1>4. /\ due' = due /\ polls' = polls /\ runs' \in Nat
      /\ faults' \in 0..MaxFaults /\ cancels' = cancels /\ running' = running
  BY SizesAssumption DEF CancelJob, Raise, Crash, Fault, bounds, TypeOK
<1>5. TypeOK'
  BY <1>1, <1>2, <1>4 DEF TypeOK, JobStatuses, Terminal
<1> QED
  BY <1>1, <1>2, <1>3, <1>5

LEMMA StartStep ==
  ASSUME TypeOK, NEW w \in Workers, Start(w) \/ Rerun(w)
  PROVE  /\ TypeOK' /\ UNCHANGED <<cancel, stage, analysed>>
         /\ (status' = status \/ (status' = "CANCELLED" /\ cancel))
         /\ \A v \in Workers : worker'[v].step = "cancelling" => worker[v].step = "cancelling"
<1> DEFINE copies == [p \in Papers |-> IF p \in worker[w].held THEN worker[w].rows[p]
                                                               ELSE stage[p]]
<1>1. PICK n \in WorkerStates :
        /\ n.step # "cancelling"
        /\ worker' = [worker EXCEPT ![w] = n] \/ worker' = worker
  <2>1. /\ worker[w] \in WorkerStates /\ stage \in [Stages -> StageStatuses]
        /\ status \in JobStatuses
    BY DEF TypeOK
  <2>2. copies \in [Papers -> StageStatuses] /\ Rows \in [Papers -> StageStatuses]
    BY <2>1, PaperStages DEF WorkerStates, Rows
  <2>3. worker[w].status \in JobStatuses
    BY <2>1 DEF WorkerStates
  <2> HIDE DEF copies
  <2>4. /\ Entered("run", status, Rows) \in WorkerStates
        /\ Entered("run", status, Rows).step = "entered"
        /\ Entered("poll", worker[w].status, copies) \in WorkerStates
        /\ Entered("poll", worker[w].status, copies).step = "entered"
    BY <2>1, <2>2, <2>3, EnteredType
  <2>5. \/ worker' = worker
        \/ worker' = [worker EXCEPT ![w] = Idle]
        \/ worker' = [worker EXCEPT ![w] = Entered("run", status, Rows)]
        \/ worker' = [worker EXCEPT ![w] = Entered("poll", worker[w].status, copies)]
    BY DEF Start, Rerun, copies
  <2> QED
    BY <2>4, <2>5, IdleType
<1>2. /\ worker' \in [Workers -> WorkerStates]
      /\ \A v \in Workers : worker'[v].step = "cancelling" => worker[v].step = "cancelling"
  BY <1>1 DEF TypeOK
<1>3. /\ UNCHANGED <<cancel, stage, analysed, due, polls, faults, cancels, running>>
      /\ (status' = status \/ (status' = "CANCELLED" /\ cancel))
  BY DEF Start, Rerun, bounds, jobRow
<1>4. runs' \in Nat
  <2>1. runs \in Nat
    BY DEF TypeOK
  <2>2. runs' = runs \/ (runs > 0 /\ runs' = runs - 1)
    BY DEF Start, Rerun
  <2> QED
    BY <2>1, <2>2
<1>5. TypeOK'
  BY <1>2, <1>3, <1>4 DEF TypeOK, JobStatuses, Terminal
<1> QED
  BY <1>2, <1>3, <1>5

\* A submission: the stage is SUBMITTED or FAILED, and the job at most ANALYZING.
LEMMA SubmitStep ==
  ASSUME TypeOK, NEW w \in Workers, Submit(w)
  PROVE  /\ TypeOK' /\ UNCHANGED <<cancel, analysed>>
         /\ status' \in {status, "ANALYZING"}
         /\ \A s \in Stages : stage'[s] = stage[s] \/ stage'[s] \in {"SUBMITTED", "FAILED"}
         /\ \A v \in Workers : worker'[v].step = "cancelling" => worker[v].step = "cancelling"
<1>1. /\ worker[w] \in WorkerStates /\ worker \in [Workers -> WorkerStates]
      /\ stage \in [Stages -> StageStatuses] /\ status \in JobStatuses
  BY DEF TypeOK
<1>2. PICK s \in Stages, new \in {"SUBMITTED", "FAILED"} :
        /\ Settle(w, s, new)
        /\ due' \subseteq Stages /\ polls' \subseteq Stages
        /\ status' \in {status, "ANALYZING"}
  <2>1. worker[w].todo \subseteq Stages
    BY <1>1 DEF WorkerStates
  <2>2. \A s \in FirstOf(worker[w].todo, 1) : s \in Stages
    BY <2>1 DEF FirstOf
  <2>3. PICK s \in FirstOf(worker[w].todo, 1) :
          \/ /\ Settle(w, s, "SUBMITTED")
             /\ status' = Written(worker[w].status, "ANALYZING", status)
             /\ due' = due \ {s} /\ polls' = polls \cup {s}
          \/ Settle(w, s, "FAILED") /\ UNCHANGED <<status, due, polls>>
    BY DEF Submit
  <2>4. due \subseteq Stages /\ polls \subseteq Stages
    BY DEF TypeOK
  <2> QED
    BY <2>2, <2>3, <2>4 DEF Written
<1> DEFINE next == Following(worker[w], s, new)
<1>3. s # Synthesis => next \in WorkerStates /\ next.step = "submitting"
  BY <1>1, PaperStages DEF WorkerStates, StageStatuses, Submitted, JobStatuses, Following
<1>4. /\ stage' = [stage EXCEPT ![s] = new]
      /\ worker' = [worker EXCEPT ![w] = IF s = Synthesis THEN Idle ELSE next]
  BY <1>2 DEF Settle
<1> HIDE DEF next
<1>5. /\ stage' \in [Stages -> StageStatuses]
      /\ \A t \in Stages : stage'[t] = stage[t] \/ stage'[t] \in {"SUBMITTED", "FAILED"}
  BY <1>1, <1>4 DEF StageStatuses, Submitted
<1>6. /\ worker' \in [Workers -> WorkerStates]
      /\ \A v \in Workers : worker'[v].step = "cancelling" => worker[v].step = "cancelling"
  BY <1>1, <1>3, <1>4, IdleType
<1>7. UNCHANGED <<cancel, analysed, runs, faults, cancels, running>>
  BY DEF Submit, bounds
<1>8. TypeOK'
  BY <1>2, <1>5, <1>6, <1>7 DEF TypeOK, JobStatuses
<1> QED
  BY <1>2, <1>5, <1>6, <1>7, <1>8

LEMMA AfterStep ==
  ASSUME TypeOK, NEW w \in Workers, AfterSubmissions(w)
  PROVE  /\ TypeOK' /\ UNCHANGED <<cancel, analysed>>
         /\ status' \in {status, "FAILED"}
         /\ \A p \in Papers : stage'[p] = stage[p]
         /\ \A v \in Workers : worker'[v].step = "cancelling" => worker[v].step = "cancelling"
<1>1. /\ worker[w] \in WorkerStates /\ worker \in [Workers -> WorkerStates]
      /\ stage \in [Stages -> StageStatuses] /\ status \in JobStatuses
  BY DEF TypeOK
<1> DEFINE step == IF stage[Synthesis] = "BLOCKED" THEN "submitting" ELSE worker[w].step
           next == [worker[w] EXCEPT !.step = step, !.todo = {Synthesis}]
<1>2. next \in WorkerStates /\ (next.step = "cancelling" => worker[w].step = "cancelling")
  BY <1>1, PaperStages DEF WorkerStates
<1>3. \/ Free(w) /\ UNCHANGED stage
      \/ /\ stage' = [stage EXCEPT ![Synthesis] = "PENDING"]
         /\ worker' = [worker EXCEPT ![w].step = step, ![w].todo = {Synthesis}]
  BY DEF AfterSubmissions
<1>4. [worker EXCEPT ![w].step = step, ![w].todo = {Synthesis}] = [worker EXCEPT ![w] = next]
  BY <1>1
<1> HIDE DEF next, step
<1>5. /\ worker' \in [Workers -> WorkerStates]
      /\ \A v \in Workers : worker'[v].step = "cancelling" => worker[v].step = "cancelling"
  BY <1>1, <1>2, <1>3, <1>4, IdleType
<1>6. stage' \in [Stages -> StageStatuses] /\ \A p \in Papers : stage'[p] = stage[p]
  BY <1>1, <1>3, PaperStages DEF StageStatuses
<1>7. /\ UNCHANGED <<cancel, analysed, due, runs, polls, faults, cancels, running>>
      /\ status' \in {status, "FAILED"}
  BY DEF AfterSubmissions, bounds, Written
<1>8. TypeOK'
  BY <1>5, <1>6, <1>7 DEF TypeOK, JobStatuses, Terminal
<1> QED
  BY <1>5, <1>6, <1>7, <1>8

\* A poll that settles its stage.
LEMMA SettledType ==
  ASSUME TypeOK, NEW w \in Workers, NEW s \in Stages, NEW new \in StageStatuses,
         NEW step \in {"rerunning", "cancelling"}, NEW copy \in JobStatuses,
         Settled(w, s, new, step, copy)
  PROVE  /\ stage' \in [Stages -> StageStatuses]
         /\ stage'[s] = new /\ \A t \in Stages \ {s} : stage'[t] = stage[t]
         /\ due' \subseteq Stages /\ polls' \subseteq Stages
         /\ worker' \in [Workers -> WorkerStates] /\ worker'[w].step = step
         /\ \A v \in Workers \ {w} : worker'[v] = worker[v]
<1>1. /\ stage' = [stage EXCEPT ![s] = new] /\ stage \in [Stages -> StageStatuses]
      /\ due' = due \ {s} /\ polls' = polls \ {s}
      /\ due \subseteq Stages /\ polls \subseteq Stages
  BY DEF Settled, TypeOK
<1>2. /\ stage' \in [Stages -> StageStatuses]
      /\ stage'[s] = new /\ \A t \in Stages \ {s} : stage'[t] = stage[t]
  BY <1>1
<1> DEFINE rows == [p \in Papers |-> stage'[p]]
           next == [Idle EXCEPT !.step = step, !.task = "poll", !.status = copy,
                                !.rows = rows, !.held = {s} \ {Synthesis}]
<1>3. rows \in [Papers -> StageStatuses]
  BY <1>2, PaperStages
<1>4. worker' = [worker EXCEPT ![w] = next] /\ worker \in [Workers -> WorkerStates]
  BY DEF Settled, TypeOK
<1> HIDE DEF rows
<1>5. next \in WorkerStates /\ next.step = step
  BY <1>3, IdleType, PaperStages DEF WorkerStates
<1> HIDE DEF next
<1> QED
  BY <1>1, <1>2, <1>4, <1>5

LEMMA SettlingStep ==
  ASSUME TypeOK, NEW w \in Workers, NEW s \in Stages,
         PollStops(w, s) \/ PollFails(w, s) \/ PollPaperCompletes(w, s)
  PROVE  /\ TypeOK' /\ UNCHANGED cancel
         /\ status' \in {status, "ANALYZING"}
         /\ analysed \subseteq analysed'
         /\ \A p \in Papers : stage'[p] = "SUCCEEDED" => stage[p] = "SUCCEEDED" \/ p \in analysed'
         /\ \A v \in Workers :
              worker'[v].step = "cancelling" => worker[v].step = "cancelling" \/ cancel
<1>1. status \in JobStatuses /\ "ANALYZING" \in JobStatuses
      /\ {"CANCELLED", "FAILED", "SUCCEEDED"} \subseteq StageStatuses
  BY DEF TypeOK, JobStatuses, StageStatuses
<1>2. UNCHANGED <<cancel, runs, faults, cancels, running>>
  BY DEF PollStops, PollFails, PollPaperCompletes, jobRow, bounds
<1>3. CASE PollStops(w, s) \/ PollFails(w, s)
  <2>1. PICK new \in {"CANCELLED", "FAILED"}, step \in {"rerunning", "cancelling"} :
          Settled(w, s, new, step, status) /\ (step = "cancelling" => cancel)
    BY <1>3 DEF PollStops, PollFails
  <2>2. status' = status /\ analysed' = analysed
    BY <1>3 DEF PollStops, PollFails, jobRow
  <2>3. /\ stage' \in [Stages -> StageStatuses] /\ stage'[s] = new
        /\ \A t \in Stages \ {s} : stage'[t] = stage[t]
        /\ due' \subseteq Stages /\ polls' \subseteq Stages
        /\ worker' \in [Workers -> WorkerStates] /\ worker'[w].step = step
        /\ \A v \in Workers \ {w} : worker'[v] = worker[v]
    BY <1>1, <2>1, SettledType
  <2>4. TypeOK'
    BY <1>2, <2>2, <2>3 DEF TypeOK
  <2> QED
    BY <1>2, <2>1, <2>2, <2>3, <2>4, PaperStages
<1>4. CASE PollPaperCompletes(w, s)
  <2>1. /\ Settled(w, s, "SUCCEEDED", "rerunning", "ANALYZING") /\ s # Synthesis
        /\ status' = "ANALYZING" /\ analysed' = analysed \cup {s}
    BY <1>4 DEF PollPaperCompletes
  <2>2. /\ stage' \in [Stages -> StageStatuses]
        /\ \A t \in Stages \ {s} : stage'[t] = stage[t]
        /\ due' \subseteq Stages /\ polls' \subseteq Stages
        /\ worker' \in [Workers -> WorkerStates] /\ worker'[w].step = "rerunning"
        /\ \A v \in Workers \ {w} : worker'[v] = worker[v]
    BY <1>1, <2>1, SettledType
  <2>3. s \in Papers /\ analysed' \subseteq Papers
    BY <2>1, PaperStages DEF TypeOK
  <2>4. TypeOK'
    BY <1>1, <1>2, <2>1, <2>2, <2>3 DEF TypeOK
  <2> QED
    BY <1>2, <2>1, <2>2, <2>4, PaperStages
<1> QED
  BY <1>3, <1>4

\* The answer to a poll of the synthesis.
LEMMA ReportStep ==
  ASSUME TypeOK, NEW w \in Workers, PollSynthesisCompletes(w)
  PROVE  /\ TypeOK' /\ UNCHANGED <<cancel, analysed, worker>>
         /\ ~cancel /\ status' # "CANCELLED"
         /\ status' \in {"COMPLETED", "PARTIAL"} => \E p \in Papers : stage[p] = "SUCCEEDED"
         /\ \A p \in Papers : stage'[p] = stage[p]
<1>1. /\ stage' = [stage EXCEPT ![Synthesis] = "SUCCEEDED"]
      /\ stage \in [Stages -> StageStatuses]
      /\ due' = due \ {Synthesis} /\ polls' = polls \ {Synthesis}
      /\ UNCHANGED <<cancel, runs, worker, analysed, faults, cancels, running>> /\ ~cancel
  BY DEF PollSynthesisCompletes, Asked, bounds, TypeOK
<1>2. stage' \in [Stages -> StageStatuses] /\ \A p \in Papers : stage'[p] = stage[p]
  BY <1>1, PaperStages DEF StageStatuses
<1>3. /\ status' \in {"FAILED", "COMPLETED", "PARTIAL"}
      /\ status' # "FAILED" => Analysed(Rows) # {}
  BY DEF PollSynthesisCompletes, Outcome
<1>4. Analysed(Rows) # {} => \E p \in Papers : stage[p] = "SUCCEEDED"
  BY DEF Analysed, WithStatus, Rows
<1>5. TypeOK'
  BY <1>1, <1>2, <1>3 DEF TypeOK, JobStatuses, Terminal
<1> QED
  BY <1>1, <1>2, <1>3, <1>4, <1>5

\* Everything else: requests, time, beat, lost messages and polls without effect.
LEMMA OtherStep ==
  ASSUME TypeOK,
         \/ RequestCancel \/ LosePoll
         \/ \E s \in Stages : FallDue(s) \/ Sweep(s)
         \/ \E w \in Workers, s \in Stages : PollIgnored(w, s) \/ PollAgain(w, s)
  PROVE  /\ TypeOK' /\ UNCHANGED <<status, analysed, worker>>
         /\ cancel => cancel'
         /\ \A p \in Papers : stage'[p] = stage[p] \/ stage'[p] = "POLLING"
<1>1. UNCHANGED <<status, analysed, worker>>
  BY DEF RequestCancel, LosePoll, FallDue, Sweep, PollIgnored, PollAgain, jobRow
<1>2. cancel' \in BOOLEAN /\ (cancel => cancel')
  BY DEF RequestCancel, LosePoll, FallDue, Sweep, PollIgnored, PollAgain, jobRow, TypeOK
<1>3. stage' = stage \/ \E s \in Stages : stage' = [stage EXCEPT ![s] = "POLLING"]
  BY DEF RequestCancel, LosePoll, FallDue, Sweep, PollIgnored, PollAgain
<1>4. /\ stage' \in [Stages -> StageStatuses]
      /\ \A s \in Stages : stage'[s] = stage[s] \/ stage'[s] = "POLLING"
  BY <1>3 DEF TypeOK, StageStatuses, Submitted
<1>5. due' \subseteq Stages /\ polls' \subseteq Stages
  BY DEF RequestCancel, LosePoll, FallDue, Sweep, PollIgnored, PollAgain, TypeOK
<1>6. runs' \in {runs, runs + 1} /\ runs \in Nat
  BY DEF RequestCancel, LosePoll, FallDue, Sweep, PollIgnored, PollAgain, TypeOK
<1>7. faults' \in 0..MaxFaults /\ cancels' \in 0..MaxCancels /\ running' \in 0..MaxPolls
  <2>1. /\ faults' = faults \/ (faults < MaxFaults /\ faults' = faults + 1)
        /\ cancels' = cancels \/ (cancels < MaxCancels /\ cancels' = cancels + 1)
        /\ running' = running \/ (running < MaxPolls /\ running' = running + 1)
    BY DEF RequestCancel, LosePoll, FallDue, Sweep, PollIgnored, PollAgain, Fault, bounds
  <2>2. faults \in 0..MaxFaults /\ cancels \in 0..MaxCancels /\ running \in 0..MaxPolls
    BY DEF TypeOK
  <2> QED
    BY <2>1, <2>2, SizesAssumption
<1>8. TypeOK'
  BY <1>1, <1>2, <1>4, <1>5, <1>6, <1>7 DEF TypeOK
<1> QED
  BY <1>1, <1>2, <1>4, <1>8, PaperStages

-----------------------------------------------------------------------------
(* Theorems *)

LEMMA Steps ==
  ASSUME TypeOK, [Next]_vars
  PROVE  \/ UNCHANGED vars
         \/ \E w \in Workers : Start(w) \/ Rerun(w)
         \/ \E w \in Workers : Submit(w)
         \/ \E w \in Workers : AfterSubmissions(w)
         \/ \E w \in Workers : CancelJob(w) \/ Raise(w) \/ Crash(w)
         \/ \E w \in Workers, s \in Stages :
              PollStops(w, s) \/ PollFails(w, s) \/ PollPaperCompletes(w, s)
         \/ \E w \in Workers : PollSynthesisCompletes(w)
         \/ \/ RequestCancel \/ LosePoll
            \/ \E s \in Stages : FallDue(s) \/ Sweep(s)
            \/ \E w \in Workers, s \in Stages : PollIgnored(w, s) \/ PollAgain(w, s)
  BY DEF Next, Work, Poll

LEMMA TypeKept == TypeOK /\ [Next]_vars => TypeOK'
<1> SUFFICES ASSUME TypeOK, [Next]_vars PROVE TypeOK'
  OBVIOUS
<1>1. CASE UNCHANGED vars
  BY <1>1 DEF vars, jobRow, bounds, TypeOK
<1> QED
  BY <1>1, Steps, StartStep, SubmitStep, AfterStep, FreeStep, SettlingStep, ReportStep, OtherStep

\* The columns of the job and its stages, and the sessions' copies, keep to their values.
THEOREM BackgroundTypeCorrect == Spec => []TypeOK
  BY TypeInit, TypeKept, PTL DEF Spec

LEMMA GroundedKept == TypeOK /\ Grounded /\ [Next]_vars => Grounded'
<1> SUFFICES ASSUME TypeOK, Grounded, [Next]_vars PROVE Grounded'
  OBVIOUS
\* Every step but the last poll of a synthesis.
<1>1. ASSUME analysed \subseteq analysed',
             \A p \in Papers : stage'[p] = "SUCCEEDED" => stage[p] = "SUCCEEDED" \/ p \in analysed',
             status' = status \/ status' \notin {"COMPLETED", "PARTIAL"}
      PROVE  Grounded'
  BY <1>1 DEF Grounded, ReportHasAnalysis
<1>2. CASE UNCHANGED vars
  BY <1>1, <1>2 DEF vars, jobRow
<1>3. ASSUME NEW w \in Workers, Start(w) \/ Rerun(w) PROVE Grounded'
  BY <1>1, <1>3, StartStep
<1>4. ASSUME NEW w \in Workers, Submit(w) PROVE Grounded'
  BY <1>1, <1>4, SubmitStep, PaperStages
<1>5. ASSUME NEW w \in Workers, AfterSubmissions(w) PROVE Grounded'
  BY <1>1, <1>5, AfterStep
<1>6. ASSUME NEW w \in Workers, CancelJob(w) \/ Raise(w) \/ Crash(w) PROVE Grounded'
  BY <1>1, <1>6, FreeStep
<1>7. ASSUME NEW w \in Workers, NEW s \in Stages,
             PollStops(w, s) \/ PollFails(w, s) \/ PollPaperCompletes(w, s)
      PROVE  Grounded'
  BY <1>1, <1>7, SettlingStep
<1>8. ASSUME NEW w \in Workers, PollSynthesisCompletes(w) PROVE Grounded'
  BY <1>8, ReportStep DEF Grounded, ReportHasAnalysis
<1>9. CASE \/ RequestCancel \/ LosePoll
           \/ \E s \in Stages : FallDue(s) \/ Sweep(s)
           \/ \E w \in Workers, s \in Stages : PollIgnored(w, s) \/ PollAgain(w, s)
  BY <1>1, <1>9, OtherStep
<1> QED
  BY <1>2, <1>3, <1>4, <1>5, <1>6, <1>7, <1>8, <1>9, Steps

\* A job that ended with a report has the analysis of at least one paper, whatever the
\* polls, reruns, recoveries and crashes in between.
THEOREM ReportsAreGrounded == Spec => []ReportHasAnalysis
<1>1. Init => Grounded
  BY PaperStages DEF Init, Grounded, ReportHasAnalysis
<1>2. Spec => []Grounded
  BY <1>1, TypeInit, TypeKept, GroundedKept, PTL DEF Spec
<1> QED
  BY <1>2, PTL DEF Grounded

LEMMA FlaggedKept ==
  TypeOK /\ Flagged /\ [Next]_vars =>
    Flagged' /\ (status = "CANCELLED" => status' \notin {"COMPLETED", "PARTIAL"})
<1> DEFINE Goal == Flagged' /\ (status = "CANCELLED" => status' \notin {"COMPLETED", "PARTIAL"})
<1> SUFFICES ASSUME TypeOK, Flagged, [Next]_vars PROVE Goal
  OBVIOUS
\* Steps that keep the flag and set a worker on cancelling only under it.
<1>1. ASSUME cancel => cancel',
             status' = "CANCELLED" => status = "CANCELLED" \/ cancel,
             status' = status \/ status' \notin {"COMPLETED", "PARTIAL"},
             \A v \in Workers :
               worker'[v].step = "cancelling" => worker[v].step = "cancelling" \/ cancel
      PROVE  Goal
  BY <1>1 DEF Flagged
<1> HIDE DEF Goal
<1>2. CASE UNCHANGED vars
  BY <1>1, <1>2 DEF vars, jobRow
<1>3. ASSUME NEW w \in Workers, Start(w) \/ Rerun(w) PROVE Goal
  BY <1>1, <1>3, StartStep
<1>4. ASSUME NEW w \in Workers, Submit(w) PROVE Goal
  BY <1>1, <1>4, SubmitStep
<1>5. ASSUME NEW w \in Workers, AfterSubmissions(w) PROVE Goal
  BY <1>1, <1>5, AfterStep
<1>6. ASSUME NEW w \in Workers, CancelJob(w) \/ Raise(w) \/ Crash(w) PROVE Goal
  BY <1>1, <1>6, FreeStep DEF Flagged
<1>7. ASSUME NEW w \in Workers, NEW s \in Stages,
             PollStops(w, s) \/ PollFails(w, s) \/ PollPaperCompletes(w, s)
      PROVE  Goal
  BY <1>1, <1>7, SettlingStep
<1>8. ASSUME NEW w \in Workers, PollSynthesisCompletes(w) PROVE Goal
  BY <1>8, ReportStep DEF Flagged, Goal
<1>9. CASE \/ RequestCancel \/ LosePoll
           \/ \E s \in Stages : FallDue(s) \/ Sweep(s)
           \/ \E w \in Workers, s \in Stages : PollIgnored(w, s) \/ PollAgain(w, s)
  BY <1>1, <1>9, OtherStep
<1> QED
  BY <1>2, <1>3, <1>4, <1>5, <1>6, <1>7, <1>8, <1>9, Steps

\* A poll that was sent before a job was cancelled, and answered after, does not turn
\* the job into one with a report.
THEOREM CancelledStayUnreported == Spec => CancelledUnreported
<1>1. Init => Flagged
  <2>1. ASSUME Init PROVE status # "CANCELLED" /\ \A w \in Workers : worker[w].step # "cancelling"
    BY <2>1, IdleType DEF Init, Entered
  <2> QED
    BY <2>1 DEF Flagged
<1>2. TypeOK /\ Flagged /\ [Next]_vars =>
        Flagged' /\ [status = "CANCELLED" => status' \notin {"COMPLETED", "PARTIAL"}]_vars
  BY FlaggedKept
<1> QED
  BY <1>1, <1>2, TypeInit, TypeKept, PTL DEF Spec, CancelledUnreported
=============================================================================
