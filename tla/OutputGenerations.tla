------------------------- MODULE OutputGenerations -------------------------
(***************************************************************************)
(* The output of a full-research run: the analyses of its papers, and the  *)
(* generations of synthesis, artifacts and release check made of them.     *)
(* Generation 1 is made by the run's last stages; once the run is over, a  *)
(* user may have a paper reanalysed and the output regenerated, by Celery  *)
(* tasks that run next to each other and, the reanalysis, next to the      *)
(* stages too.                                                             *)
(*                                                                         *)
(* A stage holds the run's row from its first statement to its commit, and *)
(* nothing it reads can be committed meanwhile, so it is one step here;    *)
(* deliveries of stages are the subject of ResearchRun.  COMPLETED stands  *)
(* for PARTIALLY_COMPLETED too.                                            *)
(***************************************************************************)
EXTENDS Naturals, Sequences

CONSTANTS
  Papers,     \* papers selected and analysed
  Tasks,      \* rows of research_task_executions that may be requested
  Workers,    \* processes of the research-llm queue
  MaxFaults,  \* bound: crashes, lost and repeated messages, failing calls
  MaxPauses   \* bound: stages that end in a pause

ASSUME SizesAssumption == MaxFaults \in Nat /\ MaxPauses \in Nat
ASSUME NamesAssumption == {"none", "outputs"} \cap Papers = {}

VARIABLES
  state,     \* research_runs.state, from SYNTHESIZING on
  progress,  \* the keys of research_runs.progress_json that are read again
  analysis,  \* research_paper_analyses: the latest attempt of each paper
  outputs,   \* generations of synthesis, artifacts and release check
  task,      \* research_task_executions
  queue,     \* task messages waiting
  worker,    \* what each worker does, and what its session has read
  made,      \* analyses or generations each task has made (history)
  faults,
  pauses

runRow == <<state, progress>>
bounds == <<faults, pauses>>
vars == <<runRow, analysis, outputs, task, queue, worker, made, bounds>>

-----------------------------------------------------------------------------

MakingStages == <<"SYNTHESIZING", "RENDERING", "RELEASE_CHECKING">>
Making == {MakingStages[i] : i \in 1..3}
RunStates == Making \cup {"QUEUED", "PAUSED", "FAILED_RETRYABLE", "COMPLETED", "FAILED_TERMINAL"}

\* The number of an attempt stands for its content.
Latest == [p \in Papers |-> analysis[p].attempt]
Unrendered == [p \in Papers |-> 0]

\* requireRegeneration is artifacts_require_regeneration; "QUEUED" is the default of
\* the two stages a run is resumed from.
Progress == [pausedFrom : Making \cup {"QUEUED"}, failedStage : Making \cup {"QUEUED"},
             requireRegeneration : BOOLEAN]

Analyses == [attempt : Nat \ {0}, passes : BOOLEAN]
Output == [synthesis : [Papers -> Nat], papers : [Papers -> Nat], released : BOOLEAN]

TaskRows == [of : Papers \cup {"none", "outputs"},
             status : {"ABSENT", "PENDING", "SUCCEEDED", "FAILED"}]

\* step: analysing and storing - a reanalysis before and after its experts answered;
\* synthesising, rendering, releasing - a regeneration, the run's row locked;
\* failing - rolled back, the failure not yet recorded.
WorkerStates ==
  [step : {"idle", "analysing", "storing", "synthesising", "rendering", "releasing",
           "failing"},
   task : Tasks \cup {"none"}, copy : Progress, number : Nat, output : Output]

NoProgress == [pausedFrom |-> "QUEUED", failedStage |-> "QUEUED", requireRegeneration |-> FALSE]
NoOutput == [synthesis |-> Unrendered, papers |-> Unrendered, released |-> FALSE]
Idle == [step |-> "idle", task |-> "none", copy |-> NoProgress, number |-> 0,
         output |-> NoOutput]

Fault == faults < MaxFaults /\ faults' = faults + 1

\* Mutation: the run is read without FOR UPDATE.
NotLocked == FALSE

\* The row of the run is locked by a regeneration.
Locked == \E w \in Workers : worker[w].step \in {"synthesising", "rendering", "releasing"}

\* In the task's transaction.
Working(w) == worker[w].step \notin {"idle", "failing"}

\* The row of the task is locked, by whoever executes it.
TaskLocked(t) == \E w \in Workers : worker[w].task = t /\ Working(w)

\* evaluate_release, as far as the analyses decide it.
Releasable == \A p \in Papers : analysis[p].passes

\* The generation list_artifacts serves: the latest whose release check allowed it.
Served ==
  LET released == {g \in 1..Len(outputs) : outputs[g].released}
  IN  IF released = {} THEN 0 ELSE CHOOSE g \in released : \A h \in released : h <= g

-----------------------------------------------------------------------------
\* execute_stage for the last three stages, and pausing and resuming the run.

\* Persisting another synthesis or other artifacts of generation 1 raises.
Synthesised(o) == o = <<>> /\ outputs' = <<[NoOutput EXCEPT !.synthesis = Latest]>>
Rendered(o) ==
  /\ o[1].papers \in {Unrendered, Latest}
  /\ outputs' = <<[o[1] EXCEPT !.papers = Latest]>>
Checked(o) == outputs' = <<[o[1] EXCEPT !.released = @ \/ Releasable]>>

Handled ==
  CASE state = "SYNTHESIZING" -> Synthesised(outputs)
    [] state = "RENDERING" -> Rendered(outputs)
    [] state = "RELEASE_CHECKING" -> Checked(outputs)

Successor ==
  CASE state = "SYNTHESIZING" -> "RENDERING"
    [] state = "RENDERING" -> "RELEASE_CHECKING"
    [] state = "RELEASE_CHECKING" -> IF Releasable THEN "COMPLETED" ELSE "FAILED_TERMINAL"

Stage ==
  /\ state \in Making
  /\ ~Locked
  /\ Handled
  /\ state' = Successor
  /\ UNCHANGED <<progress, analysis, task, queue, worker, made, bounds>>

\* A pause is requested before the stage begins or while its handler works.
PausedStage ==
  /\ state \in Making
  /\ ~Locked
  /\ pauses < MaxPauses
  /\ pauses' = pauses + 1
  /\ Handled \/ UNCHANGED outputs
  /\ state' = "PAUSED"
  /\ progress' = [progress EXCEPT !.pausedFrom = state]
  /\ UNCHANGED <<analysis, task, queue, worker, made, faults>>

\* _mark_stage_failed, after the stage was rolled back.
FailedStage ==
  /\ state \in Making
  /\ ~Locked
  /\ Fault
  /\ state' = "FAILED_RETRYABLE"
  /\ progress' = [progress EXCEPT !.failedStage = state]
  /\ UNCHANGED <<analysis, outputs, task, queue, worker, made, pauses>>

Resume ==
  /\ \/ state = "PAUSED" /\ state' = progress.pausedFrom
     \/ state = "FAILED_RETRYABLE" /\ state' = progress.failedStage
  /\ ~Locked
  /\ UNCHANGED <<progress, analysis, outputs, task, queue, worker, made, bounds>>

-----------------------------------------------------------------------------
\* Requests.  The row is committed, then the message sent.

Requested(t, what) ==
  /\ task[t].status = "ABSENT"
  /\ task' = [task EXCEPT ![t] = [of |-> what, status |-> "PENDING"]]
  /\ \/ queue' = queue \cup {t} /\ UNCHANGED faults
     \/ Fault /\ UNCHANGED queue
  /\ UNCHANGED <<runRow, analysis, outputs, worker, made, pauses>>

\* request_reanalysis asks for an analysis to supersede, never for the run's state.
RequestReanalysis(t, p) == Requested(t, p)

RequestRegeneration(t) == state = "COMPLETED" /\ Requested(t, "outputs")

-----------------------------------------------------------------------------
\* The tasks.

Become(w, next) == worker' = [worker EXCEPT ![w] = next]
At(w, step) == worker[w].step = step
TaskOf(w) == task[worker[w].task].of

\* Mutation: a delivery does not ask whether its task is done.
NeverDone(t) == FALSE

Done(t) == task[t].status = "SUCCEEDED"

Delivered(w, t) ==
  /\ At(w, "idle")
  /\ t \in queue
  /\ ~TaskLocked(t)
  /\ queue' = queue \ {t}
  /\ UNCHANGED <<runRow, analysis, outputs, task, made, bounds>>

Repeated(w, t) == Delivered(w, t) /\ Done(t) /\ UNCHANGED worker

\* The run is read without a lock, its progress with it.
BeginReanalysis(w, t) ==
  /\ Delivered(w, t)
  /\ ~Done(t) /\ task[t].of \in Papers
  /\ Become(w, [Idle EXCEPT !.step = "analysing", !.task = t, !.copy = progress])

\* FOR UPDATE, then next_output_generation.
BeginRegeneration(w, t) ==
  /\ Delivered(w, t)
  /\ ~Done(t) /\ task[t].of = "outputs"
  /\ ~Locked
  /\ Become(w, [Idle EXCEPT !.step = "synthesising", !.task = t, !.copy = progress,
                            !.number = Len(outputs) + 1])

\* The experts have answered and the latest attempt is looked up.
Analysed(w) ==
  /\ At(w, "analysing")
  /\ Become(w, [worker[w] EXCEPT !.step = "storing",
                                 !.number = Latest[TaskOf(w)] + 1])
  /\ UNCHANGED <<runRow, analysis, outputs, task, queue, made, bounds>>

\* Mutation: the message was acknowledged when the worker took it.
Forgotten(t) == queue

\* acks_late: the message of a worker that dies is delivered again.
Redelivered(t) == queue \cup {t}

\* The task ends; the worker may die before it acknowledges.
Ends(w) ==
  /\ Become(w, Idle)
  /\ \/ UNCHANGED <<queue, faults>>
     \/ Fault /\ queue' = Redelivered(worker[w].task)

\* The task is done in the transaction of its work.
Succeeds(w) ==
  /\ task' = [task EXCEPT ![worker[w].task].status = "SUCCEEDED"]
  /\ made' = [made EXCEPT ![worker[w].task] = @ + 1]
  /\ Ends(w)
  /\ UNCHANGED <<state, pauses>>

\* set_counts_and_progress writes the whole column from the copy the session has read.
Outdated(copy) == [copy EXCEPT !.requireRegeneration = TRUE]

StoreAnalysis(w) ==
  LET p == TaskOf(w)
  IN  /\ At(w, "storing")
      /\ ~Locked
      /\ worker[w].number = Latest[p] + 1
      /\ \E passes \in BOOLEAN :
           analysis' = [analysis EXCEPT ![p] = [attempt |-> worker[w].number, passes |-> passes]]
      /\ progress' = Outdated(worker[w].copy)
      /\ Succeeds(w)
      /\ UNCHANGED outputs

Synthesise(w) ==
  /\ At(w, "synthesising")
  /\ Become(w, [worker[w] EXCEPT !.step = "rendering", !.output.synthesis = Latest])
  /\ UNCHANGED <<runRow, analysis, outputs, task, queue, made, bounds>>

Render(w) ==
  /\ At(w, "rendering")
  /\ Become(w, [worker[w] EXCEPT !.step = "releasing", !.output.papers = Latest])
  /\ UNCHANGED <<runRow, analysis, outputs, task, queue, made, bounds>>

\* Mutation: a generation that was not released resets the mark as well.
AlwaysUpToDate(copy, released) == [copy EXCEPT !.requireRegeneration = FALSE]

UpToDate(copy, released) == [copy EXCEPT !.requireRegeneration = ~released]

Release(w) ==
  /\ At(w, "releasing")
  /\ worker[w].number = Len(outputs) + 1
  /\ outputs' = Append(outputs, [worker[w].output EXCEPT !.released = Releasable])
  /\ progress' = UpToDate(worker[w].copy, Releasable)
  /\ Succeeds(w)
  /\ UNCHANGED analysis

\* The attempt or the generation has been stored by another transaction.
Taken(w) ==
  \/ At(w, "storing") /\ ~Locked /\ worker[w].number # Latest[TaskOf(w)] + 1
  \/ At(w, "releasing") /\ worker[w].number # Len(outputs) + 1

\* A constraint is violated, or a call fails: the transaction is rolled back.
Raise(w) ==
  /\ \/ Taken(w) /\ UNCHANGED faults
     \/ Working(w) /\ Fault
  /\ Become(w, [Idle EXCEPT !.step = "failing", !.task = worker[w].task])
  /\ UNCHANGED <<runRow, analysis, outputs, task, queue, made, pauses>>

\* Mutation: the failure is recorded whatever has happened since.
Unfinished(t) == TRUE

Unsucceeded(t) == task[t].status # "SUCCEEDED"

\* _mark_reanalysis_failed, _mark_artifact_regeneration_failed.
MarkFailed(w) ==
  /\ At(w, "failing")
  /\ ~TaskLocked(worker[w].task)
  /\ task' = IF Unsucceeded(worker[w].task)
             THEN [task EXCEPT ![worker[w].task].status = "FAILED"] ELSE task
  /\ Ends(w)
  /\ UNCHANGED <<runRow, analysis, outputs, made, pauses>>

-----------------------------------------------------------------------------
\* Faults.

Crash(w) ==
  /\ ~At(w, "idle")
  /\ Fault
  /\ queue' = Redelivered(worker[w].task)
  /\ Become(w, Idle)
  /\ UNCHANGED <<runRow, analysis, outputs, task, made, pauses>>

\* The broker's visibility timeout passes while a worker is still at it.
DeliverTwice(w) ==
  /\ Working(w)
  /\ Fault
  /\ queue' = queue \cup {worker[w].task}
  /\ UNCHANGED <<runRow, analysis, outputs, task, worker, made, pauses>>

-----------------------------------------------------------------------------

\* Every selected paper has been analysed once, and the run goes on to its output.
Init ==
  /\ state = "SYNTHESIZING"
  /\ progress = NoProgress
  /\ analysis \in [Papers -> [attempt : {1}, passes : BOOLEAN]]
  /\ outputs = <<>>
  /\ task = [t \in Tasks |-> [of |-> "none", status |-> "ABSENT"]]
  /\ queue = {}
  /\ worker = [w \in Workers |-> Idle]
  /\ made = [t \in Tasks |-> 0]
  /\ faults = 0 /\ pauses = 0

Take(w, t) == Repeated(w, t) \/ BeginReanalysis(w, t) \/ BeginRegeneration(w, t)

Work(w) ==
  \/ Analysed(w) \/ StoreAnalysis(w) \/ Synthesise(w) \/ Render(w) \/ Release(w)
  \/ (Taken(w) /\ Raise(w)) \/ MarkFailed(w)

Next ==
  \/ Stage \/ PausedStage \/ FailedStage \/ Resume
  \/ \E t \in Tasks : RequestRegeneration(t) \/ \E p \in Papers : RequestReanalysis(t, p)
  \/ \E w \in Workers : \/ Work(w) \/ Raise(w) \/ Crash(w) \/ DeliverTwice(w)
                        \/ \E t \in Tasks : Take(w, t)

Spec == Init /\ [][Next]_vars

\* A worker goes on with its task and takes what waits.
Fairness ==
  /\ \A w \in Workers : WF_vars(Work(w))
  /\ \A t \in Tasks : SF_vars(\E w \in Workers : Take(w, t))

FairSpec == Spec /\ Fairness

-----------------------------------------------------------------------------

\* The values of the columns, of the sessions' copies of them and of the queue.
TypeOK ==
  /\ state \in RunStates /\ progress \in Progress
  /\ analysis \in [Papers -> Analyses]
  /\ outputs \in Seq(Output)
  /\ task \in [Tasks -> TaskRows] /\ queue \subseteq Tasks
  /\ worker \in [Workers -> WorkerStates]
  /\ made \in [Tasks -> Nat]
  /\ faults \in 0..MaxFaults /\ pauses \in 0..MaxPauses

\* The page offers to regenerate the artifacts of a finished run whenever those it
\* serves leave out somebody's reanalysis, or rest on a synthesis that does: a
\* reanalysis that began before a regeneration and ends after it marks them again.
ServedIsCurrent ==
  state = "COMPLETED" /\ ~progress.requireRegeneration =>
    /\ Served # 0
    /\ outputs[Served].synthesis = Latest
    /\ outputs[Served].papers = Latest

\* The synthesis of a regenerated generation and the papers rendered with it are the
\* same analyses, whatever reanalyses end meanwhile.
RegeneratedConsistent ==
  \A g \in 2..Len(outputs) : outputs[g].synthesis = outputs[g].papers

\* A request makes one analysis or one generation, however often it is delivered.
MadeOnce == \A t \in Tasks : made[t] <= 1

\* A delivery that failed does not take back what another has done in the meantime.
SuccessStays ==
  [][\A t \in Tasks : task[t].status = "SUCCEEDED" => task'[t].status = "SUCCEEDED"]_vars

\* A request whose message was sent is answered, whichever worker dies with it.
RequestsEnd ==
  \A t \in Tasks : t \in queue ~> task[t].status \in {"SUCCEEDED", "FAILED"}

\* "Pausing writes paused_from and resuming goes back to the exact stage; ... it no
\* longer runs from the beginning": a run that has its analyses never starts over.
NeverStartsOver == state # "QUEUED"

=============================================================================
