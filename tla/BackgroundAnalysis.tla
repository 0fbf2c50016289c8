------------------------ MODULE BackgroundAnalysis ------------------------
(***************************************************************************)
(* A local analysis job in the background execution mode, from the moment  *)
(* its stages are prepared: each stage is handed to the model provider,    *)
(* which answers to polls; Celery schedules the polls and its beat sends   *)
(* those that are overdue.                                                 *)
(***************************************************************************)
EXTENDS LocalJobs

CONSTANTS
  PaperCount,      \* papers selected; a paper is its stage_index
  Workers,         \* processes of the research-llm queue
  MaxConcurrency,  \* LOCAL_PAPER_ANALYSIS_MAX_CONCURRENCY
  MaxFaults,       \* bound: crashes, exceptions, lost messages, refused cancellations
  MaxCancels,      \* bound: cancellation requests
  MaxPolls         \* bound: polls answered with "still running"

Papers == 1..PaperCount

ASSUME SizesAssumption ==
  /\ PaperCount \in Nat \ {0} /\ MaxConcurrency \in Nat \ {0}
  /\ MaxFaults \in Nat /\ MaxCancels \in Nat /\ MaxPolls \in Nat

VARIABLES
  status,    \* local_paper_analysis_jobs.status
  cancel,    \* cancellation_requested
  stage,     \* local_paper_analysis_stages.status
  due,       \* submitted stages whose next_poll_at has passed
  runs,      \* run_local_paper_analysis deliveries waiting
  polls,     \* poll_local_paper_analysis_stage deliveries waiting
  worker,    \* what each worker does, and the rows its session holds
  analysed,  \* papers of which an analysis was stored (history)
  faults,
  cancels,
  running    \* polls answered with "still running" so far

jobRow == <<status, cancel>>
bounds == <<faults, cancels, running>>
vars == <<jobRow, stage, due, runs, polls, worker, analysed, bounds>>

-----------------------------------------------------------------------------

Synthesis == PaperCount + 1
Stages == 1..Synthesis

Submitted == {"SUBMITTED", "POLLING"}
StageStatuses == {"PENDING", "BLOCKED", "SUCCEEDED", "FAILED", "CANCELLED"} \cup Submitted

\* step: rerunning - a poll has committed and goes on with the job; entered -
\* submitting, the job row still locked; submitting; cancelling - a stage is
\* cancelled, the job is next.
WorkerStates ==
  [step : {"idle", "rerunning", "entered", "submitting", "cancelling"},
   task : {"none", "run", "poll"}, status : JobStatuses,
   rows : [Papers -> StageStatuses], held : SUBSET Papers, todo : SUBSET Stages]

Idle == [step |-> "idle", task |-> "none", status |-> "ABSENT",
         rows |-> [p \in Papers |-> "PENDING"], held |-> {}, todo |-> {}]

Ended == status \in Terminal
Fault == faults < MaxFaults /\ faults' = faults + 1
Free(w) == worker' = [worker EXCEPT ![w] = Idle]

\* The job row is locked FOR UPDATE by a worker other than w.
JobLocked(w) == \E v \in Workers \ {w} : worker[v].step = "entered"

WithStatus(rows, S) == {p \in Papers : rows[p] \in S}

\* Mutation: an answer is an analysis, whatever it says.
Answered(rows) == WithStatus(rows, {"SUCCEEDED", "FAILED"})

Analysed(rows) == WithStatus(rows, {"SUCCEEDED"})

Rows == [p \in Papers |-> stage[p]]

\* The papers submitted next, by the rows just loaded.
Available(rows) ==
  LET active == Cardinality(WithStatus(rows, Submitted))
  IN  IF active >= MaxConcurrency THEN {}
      ELSE FirstOf(WithStatus(rows, {"PENDING"}), MaxConcurrency - active)

\* In _submit_background_available, the job locked.
Entered(task, copy, rows) ==
  [step |-> "entered", task |-> task, status |-> copy, rows |-> rows, held |-> {},
   todo |-> Available(rows)]

-----------------------------------------------------------------------------
\* request_cancel and run.

RequestCancel ==
  /\ \A w \in Workers : worker[w].step # "entered"
  /\ cancels < MaxCancels
  /\ cancels' = cancels + 1
  /\ cancel' \in (IF Ended THEN {TRUE, cancel} ELSE {TRUE})
  /\ \/ runs' = runs + 1 /\ UNCHANGED faults
     \/ Fault /\ UNCHANGED runs
  /\ UNCHANGED <<status, stage, due, polls, worker, analysed, running>>

Start(w) ==
  /\ runs > 0
  /\ worker[w].step = "idle"
  /\ ~JobLocked(w)
  /\ runs' = runs - 1
  /\ \/ Ended /\ UNCHANGED <<status, worker>>
     \/ ~Ended /\ cancel /\ status' = "CANCELLED" /\ UNCHANGED worker
     \/ /\ ~Ended /\ ~cancel
        /\ worker' = [worker EXCEPT ![w] = Entered("run", status, Rows)]
        /\ UNCHANGED status
  /\ UNCHANGED <<cancel, stage, due, polls, analysed, bounds>>

\* run as a poll calls it: the job and the polled stage are the session's copies.
Rerun(w) ==
  /\ worker[w].step = "rerunning"
  /\ ~JobLocked(w)
  /\ worker' = [worker EXCEPT ![w] =
       IF worker[w].status \in Terminal THEN Idle
       ELSE Entered("poll", worker[w].status,
                    [p \in Papers |-> IF p \in worker[w].held THEN worker[w].rows[p]
                                                             ELSE stage[p]])]
  /\ UNCHANGED <<jobRow, stage, due, runs, polls, analysed, bounds>>

-----------------------------------------------------------------------------
\* _submit_background_available and _submit_background_stage.

Submitting(w) == worker[w].step \in {"entered", "submitting"}

\* The stage is settled in the database and in the session; the next one follows, and
\* nothing follows the synthesis.
Following(copy, s, new) ==
  [copy EXCEPT !.step = "submitting", !.todo = @ \ {s}, !.rows[s] = new,
               !.status = IF new = "SUBMITTED" THEN "ANALYZING" ELSE @]

Settle(w, s, new) ==
  /\ stage' = [stage EXCEPT ![s] = new]
  /\ worker' = [worker EXCEPT ![w] =
       IF s = Synthesis THEN Idle ELSE Following(worker[w], s, new)]

\* The provider takes the stage or refuses it.
Submit(w) ==
  /\ Submitting(w)
  /\ worker[w].todo # {}
  /\ ~JobLocked(w)
  /\ \E s \in FirstOf(worker[w].todo, 1) :
       \/ /\ Settle(w, s, "SUBMITTED")
          /\ status' = Written(worker[w].status, "ANALYZING", status)
          /\ due' = due \ {s}
          /\ polls' = polls \cup {s}
       \/ /\ Settle(w, s, "FAILED")
          /\ UNCHANGED <<status, due, polls>>
  /\ UNCHANGED <<cancel, runs, analysed, bounds>>

PapersDone(w) == WithStatus(worker[w].rows, {"PENDING"} \cup Submitted) = {}

\* Nothing left to submit: wait for polls, finish without a single analysis, or go on
\* to the synthesis, whose row is read now.  A synthesis that has FAILED is left.
AfterSubmissions(w) ==
  LET succeeded == Analysed(worker[w].rows)
  IN  /\ Submitting(w)
      /\ worker[w].todo = {}
      /\ ~JobLocked(w)
      /\ \/ /\ ~PapersDone(w)
            /\ Free(w) /\ UNCHANGED <<status, stage>>
         \/ /\ PapersDone(w) /\ succeeded = {}
            /\ status' = Written(worker[w].status, "FAILED", status)
            /\ Free(w) /\ UNCHANGED stage
         \/ /\ PapersDone(w) /\ succeeded # {}
            /\ IF stage[Synthesis] \in {"BLOCKED", "PENDING"}
               THEN /\ stage' = [stage EXCEPT ![Synthesis] = "PENDING"]
                    /\ worker' = [worker EXCEPT
                         ![w].step = IF stage[Synthesis] = "BLOCKED" THEN "submitting" ELSE @,
                         ![w].todo = {Synthesis}]
               ELSE Free(w) /\ UNCHANGED stage
            /\ UNCHANGED status
      /\ UNCHANGED <<cancel, due, runs, polls, analysed, bounds>>

-----------------------------------------------------------------------------
\* poll_background_stage.  The stage and the job are locked and read anew.

Polled(w, s) ==
  /\ s \in polls
  /\ worker[w].step = "idle"
  /\ ~JobLocked(w)

\* The stage is settled in one commit; the worker goes on as told.
Settled(w, s, new, step, copy) ==
  /\ stage' = [stage EXCEPT ![s] = new]
  /\ due' = due \ {s}
  /\ polls' = polls \ {s}
  /\ worker' = [worker EXCEPT ![w] =
       [Idle EXCEPT !.step = step, !.task = "poll", !.status = copy,
                    !.rows = [p \in Papers |-> stage'[p]], !.held = {s} \ {Synthesis}]]

\* Not submitted any more, or polled before it is due.
PollIgnored(w, s) ==
  /\ Polled(w, s)
  /\ stage[s] \notin Submitted \/ s \notin due
  /\ polls' = polls \ {s}
  /\ UNCHANGED <<jobRow, stage, due, runs, worker, analysed, bounds>>

\* Cancelled, or past its deadline: the provider is told to stop.
PollStops(w, s) ==
  /\ Polled(w, s) /\ stage[s] \in Submitted /\ s \in due
  /\ IF cancel THEN Settled(w, s, "CANCELLED", "cancelling", status)
               ELSE Settled(w, s, "FAILED", "rerunning", status)
  /\ UNCHANGED <<jobRow, runs, analysed, bounds>>

CancelJob(w) ==
  /\ worker[w].step = "cancelling"
  /\ ~JobLocked(w)
  /\ status' = Written(worker[w].status, "CANCELLED", status)
  /\ Free(w)
  /\ UNCHANGED <<cancel, stage, due, runs, polls, analysed, bounds>>

\* Mutation: the flag is not looked at.
CancelNotAsked(w, s) == Polled(w, s) /\ stage[s] \in Submitted /\ s \in due

\* The provider is asked.
Asked(w, s) == Polled(w, s) /\ stage[s] \in Submitted /\ s \in due /\ ~cancel

\* The provider has failed, or cannot be asked.
PollFails(w, s) ==
  /\ Asked(w, s)
  /\ Settled(w, s, "FAILED", "rerunning", status)
  /\ UNCHANGED <<jobRow, runs, analysed, bounds>>

PollPaperCompletes(w, s) ==
  /\ Asked(w, s)
  /\ s # Synthesis
  /\ Settled(w, s, "SUCCEEDED", "rerunning", "ANALYZING")
  /\ status' = "ANALYZING"
  /\ analysed' = analysed \cup {s}
  /\ UNCHANGED <<cancel, runs, bounds>>

PollSynthesisCompletes(w) ==
  /\ Asked(w, Synthesis)
  /\ stage' = [stage EXCEPT ![Synthesis] = "SUCCEEDED"]
  /\ due' = due \ {Synthesis}
  /\ polls' = polls \ {Synthesis}
  /\ status' = Outcome(Analysed(Rows), WithStatus(Rows, {"FAILED"}), TRUE)
  /\ UNCHANGED <<cancel, runs, worker, analysed, bounds>>

\* Still running: the next poll is scheduled.
PollAgain(w, s) ==
  /\ Asked(w, s)
  /\ running < MaxPolls
  /\ running' = running + 1
  /\ stage' = [stage EXCEPT ![s] = "POLLING"]
  /\ due' = due \ {s}
  /\ UNCHANGED <<jobRow, runs, polls, worker, analysed, faults, cancels>>

Poll(w, s) ==
  \/ PollIgnored(w, s) \/ PollStops(w, s) \/ PollFails(w, s) \/ PollAgain(w, s)
  \/ PollPaperCompletes(w, s) \/ (s = Synthesis /\ PollSynthesisCompletes(w))

-----------------------------------------------------------------------------
\* Time, beat and faults.

FallDue(s) ==
  /\ stage[s] \in Submitted /\ s \notin due
  /\ due' = due \cup {s}
  /\ UNCHANGED <<jobRow, stage, runs, polls, worker, analysed, bounds>>

\* Mutation: the sweep looks for stages that were polled before.
SweepPolling(s) ==
  /\ stage[s] = "POLLING" /\ s \in due /\ s \notin polls
  /\ polls' = polls \cup {s}
  /\ UNCHANGED <<jobRow, stage, due, runs, worker, analysed, bounds>>

\* recover_local_paper_analysis_background.
Sweep(s) ==
  /\ stage[s] \in Submitted /\ s \in due /\ s \notin polls
  /\ polls' = polls \cup {s}
  /\ UNCHANGED <<jobRow, stage, due, runs, worker, analysed, bounds>>

\* The worker dies before it scheduled a poll, the broker loses one, or the provider
\* refuses to cancel and the poll's task ends with an exception.
LosePoll ==
  /\ Fault
  /\ \E s \in polls : polls' = polls \ {s}
  /\ UNCHANGED <<jobRow, stage, due, runs, worker, analysed, cancels, running>>

\* An exception: run_job ends the job it reads anew; a poll has no such handler.
Raise(w) ==
  /\ worker[w].step # "idle"
  /\ ~JobLocked(w)
  /\ Fault
  /\ status' = IF worker[w].task = "run" /\ ~Ended THEN "FAILED" ELSE status
  /\ Free(w)
  /\ UNCHANGED <<cancel, stage, due, runs, polls, analysed, cancels, running>>

\* A run is delivered again; a poll too, to find its stage settled.
Crash(w) ==
  /\ worker[w].step # "idle"
  /\ Fault
  /\ runs' = IF worker[w].task = "run" THEN runs + 1 ELSE runs
  /\ Free(w)
  /\ UNCHANGED <<jobRow, stage, due, polls, analysed, cancels, running>>

-----------------------------------------------------------------------------

\* _prepare has committed and one worker goes on with the job.
Init ==
  /\ status = "ANALYZING" /\ cancel = FALSE
  /\ stage = [s \in Stages |-> IF s = Synthesis THEN "BLOCKED" ELSE "PENDING"]
  /\ due = {} /\ runs = 0 /\ polls = {}
  /\ \E w \in Workers :
       worker = [v \in Workers |->
         IF v # w THEN Idle
         ELSE [Entered("run", "ANALYZING", Rows) EXCEPT !.step = "submitting"]]
  /\ analysed = {}
  /\ faults = 0 /\ cancels = 0 /\ running = 0

Work(w) ==
  \/ Start(w) \/ Rerun(w) \/ Submit(w) \/ AfterSubmissions(w) \/ CancelJob(w)
  \/ \E s \in Stages : Poll(w, s)

Next ==
  \/ RequestCancel \/ LosePoll
  \/ \E w \in Workers : Work(w) \/ Raise(w) \/ Crash(w)
  \/ \E s \in Stages : FallDue(s) \/ Sweep(s)

Spec == Init /\ [][Next]_vars

\* Tasks go on, polls are taken up, time passes and beat comes every minute.
Fairness ==
  /\ \A w \in Workers : WF_vars(Work(w))
  /\ \A s \in Stages : WF_vars(FallDue(s)) /\ WF_vars(Sweep(s))
                      /\ WF_vars(\E w \in Workers : Poll(w, s))

FairSpec == Spec /\ Fairness

-----------------------------------------------------------------------------

\* The values of the columns, of a worker's copies of them and of the queues.
TypeOK ==
  /\ status \in JobStatuses /\ cancel \in BOOLEAN
  /\ stage \in [Stages -> StageStatuses]
  /\ due \subseteq Stages /\ runs \in Nat /\ polls \subseteq Stages
  /\ worker \in [Workers -> WorkerStates]
  /\ analysed \subseteq Papers
  /\ faults \in 0..MaxFaults /\ cancels \in 0..MaxCancels /\ running \in 0..MaxPolls

\* A report is written only when some paper was analysed, however polls, reruns and
\* recoveries of one job overlap.
ReportHasAnalysis == status \in {"COMPLETED", "PARTIAL"} => analysed # {}

\* A cancelled job never gets a report: a poll judges the job's row under its lock
\* before it believes the provider.
CancelledUnreported ==
  [][status = "CANCELLED" => status' \notin {"COMPLETED", "PARTIAL"}]_vars

\* A submitted stage is settled, whichever poll is lost and whichever worker dies.
StageSettles == \A s \in Stages : stage[s] \in Submitted ~> stage[s] \notin Submitted

\* "Execute a job without ever leaving infrastructure failures as RUNNING": with no
\* worker dying and no message lost, the job ends whatever the provider answers.
JobEnds == <>(Ended \/ faults > 0)

=============================================================================
