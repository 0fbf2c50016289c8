--------------------------- MODULE LocalAnalysis ---------------------------
(***************************************************************************)
(* One analysis job over the papers of a private library, in the staged    *)
(* execution mode.  A worker claims a few papers at a time, calls the model *)
(* for each, stores what it said, and asks for a synthesis when no paper   *)
(* is left.  A worker that dies leaves its stages RUNNING; the sweep of    *)
(* Celery beat reclaims them once their lease is over.                     *)
(***************************************************************************)
EXTENDS LocalJobs

CONSTANTS
  PaperCount,      \* papers selected; a paper is its stage_index
  Workers,         \* processes of the research-llm queue
  MaxConcurrency,  \* LOCAL_PAPER_ANALYSIS_MAX_CONCURRENCY
  MaxRetries,      \* LOCAL_PAPER_ANALYSIS_STAGE_MAX_RETRIES
  MaxFaults,       \* bound: crashes, exceptions, lost and repeated messages
  MaxCancels       \* bound: cancellation requests

ASSUME SizesAssumption ==
  /\ PaperCount \in Nat \ {0}
  /\ MaxConcurrency \in Nat \ {0}
  /\ MaxRetries \in Nat /\ MaxFaults \in Nat /\ MaxCancels \in Nat

VARIABLES
  status,    \* local_paper_analysis_jobs.status
  cancel,    \* cancellation_requested
  stage,     \* local_paper_analysis_stages: status and attempt_count
  request,   \* the POST that creates the job
  runs,      \* run_local_paper_analysis deliveries waiting
  worker,    \* what each worker does, and the rows its session holds
  analysed,  \* papers of which an analysis was stored (history)
  faults,
  cancels

jobRow == <<status, cancel>>
vars == <<jobRow, stage, request, runs, worker, analysed, faults, cancels>>

-----------------------------------------------------------------------------

Papers == 1..PaperCount
Synthesis == PaperCount + 1
Stages == 1..Synthesis

\* ABSENT is a row that does not exist or, in a worker's copy, is not loaded.
StageStatuses == {"ABSENT", "PENDING", "BLOCKED", "RUNNING", "SUCCEEDED", "FAILED"}
StageTerminal == {"SUCCEEDED", "FAILED"}

Row == [status : StageStatuses, attempts : Nat]
NoRow == [status |-> "ABSENT", attempts |-> 0]
NoRows == [s \in Stages |-> NoRow]

\* step: preparing - retrieving evidence; recovered - a stage was reclaimed, the
\* job is run next; entered - in the loop, the job row still locked; looping - in
\* the loop; calling - the model is called for the claimed papers; synthesising.
Steps == {"idle", "preparing", "recovered", "entered", "looping", "calling", "synthesising"}

WorkerStates ==
  [step : Steps, task : {"none", "run", "recover"}, status : JobStatuses,
   cancel : BOOLEAN, rows : [Stages -> Row], claimed : SUBSET Papers]

Idle == [step |-> "idle", task |-> "none", status |-> "ABSENT", cancel |-> FALSE,
         rows |-> NoRows, claimed |-> {}]

Ended == status \in Terminal
Fault == faults < MaxFaults /\ faults' = faults + 1
Free(w) == worker' = [worker EXCEPT ![w] = Idle]

\* The job row is locked FOR UPDATE by a worker other than w.
JobLocked(w) == \E v \in Workers \ {w} : worker[v].step = "entered"

\* The papers of a copy with a status among S.
WithStatus(rows, S) == {p \in Papers : rows[p].status \in S}

-----------------------------------------------------------------------------
\* create_job and request_cancel.

Create ==
  /\ request = "none"
  /\ request' = "committed"
  /\ status' = "QUEUED"
  /\ UNCHANGED <<cancel, stage, runs, worker, analysed, faults, cancels>>

\* The broker takes the message, or the request gives up on the job; it may have
\* taken it all the same.
Enqueue ==
  /\ request = "committed"
  /\ request' = "done"
  /\ \/ runs' = runs + 1 /\ UNCHANGED <<status, faults>>
     \/ /\ Fault
        /\ runs' \in {runs, runs + 1}
        /\ status' = "FAILED"
  /\ UNCHANGED <<cancel, stage, worker, analysed, cancels>>

\* The row is read without a lock and written under one; then a run is enqueued.
RequestCancel ==
  /\ request # "none"
  /\ \A w \in Workers : worker[w].step # "entered"
  /\ cancels < MaxCancels
  /\ cancels' = cancels + 1
  /\ cancel' \in (IF Ended THEN {TRUE, cancel} ELSE {TRUE})
  /\ \/ runs' = runs + 1 /\ UNCHANGED faults
     \/ Fault /\ UNCHANGED runs
  /\ UNCHANGED <<status, stage, request, worker, analysed>>

-----------------------------------------------------------------------------
\* LocalPaperAnalysisOrchestrator.run and _prepare.

\* In the loop with the rows in the database, the job locked; the synthesis row is
\* not loaded yet.
Loaded(w, task) ==
  [step |-> "entered", task |-> task, status |-> status, cancel |-> FALSE,
   rows |-> [stage EXCEPT ![Synthesis] = NoRow], claimed |-> {}]

Start(w) ==
  /\ runs > 0
  /\ worker[w].step = "idle"
  /\ ~JobLocked(w)
  /\ runs' = runs - 1
  /\ \/ Ended /\ UNCHANGED <<status, worker>>
     \/ ~Ended /\ cancel /\ status' = "CANCELLED" /\ UNCHANGED worker
     \/ /\ ~Ended /\ ~cancel /\ stage = NoRows
        /\ status' = "RETRIEVING"
        /\ worker' = [worker EXCEPT ![w] = [Idle EXCEPT !.step = "preparing", !.task = "run",
                                                        !.status = "RETRIEVING"]]
     \/ /\ ~Ended /\ ~cancel /\ stage # NoRows
        /\ worker' = [worker EXCEPT ![w] = Loaded(w, "run")]
        /\ UNCHANGED status
  /\ UNCHANGED <<cancel, stage, request, analysed, faults, cancels>>

\* The rows are inserted and the job goes to ANALYZING, whatever became of it.
PreparedRows ==
  [s \in Stages |-> [status |-> IF s = Synthesis THEN "BLOCKED" ELSE "PENDING", attempts |-> 0]]

Prepare(w) ==
  /\ worker[w].step = "preparing"
  /\ stage = NoRows
  /\ ~JobLocked(w)
  /\ stage' = PreparedRows
  /\ status' = Written(worker[w].status, "ANALYZING", status)
  /\ worker' = [worker EXCEPT ![w] = [@ EXCEPT !.step = "looping", !.status = "ANALYZING",
                                      !.rows = [PreparedRows EXCEPT ![Synthesis] = NoRow]]]
  /\ UNCHANGED <<cancel, request, runs, analysed, faults, cancels>>

\* No library, no such papers or none found: _fail, and the loop all the same.
PrepareFails(w) ==
  /\ worker[w].step = "preparing"
  /\ ~JobLocked(w)
  /\ status' = Written(worker[w].status, "FAILED", status)
  /\ worker' = [worker EXCEPT ![w] = [@ EXCEPT !.step = "looping", !.status = "FAILED",
                                      !.rows = [stage EXCEPT ![Synthesis] = NoRow]]]
  /\ UNCHANGED <<cancel, stage, request, runs, analysed, faults, cancels>>

-----------------------------------------------------------------------------
\* _run_staged, _claim and _store_stage_result.

InLoop(w) == worker[w].step \in {"entered", "looping"}
Pending(w) == WithStatus(worker[w].rows, {"PENDING"})
Running(w) == WithStatus(worker[w].rows, {"RUNNING"})
Succeeded(w) == WithStatus(worker[w].rows, {"SUCCEEDED"})
Failed(w) == WithStatus(worker[w].rows, {"FAILED"})

Claimed(row) == [status |-> "RUNNING", attempts |-> row.attempts + 1]

\* The check that a stage is still PENDING looks at the session's copy.
Claim(w) ==
  LET chosen == FirstOf(Pending(w), MaxConcurrency)
      rows == [p \in Stages |-> IF p \in chosen THEN Claimed(worker[w].rows[p])
                                               ELSE worker[w].rows[p]]
  IN  /\ InLoop(w)
      /\ chosen # {}
      /\ stage' = [p \in Stages |-> IF p \in chosen THEN rows[p] ELSE stage[p]]
      /\ worker' = [worker EXCEPT ![w] = [@ EXCEPT !.step = "calling", !.rows = rows,
                                                   !.claimed = chosen]]
      /\ UNCHANGED <<jobRow, request, runs, analysed, faults, cancels>>

\* One transaction per result, in the order of the papers; new is what becomes of
\* the stage and progress whether the job row is written too.
StoreResult(w, new, progress) ==
  LET p == CHOOSE q \in worker[w].claimed : \A r \in worker[w].claimed : q <= r
      rest == worker[w].claimed \ {p}
  IN  /\ stage' = [stage EXCEPT ![p].status = new]
      /\ status' = IF progress THEN Written(worker[w].status, "ANALYZING", status) ELSE status
      /\ worker' = [worker EXCEPT ![w] =
                      [@ EXCEPT !.step = IF rest = {} THEN "looping" ELSE "calling",
                                !.status = IF progress THEN "ANALYZING" ELSE worker[w].status,
                                !.rows[p].status = new,
                                !.claimed = rest]]
      /\ analysed' = IF new = "SUCCEEDED" THEN analysed \cup {p} ELSE analysed

\* Attempts made for the stage whose result is stored next.
Attempts(w) ==
  LET p == CHOOSE q \in worker[w].claimed : \A r \in worker[w].claimed : q <= r
  IN  worker[w].rows[p].attempts

\* Mutation: one attempt too many.
OneMoreRetry(n) == n <= MaxRetries + 1

Retried(n) == n <= MaxRetries

Store(w) ==
  /\ worker[w].step = "calling"
  /\ ~JobLocked(w)
  /\ \/ StoreResult(w, "SUCCEEDED", TRUE)
     \/ Retried(Attempts(w)) /\ StoreResult(w, "PENDING", FALSE)
     \/ ~Retried(Attempts(w)) /\ StoreResult(w, "FAILED", TRUE)
  /\ UNCHANGED <<cancel, request, runs, faults, cancels>>

\* Another worker is believed to be at work on a paper: the task ends.
Leave(w) ==
  /\ InLoop(w)
  /\ Pending(w) = {} /\ Running(w) # {}
  /\ Free(w)
  /\ UNCHANGED <<jobRow, stage, request, runs, analysed, faults, cancels>>

-----------------------------------------------------------------------------
\* _synthesize_or_finalize and _finalize, by the session's copies.

\* Mutation: only a success settles a paper.
AllSucceeded(w) == InLoop(w) /\ WithStatus(worker[w].rows, StageStatuses \ {"SUCCEEDED"}) = {}

LoopOver(w) == InLoop(w) /\ Pending(w) = {} /\ Running(w) = {}

\* Mutation: papers that failed do not matter.
FailuresIgnored(w, synthesised) ==
  /\ status' = Written(worker[w].status, Outcome(Succeeded(w), {}, synthesised), status)
  /\ Free(w)

Finalize(w, synthesised) ==
  /\ status' = Written(worker[w].status, Outcome(Succeeded(w), Failed(w), synthesised), status)
  /\ Free(w)

NothingAnalysed(w) ==
  /\ LoopOver(w)
  /\ Succeeded(w) = {}
  /\ ~JobLocked(w)
  /\ Finalize(w, FALSE)
  /\ UNCHANGED <<cancel, stage, request, runs, analysed, faults, cancels>>

\* The synthesis row is read now, unless the session holds it already.
SynthesisRow(w) ==
  IF worker[w].rows[Synthesis] = NoRow THEN stage[Synthesis] ELSE worker[w].rows[Synthesis]

Synthesise(w) ==
  LET row == SynthesisRow(w)
  IN  /\ LoopOver(w)
      /\ Succeeded(w) # {}
      /\ ~JobLocked(w)
      /\ IF row.status \in StageTerminal
         THEN Free(w) /\ UNCHANGED <<status, stage>>
         ELSE /\ stage' = [stage EXCEPT ![Synthesis] = Claimed(row)]
              /\ status' = Written(worker[w].status, "SYNTHESIZING", status)
              /\ worker' = [worker EXCEPT ![w] =
                              [@ EXCEPT !.step = "synthesising", !.status = "SYNTHESIZING",
                                        !.rows[Synthesis] = Claimed(row)]]
      /\ UNCHANGED <<cancel, request, runs, analysed, faults, cancels>>

\* A failed synthesis goes back to BLOCKED and is tried again at once.
StoreSynthesis(w) ==
  /\ worker[w].step = "synthesising"
  /\ ~JobLocked(w)
  /\ \/ /\ stage' = [stage EXCEPT ![Synthesis].status = "SUCCEEDED"]
        /\ Finalize(w, TRUE)
     \/ /\ Retried(worker[w].rows[Synthesis].attempts)
        /\ stage' = [stage EXCEPT ![Synthesis].status = "BLOCKED"]
        /\ worker' = [worker EXCEPT ![w].step = "looping",
                                    ![w].rows[Synthesis].status = "BLOCKED"]
        /\ UNCHANGED status
     \/ /\ ~Retried(worker[w].rows[Synthesis].attempts)
        /\ stage' = [stage EXCEPT ![Synthesis].status = "FAILED"]
        /\ Finalize(w, FALSE)
  /\ UNCHANGED <<cancel, request, runs, analysed, faults, cancels>>

-----------------------------------------------------------------------------
\* Failures and their recovery.

\* An exception.  run_job rolls back, reads the job anew and ends it; the sweep has
\* no such handler.
Raise(w) ==
  /\ worker[w].step # "idle"
  /\ ~JobLocked(w)
  /\ Fault
  /\ status' = IF worker[w].task = "run" /\ ~Ended THEN "FAILED" ELSE status
  /\ Free(w)
  /\ UNCHANGED <<cancel, stage, request, runs, analysed, cancels>>

\* Two workers prepare the job: the rows of the second violate the unique
\* constraint, and run_job ends the job.
PrepareConflicts(w) ==
  /\ worker[w].step = "preparing"
  /\ stage # NoRows
  /\ ~JobLocked(w)
  /\ status' = IF Ended THEN status ELSE "FAILED"
  /\ Free(w)
  /\ UNCHANGED <<cancel, stage, request, runs, analysed, faults, cancels>>

\* The process dies; a run is delivered again, a sweep comes again anyway.
Crash(w) ==
  /\ worker[w].step # "idle"
  /\ Fault
  /\ runs' = IF worker[w].task = "run" THEN runs + 1 ELSE runs
  /\ Free(w)
  /\ UNCHANGED <<jobRow, stage, request, analysed, cancels>>

\* The broker delivers a run that is not acknowledged yet a second time.
Redeliver ==
  /\ \E w \in Workers : worker[w].task = "run"
  /\ Fault
  /\ runs' = runs + 1
  /\ UNCHANGED <<jobRow, stage, request, worker, analysed, cancels>>

\* Mutation: a lease that does not end.
LeasedForever(s) == stage[s].status = "RUNNING"

\* A stage a worker is at work on: its lease, the model's timeout and a grace
\* period, is not over.
Leased(s) ==
  \E w \in Workers :
    s \in worker[w].claimed \/ (s = Synthesis /\ worker[w].step = "synthesising")

Reclaimed(s) ==
  IF ~Retried(stage[s].attempts) THEN "FAILED" ELSE IF s = Synthesis THEN "BLOCKED" ELSE "PENDING"

\* recover_staged_stage up to its commit.
Recover(w, s) ==
  /\ worker[w].step = "idle"
  /\ stage[s].status = "RUNNING"
  /\ ~Ended
  /\ ~JobLocked(w) /\ ~Leased(s)
  /\ stage' = [stage EXCEPT ![s].status = Reclaimed(s)]
  /\ worker' = [worker EXCEPT ![w] =
                  [Idle EXCEPT !.step = "recovered", !.task = "recover", !.status = status,
                               !.cancel = cancel, !.rows[s] = stage'[s]]]
  /\ UNCHANGED <<jobRow, request, runs, analysed, faults, cancels>>

\* ... and run after it, with the job and the stage as they were then.
RunRecovered(w) ==
  /\ worker[w].step = "recovered"
  /\ ~JobLocked(w)
  /\ IF worker[w].cancel
     THEN status' = "CANCELLED" /\ Free(w)
     ELSE /\ worker' = [worker EXCEPT ![w] =
               [@ EXCEPT !.step = "entered", !.cancel = FALSE,
                         !.rows = [s \in Stages |->
                           IF worker[w].rows[s] # NoRow THEN worker[w].rows[s]
                                                        ELSE Loaded(w, "recover").rows[s]]]]
          /\ UNCHANGED status
  /\ UNCHANGED <<cancel, stage, request, runs, analysed, faults, cancels>>

-----------------------------------------------------------------------------

Init ==
  /\ status = "ABSENT" /\ cancel = FALSE
  /\ stage = NoRows
  /\ request = "none" /\ runs = 0
  /\ worker = [w \in Workers |-> Idle]
  /\ analysed = {}
  /\ faults = 0 /\ cancels = 0

Work(w) ==
  \/ Start(w) \/ Prepare(w) \/ PrepareFails(w) \/ PrepareConflicts(w)
  \/ Claim(w) \/ Store(w) \/ Leave(w)
  \/ NothingAnalysed(w) \/ Synthesise(w) \/ StoreSynthesis(w) \/ RunRecovered(w)

Next ==
  \/ Create \/ Enqueue \/ RequestCancel \/ Redeliver
  \/ \E w \in Workers :
       Work(w) \/ Raise(w) \/ Crash(w) \/ \E s \in Stages : Recover(w, s)

Spec == Init /\ [][Next]_vars

\* Requests and tasks go on, a waiting run is taken up, and the sweep comes every
\* minute and takes every stage it finds.
Fairness ==
  /\ WF_vars(Create) /\ WF_vars(Enqueue)
  /\ \A w \in Workers : WF_vars(Work(w))
  /\ \A s \in Stages : WF_vars(\E w \in Workers : Recover(w, s))

FairSpec == Spec /\ Fairness

-----------------------------------------------------------------------------

\* The values of the columns, of a worker's copies of them and of the queue.
TypeOK ==
  /\ status \in JobStatuses /\ cancel \in BOOLEAN
  /\ stage \in [Stages -> Row]
  /\ request \in {"none", "committed", "done"} /\ runs \in Nat
  /\ worker \in [Workers -> WorkerStates]
  /\ analysed \subseteq Papers
  /\ faults \in 0..MaxFaults /\ cancels \in 0..MaxCancels

\* A job that says COMPLETED has an analysis of every paper, and one that says
\* PARTIAL of at least one, whichever workers shared the work and whatever died on
\* the way.
OutcomeHonest ==
  /\ status = "COMPLETED" => analysed = Papers
  /\ status = "PARTIAL" => analysed # {}

\* "A paper that failed is tried again once": whatever is cancelled meanwhile, and as
\* long as no worker dies, the model is called for a stage at most MaxRetries + 1 times.
RetriedOnce == faults = 0 => \A s \in Stages : stage[s].attempts <= MaxRetries + 1

\* "Run one durable analysis job; DB state, not Celery, is the authority": as long as no
\* worker dies and no message is lost, the job ends, whatever the model answers, however
\* often it is cancelled and however many deliveries of it run side by side.
JobEnds == <>(Ended \/ faults > 0)

\* A stage whose worker died is taken back, whichever step the worker died in: the sweep
\* of recover_staged_stage finds it, fails it or hands it on.
StageLeft == \A s \in Stages : stage[s].status = "RUNNING" ~> (Ended \/ stage[s].status # "RUNNING")

=============================================================================
