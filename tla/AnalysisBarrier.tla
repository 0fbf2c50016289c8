-------------------------- MODULE AnalysisBarrier --------------------------
(***************************************************************************)
(* The ANALYZING stage of one full-research run.  A coordinator persists   *)
(* one shard per paper and sends each to the workers, every shard that     *)
(* ends sends the barrier task, and the barrier task lets the run go on    *)
(* when every shard in PostgreSQL is terminal.  Deliveries may be lost,    *)
(* repeated and late; users pause, cancel and resume in between.           *)
(*                                                                         *)
(* The coordinator and the barrier task each lock the run FOR UPDATE in    *)
(* one transaction, and every shard that writes inserts an outbox row,     *)
(* whose foreign key needs a share of that lock: each is one step here.  A *)
(* shard reads the run's state without a lock, once, before it works.      *)
(***************************************************************************)
EXTENDS Naturals, FiniteSets

CONSTANTS
  Papers,      \* analysis-ready papers, cut to the target count
  Workers,     \* workers of the paper-analysis queue
  MaxRetries,  \* ANALYSIS_MAX_RETRIES
  MaxFaults    \* bound: crashes, lost messages, failing transactions, and watchdog
               \* calls for a run that is merely slow, together

ASSUME BoundsAssumption == MaxRetries \in Nat /\ MaxFaults \in Nat

VARIABLES
  run,        \* research_runs.state from ANALYZING on
  control,    \* research_run_controls.requested_action
  shard,      \* research_task_executions.status of each paper's shard
  tasks,      \* "prepare" and "finalize" deliveries waiting, and "prepare_failed"
              \* for a coordinator that rolled back and has yet to record it
  deliveries, \* shard deliveries waiting, with the retries behind them
  worker,     \* what each worker is doing
  analyses,   \* analyses persisted for each paper
  faults,     \* faults so far
  wakes       \* watchdog calls so far for a run that was not stalled

row == <<run, control>>
vars == <<row, shard, tasks, deliveries, worker, analyses, faults, wakes>>

-----------------------------------------------------------------------------

RunStates == {"ANALYZING", "PAUSED", "FAILED_RETRYABLE", "CANCEL_REQUESTED", "EVIDENCE_AUDITING"}

\* ANALYSIS_TERMINAL_STATUSES; nothing ever writes BLOCKED.  RUNNING is written
\* and overwritten, or rolled back, within one transaction.
TerminalStatuses == {"SUCCEEDED", "FAILED_TERMINAL"}

Statuses == {"ABSENT", "PENDING", "FAILED_RETRYABLE"} \cup TerminalStatuses

Deliveries == [paper : Papers, retries : 0..MaxRetries]
NoJob == [paper |-> "none", retries |-> 0]

\* step: idle, analysing (the shard row is locked), failed (rolled back, the
\* failure not yet recorded).
WorkerStates == [step : {"idle", "analysing", "failed"}, job : Deliveries \cup {NoJob}]

Idle == [step |-> "idle", job |-> NoJob]

Free(w) == worker' = [worker EXCEPT ![w] = Idle]

Fault == faults + wakes < MaxFaults /\ faults' = faults + 1

\* Mutation: get_task_execution without for_update.
NoShardLock(p) == FALSE

ShardLocked(p) ==
  \E w \in Workers : worker[w].step = "analysing" /\ worker[w].job.paper = p

Existing == {p \in Papers : shard[p] # "ABSENT"}

Quiescent == tasks = {} /\ deliveries = {} /\ \A w \in Workers : worker[w].step = "idle"

-----------------------------------------------------------------------------
\* _prepare_initial_analysis_shards and execute_research_stage(ANALYZING).

\* Mutation: shards are persisted one transaction at a time.
ShardsOneByOne ==
  {[p \in Papers |-> IF p \in P /\ shard[p] = "ABSENT" THEN "PENDING" ELSE shard[p]] :
     P \in SUBSET Papers}

\* The shard sets a coordinator may commit: the complete one.
PersistedShards == {[p \in Papers |-> IF shard[p] = "ABSENT" THEN "PENDING" ELSE shard[p]]}

\* All shards are persisted, then those that are not terminal are sent, then the
\* barrier task; the latter also when the run is no longer in ANALYZING.
Prepare ==
  /\ "prepare" \in tasks
  /\ IF run = "ANALYZING" THEN shard' \in PersistedShards ELSE UNCHANGED shard
  /\ LET open == IF run = "ANALYZING"
                 THEN {p \in Papers : shard'[p] \notin {"ABSENT"} \cup TerminalStatuses}
                 ELSE {}
         sent == [paper : open, retries : {0}]
     IN  \/ /\ deliveries' = deliveries \cup sent
            /\ tasks' = (tasks \ {"prepare"}) \cup {"finalize"}
            /\ UNCHANGED faults
         \* The worker dies while sending, or the broker stops accepting.
         \/ /\ Fault
            /\ \E some \in SUBSET sent : deliveries' = deliveries \cup some
            /\ tasks' \in {tasks, tasks \ {"prepare"}}
  /\ UNCHANGED <<row, worker, analyses, wakes>>

\* The coordinator's transaction fails ...
PrepareRaises ==
  /\ "prepare" \in tasks
  /\ run = "ANALYZING"
  /\ Fault
  /\ tasks' = (tasks \ {"prepare"}) \cup {"prepare_failed"}
  /\ UNCHANGED <<row, shard, deliveries, worker, analyses, wakes>>

\* ... and _mark_stage_failed, in the next one, stops the run.
MarkPrepareFailed ==
  /\ "prepare_failed" \in tasks
  /\ run' = IF run = "ANALYZING" THEN "FAILED_RETRYABLE" ELSE run
  /\ tasks' = tasks \ {"prepare_failed"}
  /\ UNCHANGED <<control, shard, deliveries, worker, analyses, faults, wakes>>

-----------------------------------------------------------------------------
\* analyze_research_paper.

Ended(p) == shard[p] \in TerminalStatuses

\* The shard row is locked; an ended shard, or a run that has left ANALYZING, is
\* left alone but still calls the barrier task.
StartShard(w, d) ==
  /\ worker[w].step = "idle"
  /\ d \in deliveries
  /\ ~ShardLocked(d.paper)
  /\ deliveries' = deliveries \ {d}
  /\ IF Ended(d.paper) \/ run # "ANALYZING"
     THEN tasks' = tasks \cup {"finalize"} /\ UNCHANGED worker
     ELSE worker' = [worker EXCEPT ![w] = [step |-> "analysing", job |-> d]] /\ UNCHANGED tasks
  /\ UNCHANGED <<row, shard, analyses, faults, wakes>>

\* Output, status and event are committed together; then the barrier is called,
\* unless the worker dies in between and the delivery comes back.
Succeed(w) ==
  LET p == worker[w].job.paper
  IN  /\ worker[w].step = "analysing"
      /\ shard' = [shard EXCEPT ![p] = "SUCCEEDED"]
      /\ analyses' = [analyses EXCEPT ![p] = @ + 1]
      /\ Free(w)
      /\ \/ tasks' = tasks \cup {"finalize"} /\ UNCHANGED <<deliveries, faults>>
         \/ /\ Fault
            /\ deliveries' \in {deliveries, deliveries \cup {worker[w].job}}
            /\ UNCHANGED tasks
      /\ UNCHANGED <<row, wakes>>

\* The model, the budget, the object store or the commit fails; rolled back.
Raise(w) ==
  /\ worker[w].step = "analysing"
  /\ worker' = [worker EXCEPT ![w].step = "failed"]
  /\ UNCHANGED <<row, shard, tasks, deliveries, analyses, faults, wakes>>

\* Only a success is protected from the failure of another delivery.
Recordable(p) == shard[p] # "SUCCEEDED"

\* Mutation: the last retry is not made.
RetryOneLess(d) == IF d.retries + 1 >= MaxRetries THEN {} ELSE {[d EXCEPT !.retries = @ + 1]}

\* self.retry: the same delivery once more, up to max_retries.
Retry(d) == IF d.retries >= MaxRetries THEN {} ELSE {[d EXCEPT !.retries = @ + 1]}

\* _mark_analysis_shard_failed in a transaction of its own, then self.retry or,
\* after the last retry or a spent budget, the barrier task.
MarkShardFailed(w) ==
  LET d == worker[w].job
      last == d.retries >= MaxRetries
  IN  /\ worker[w].step = "failed"
      /\ ~ShardLocked(d.paper)
      /\ Free(w)
      /\ \E terminal \in {last, TRUE} :
           IF Recordable(d.paper)
           THEN /\ shard' = [shard EXCEPT ![d.paper] =
                               IF terminal THEN "FAILED_TERMINAL" ELSE "FAILED_RETRYABLE"]
                /\ tasks' = IF terminal THEN tasks \cup {"finalize"} ELSE tasks
                /\ deliveries' = IF terminal THEN deliveries ELSE deliveries \cup Retry(d)
           ELSE deliveries' = deliveries \cup Retry(d) /\ UNCHANGED <<shard, tasks>>
      /\ UNCHANGED <<row, analyses, faults, wakes>>

\* The worker dies and its delivery is handed out again, or recording the
\* failure fails and the delivery is gone.
LoseShard(w) ==
  /\ worker[w].step # "idle"
  /\ Fault
  /\ Free(w)
  /\ deliveries' \in {deliveries \cup {worker[w].job}}
                       \cup (IF worker[w].step = "failed" THEN {deliveries} ELSE {})
  /\ UNCHANGED <<row, shard, tasks, analyses, wakes>>

-----------------------------------------------------------------------------
\* finalize_research_analysis.

\* A request is carried out first; otherwise the run goes on when every shard
\* that exists is terminal.
Finalize ==
  /\ "finalize" \in tasks
  /\ tasks' = tasks \ {"finalize"}
  /\ CASE run # "ANALYZING" -> UNCHANGED row
       [] run = "ANALYZING" /\ control # "none" ->
            /\ run' = IF control = "pause" THEN "PAUSED" ELSE "CANCEL_REQUESTED"
            /\ control' = "none"
       [] run = "ANALYZING" /\ control = "none" ->
            /\ run' = IF \A p \in Existing : Ended(p) THEN "EVIDENCE_AUDITING" ELSE run
            /\ UNCHANGED control
  /\ UNCHANGED <<shard, deliveries, worker, analyses, faults, wakes>>

LoseTask ==
  /\ Fault
  /\ \E t \in tasks : tasks' = tasks \ {t}
  /\ UNCHANGED <<row, shard, deliveries, worker, analyses, wakes>>

-----------------------------------------------------------------------------
\* Users and the watchdog.

\* cancel_run and pause_run: the request is recorded and the state enqueued.
RequestControl ==
  /\ run = "ANALYZING"
  /\ control' \in {"pause", "cancel"}
  /\ tasks' = tasks \cup {"prepare"}
  /\ UNCHANGED <<run, shard, deliveries, worker, analyses, faults, wakes>>

\* resume_run.
Resume ==
  /\ run \in {"PAUSED", "FAILED_RETRYABLE"}
  /\ run' = "ANALYZING"
  /\ tasks' = tasks \cup {"prepare"}
  /\ UNCHANGED <<control, shard, deliveries, worker, analyses, faults, wakes>>

\* Mutation: beat does not start the watchdog.
NoWatchdog == FALSE /\ UNCHANGED vars

\* recover_stalled_research_runs judges by the run's age alone: it also wakes a
\* run whose shards are just slow.
Watchdog ==
  /\ run = "ANALYZING"
  /\ "prepare" \notin tasks
  /\ \/ Quiescent /\ UNCHANGED wakes
     \/ ~Quiescent /\ faults + wakes < MaxFaults /\ wakes' = wakes + 1
  /\ tasks' = tasks \cup {"prepare"}
  /\ UNCHANGED <<row, shard, deliveries, worker, analyses, faults>>

-----------------------------------------------------------------------------

\* The run has just entered ANALYZING.
Init ==
  /\ run = "ANALYZING"
  /\ control = "none"
  /\ shard = [p \in Papers |-> "ABSENT"]
  /\ tasks = {"prepare"}
  /\ deliveries = {}
  /\ worker = [w \in Workers |-> Idle]
  /\ analyses = [p \in Papers |-> 0]
  /\ faults = 0
  /\ wakes = 0

ShardStep(w) ==
  \/ \E d \in deliveries : StartShard(w, d)
  \/ Succeed(w)
  \/ Raise(w)
  \/ MarkShardFailed(w)

Next ==
  \/ Prepare
  \/ PrepareRaises
  \/ MarkPrepareFailed
  \/ \E w \in Workers : ShardStep(w) \/ LoseShard(w)
  \/ Finalize
  \/ LoseTask
  \/ RequestControl
  \/ Resume
  \/ Watchdog

Spec == Init /\ [][Next]_vars

\* Workers work on what waits for them, and beat keeps starting the watchdog.
Fairness ==
  /\ WF_vars(Prepare)
  /\ WF_vars(MarkPrepareFailed)
  /\ WF_vars(Finalize)
  /\ \A w \in Workers : WF_vars(ShardStep(w))
  /\ WF_vars(Watchdog)

FairSpec == Spec /\ Fairness

-----------------------------------------------------------------------------
\* Properties.

TypeOK ==
  /\ run \in RunStates
  /\ control \in {"none", "pause", "cancel"}
  /\ shard \in [Papers -> Statuses]
  /\ tasks \subseteq {"prepare", "finalize", "prepare_failed"}
  /\ deliveries \subseteq Deliveries
  /\ worker \in [Workers -> WorkerStates]
  /\ analyses \in [Papers -> Nat]
  /\ faults \in 0..MaxFaults
  /\ wakes \in 0..MaxFaults

\* However often a shard is delivered, its paper is analysed and persisted at
\* most once, and the status says so for good.
AnalysedOnce ==
  \A p \in Papers :
    /\ analyses[p] = IF shard[p] = "SUCCEEDED" THEN 1 ELSE 0

\* As long as no transaction failed and nothing got lost, no paper is left out:
\* the barrier opens on the complete shard set, never on a part of it.
NothingLeftOut ==
  run = "EVIDENCE_AUDITING" /\ faults = 0 => Existing = Papers

\* Every shard that is not terminal is on its way as long as nothing was lost:
\* delivered, being worked on, or about to be sent.
NoShardForgotten ==
  run = "ANALYZING" /\ faults = 0 =>
    \A p \in Papers :
      \/ Ended(p)
      \/ "prepare" \in tasks
      \/ \E d \in deliveries : d.paper = p
      \/ \E w \in Workers : worker[w].step # "idle" /\ worker[w].job.paper = p

\* ANALYZING ends: the barrier is never missed, although the last shards may all
\* look at it at once, and whatever was lost the watchdog starts again.
BarrierOpens == run = "ANALYZING" ~> run # "ANALYZING"

-----------------------------------------------------------------------------
\* What the code says of the barrier and does not keep.

\* literature_research_tasks.py:378 advances ANALYZING "only after the PostgreSQL
\* shard barrier is complete".  A barrier task that a late coordinator delivery
\* sent while the run was FAILED_RETRYABLE finds no shards at all after the
\* resumption, and an empty barrier counts as complete.
BarrierComplete == run = "EVIDENCE_AUDITING" => Existing = Papers

=============================================================================
