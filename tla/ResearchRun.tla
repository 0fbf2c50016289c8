---------------------------- MODULE ResearchRun ----------------------------
(***************************************************************************)
(* One research run as the program executes it: a row in PostgreSQL, a     *)
(* control row that pause and cancel requests upsert beside it, stage      *)
(* deliveries that Celery hands out at least once, workers that lock the   *)
(* row for one stage at a time, REST requests, and the watchdog.           *)
(*                                                                         *)
(* Time is left out: a delivery may be late by any amount, and a run may   *)
(* look stalled to the watchdog whenever its row is not locked, so the     *)
(* lease and updated_at, which only rate-limit the watchdog, are not       *)
(* variables.  The shards of ANALYZING are the subject of AnalysisBarrier; *)
(* here the barrier is open or closed as the behaviour chooses.  The       *)
(* outbox rows a transition inserts are the subject of ResearchOutbox.     *)
(* Reanalysing a paper and regenerating the output of a run that is over   *)
(* are the subject of OutputGenerations.                                   *)
(***************************************************************************)
EXTENDS RunStates, Naturals, FiniteSets

CONSTANTS
  Workers,     \* Celery worker processes
  Clients,     \* REST requests that may be in flight at the same time
  MaxVersion,  \* bound: state transitions of the run
  MaxFaults,   \* bound: crashes, lost messages and failing stages
  MaxQueue     \* bound: deliveries waiting before one more is published

ASSUME BoundsAssumption ==
  /\ MaxVersion \in Nat
  /\ MaxFaults \in Nat
  /\ MaxQueue \in Nat

VARIABLES
  mode,        \* research_runs.execution_mode
  state,       \* research_runs.state
  version,     \* research_runs.state_version
  short,       \* strict_count < target_count
  pausedFrom,  \* progress_json.paused_from; its default QUEUED when absent
  failedStage, \* progress_json.failure.stage; its default QUEUED when absent
  consent,     \* progress_json.shortfall_action = "accept_strict_shortfall"
  synthesised, \* is the synthesis of generation 1 persisted?
  control,     \* research_run_controls.requested_action, "none" without a row
  queue,       \* deliveries published and not yet taken
  worker,      \* what each worker is doing
  client,      \* what each REST request has read
  faults       \* faults so far

progress == <<pausedFrom, failedStage, consent>>
run == <<mode, state, version, short, progress, synthesised>>
vars == <<run, control, queue, worker, client, faults>>

-----------------------------------------------------------------------------

Execute(s) == [task |-> "execute", stage |-> s]
Finalize == [task |-> "finalize", stage |-> "ANALYZING"]
Deliveries == {Execute(s) : s \in States} \cup {Finalize}

Idle == [step |-> "idle", msg |-> Finalize, ver |-> 0, ctl |-> "none", ran |-> FALSE]

\* step: idle, received (blocked on the row or about to ask for it), stage
\* (inside the handler), commit (control read for the last time), failed
\* (rolled back), marking (about to record the failure).  ver is the
\* state_version of the row when it was last read, ctl the control as last
\* read, ran whether the handler ran.
WorkerStates ==
  [step : {"idle", "received", "stage", "commit", "failed", "marking"}, msg : Deliveries,
   ver : 0..MaxVersion, ctl : {"none", "pause", "cancel"}, ran : BOOLEAN]

NoRequest == [op |-> "none", seen |-> "QUEUED"]
ClientStates == [op : {"none", "pause", "cancel"}, seen : States]

\* Mutation: the watchdog leaves runs alone that wait for a worker or for shards.
RecoverableWhenBusy ==
  States \ (Terminal \cup Interrupted \cup {Awaiting, "QUEUED", "ANALYZING"})

\* The stages that wait for nobody: what the watchdog considers recoverable.
Recoverable == States \ (Terminal \cup Interrupted \cup {Awaiting})

\* Mutation: a plain SELECT instead of SELECT ... FOR NO KEY UPDATE.
NoLock == FALSE

\* The row lock lives from the stage's first statement to its commit or rollback.
Locked == \E w \in Workers : worker[w].step \in {"stage", "commit"}

\* finalize_research_analysis locks FOR UPDATE, which unlike FOR NO KEY UPDATE
\* also blocks the foreign-key check of a first control row.
KeyLocked ==
  \E w \in Workers : worker[w].step \in {"stage", "commit"} /\ worker[w].msg = Finalize

Become(w, next) == worker' = [worker EXCEPT ![w] = next]

\* The stage is rolled back; what it was and the version it saw is remembered.
Fail(w) == Become(w, [Idle EXCEPT !.step = "failed", !.msg = worker[w].msg, !.ver = version])

Fault == faults < MaxFaults /\ faults' = faults + 1

\* Deliveries are published by somebody who is not a worker ending a task.
Publish(ms) ==
  /\ ms \cap queue = {}
  /\ Cardinality(queue) < MaxQueue
  /\ queue' = queue \cup ms

\* The task ends: it publishes its follow-ups, then is acknowledged.  The broker
\* may refuse the follow-ups, or the worker die before or between the two; an
\* unacknowledged delivery is handed out again.
Finish(w, followUps) ==
  /\ Become(w, Idle)
  /\ \/ queue' = queue \cup followUps /\ UNCHANGED faults
     \/ /\ Fault
        /\ queue' \in {queue, queue \cup {worker[w].msg},
                      queue \cup followUps \cup {worker[w].msg}}

\* Mutation: ALLOWED_TRANSITIONS is not consulted.
TransitionUnchecked(next) ==
  /\ version < MaxVersion
  /\ state' = next
  /\ version' = version + 1
  /\ UNCHANGED mode

\* run_repo.transition: an UPDATE guarded by state and version, so it succeeds
\* or fails as a whole and never on a row another transaction holds.
Transition(next) ==
  /\ version < MaxVersion
  /\ next \in Allowed(state)
  /\ state' = next
  /\ version' = version + 1
  /\ UNCHANGED mode

-----------------------------------------------------------------------------
\* Worker tasks.

\* A worker takes a delivery (acks_late: it is acknowledged when the task ends).
Receive(w, m) ==
  /\ worker[w].step = "idle"
  /\ m \in queue
  /\ Become(w, [Idle EXCEPT !.step = "received", !.msg = m])
  /\ queue' = queue \ {m}
  /\ UNCHANGED <<run, control, client, faults>>

\* execute_research_stage for ANALYZING: _prepare_initial_analysis_shards writes
\* the shards if the run is still there, and the barrier task is sent anyway.
PrepareAnalysis(w) ==
  /\ worker[w].step = "received"
  /\ worker[w].msg = Execute("ANALYZING")
  /\ ~Locked
  /\ \/ Finish(w, {Finalize})
     \/ /\ state = "ANALYZING"
        /\ Fault
        /\ Fail(w)
        /\ UNCHANGED queue
  /\ UNCHANGED <<run, control, client>>

\* The delivery is for a state the run is no longer in: STALE_STAGE_DELIVERY,
\* or STALE_IGNORED by the barrier task.
IgnoreStale(w) ==
  /\ worker[w].step = "received"
  /\ worker[w].msg # Execute("ANALYZING")
  /\ ~Locked
  /\ state # worker[w].msg.stage
  /\ Finish(w, {})
  /\ UNCHANGED <<run, control, client>>

\* The barrier task finds shards that are not terminal and leaves it to them.
BarrierWaits(w) ==
  /\ worker[w].step = "received"
  /\ worker[w].msg = Finalize
  /\ ~Locked
  /\ state = "ANALYZING"
  /\ control = "none"
  /\ Finish(w, {})
  /\ UNCHANGED <<run, control, client>>

\* execute_stage up to its first await: the row is locked, its state compared
\* with the delivery's, the control row read.  With a request pending, or in a
\* state without a handler, the handler is skipped.
BeginStage(w) ==
  LET skipped == control # "none" \/ state \notin Stages
  IN  /\ worker[w].step = "received"
      /\ worker[w].msg # Execute("ANALYZING")
      /\ ~Locked
      /\ state = worker[w].msg.stage
      /\ Become(w, [worker[w] EXCEPT !.step = IF skipped THEN "commit" ELSE "stage",
                                     !.ver = version,
                                     !.ctl = control])
      /\ UNCHANGED <<run, control, queue, client, faults>>

\* The handler returns and the control row is read a second time: requests made
\* during the stage are seen.  Handlers that count papers may change which side
\* of the target the run is on; their writes appear when the stage commits.
StageReturns(w) ==
  /\ worker[w].step = "stage"
  /\ Become(w, [worker[w] EXCEPT !.step = "commit", !.ctl = control, !.ran = TRUE])
  /\ UNCHANGED <<run, control, queue, client, faults>>

\* The handler or the commit raises and everything is rolled back.  Only
\* execute_research_stage records it; a failing barrier task just ends.
StageRaises(w) ==
  /\ worker[w].step \in {"stage", "commit"}
  /\ Fault
  /\ IF worker[w].msg = Finalize
     THEN Become(w, Idle)
     ELSE Fail(w)
  /\ UNCHANGED <<run, control, queue, client>>

\* persist_synthesis refuses a second synthesis whose content differs.
SynthesisDiffers(w) ==
  /\ worker[w].step = "stage"
  /\ state = "SYNTHESIZING"
  /\ synthesised
  /\ Fail(w)
  /\ UNCHANGED <<run, control, queue, client, faults>>

\* Mutation: the analysis barrier recounts the papers too.
CountingStagesLate ==
  {"ENRICHING_METRICS", "RELEVANCE_SCORING", "SELECTING", "ANALYZING"}
    \cup (IF mode = "full_research" THEN {"RENDERING"} ELSE {})

\* Stages whose handler sets strict_count; render_catalog_generation does not.
CountingStages ==
  {"ENRICHING_METRICS", "RELEVANCE_SCORING", "SELECTING"}
    \cup (IF mode = "full_research" THEN {"RENDERING"} ELSE {})

\* Mutation: the pause remembers the stage that would have come next.
PausePointAfter == Successor(state)

\* stage_progress["paused_from"]: the stage that was interrupted, also when its
\* handler has already run.
PausePoint == state

\* execute_stage from its last control read to its commit: the next state is
\* decided and written, the control row deleted if one was read, whatever it
\* says by now, and the next stage enqueued unless the run waits or is over.
CommitStage(w) ==
  LET ctl == worker[w].ctl
      counted == worker[w].ran /\ state \in CountingStages
  IN  /\ worker[w].step = "commit"
      /\ short' \in (IF counted THEN BOOLEAN ELSE {short})
      /\ \E allowed \in BOOLEAN :
           Transition(NextState(state, mode, ctl, short', allowed))
      /\ pausedFrom' = IF ctl = "pause" THEN PausePoint ELSE pausedFrom
      /\ synthesised' = (synthesised \/ (worker[w].ran /\ state = "SYNTHESIZING"))
      /\ control' = IF ctl = "none" THEN control ELSE "none"
      /\ Finish(w, IF state' \in Recoverable THEN {Execute(state')} ELSE {})
      /\ UNCHANGED <<failedStage, consent, client>>

\* The decided state is not a legal successor (ILLEGAL_RUN_TRANSITION), or there
\* is none (NO_STAGE_SUCCESSOR): the stage is rolled back.
RefuseStage(w) ==
  /\ worker[w].step = "commit"
  /\ \A allowed \in BOOLEAN :
       NextState(state, mode, worker[w].ctl, short, allowed) \notin Allowed(state)
  /\ Fail(w)
  /\ UNCHANGED <<run, control, queue, client, faults>>

\* Stages whose handler can run out of the protocol's model budget.
BudgetedStages ==
  IF mode = "full_research" THEN {"RELEVANCE_SCORING", "SYNTHESIZING"} ELSE {}

\* _mark_stage_failed, in a transaction of its own: it reads the run without a
\* lock, compares the state (not the version) with the delivery's ...
ReadForFailure(w) ==
  /\ worker[w].step = "failed"
  /\ IF state = worker[w].msg.stage
     THEN /\ Become(w, [worker[w] EXCEPT !.step = "marking", !.ver = version])
          /\ UNCHANGED <<queue, faults>>
     ELSE Finish(w, {})
  /\ UNCHANGED <<run, control, client>>

\* ... and writes the failure, guarded by the version it has just read.
MarkFailed(w) ==
  /\ worker[w].step = "marking"
  /\ ~Locked
  /\ IF version = worker[w].ver /\ "FAILED_RETRYABLE" \in Allowed(state)
     THEN /\ \/ Transition("FAILED_RETRYABLE")
             \/ state \in BudgetedStages /\ Transition("FAILED_TERMINAL")
          /\ failedStage' = state
          /\ UNCHANGED <<short, pausedFrom, consent, synthesised>>
     ELSE UNCHANGED run
  /\ Finish(w, {})
  /\ UNCHANGED <<control, client>>

\* The worker process dies: PostgreSQL rolls its transaction back and the
\* delivery, never acknowledged, is handed out again (reject_on_worker_lost).
Crash(w) ==
  /\ worker[w].step # "idle"
  /\ Fault
  /\ Become(w, Idle)
  /\ queue' = queue \cup {worker[w].msg}
  /\ UNCHANGED <<run, control, client>>

\* A shard that ends calls the barrier task, see AnalysisBarrier.
ShardReports ==
  /\ state = "ANALYZING"
  /\ Publish({Finalize})
  /\ UNCHANGED <<run, control, worker, client, faults>>

\* recover_stalled_research_runs: skips locked rows and re-enqueues the state
\* PostgreSQL holds.
Watchdog ==
  /\ ~Locked
  /\ state \in Recoverable
  /\ Publish({Execute(state)})
  /\ UNCHANGED <<run, control, worker, client, faults>>

-----------------------------------------------------------------------------
\* REST requests.

\* Mutation: the request relies on the watchdog.
EnqueueLater(m) == UNCHANGED <<queue, faults>>

\* _enqueue logs and swallows a broker error: the request stays accepted.
Enqueue(m) ==
  \/ Publish({m}) /\ UNCHANGED faults
  \/ m \in queue /\ UNCHANGED <<queue, faults>>
  \/ UNCHANGED queue /\ Fault

\* The states in which cancel_run and pause_run answer 409.
Refusing(op) ==
  IF op = "cancel" THEN Terminal ELSE Terminal \cup Interrupted \cup {Awaiting}

\* cancel_run and pause_run read the run without locking it ...
ReadForControl(c) ==
  /\ client[c].op = "none"
  /\ \E op \in {"cancel", "pause"} :
       /\ state \notin Refusing(op)
       /\ client' = [client EXCEPT ![c] = [op |-> op, seen |-> state]]
  /\ UNCHANGED <<run, control, queue, worker, faults>>

\* ... then upsert the control row, commit, and enqueue the state they had read.
RequestControl(c) ==
  /\ client[c].op # "none"
  /\ control = "none" => ~KeyLocked
  /\ control' = client[c].op
  /\ Enqueue(Execute(client[c].seen))
  /\ client' = [client EXCEPT ![c] = NoRequest]
  /\ UNCHANGED <<run, worker>>

\* resume_run: back to paused_from or failure.stage.
Resume ==
  /\ ~Locked
  /\ state \in Interrupted
  /\ LET back == IF state = "PAUSED" THEN pausedFrom ELSE failedStage
     IN  Transition(back) /\ Enqueue(Execute(back))
  /\ UNCHANGED <<short, progress, synthesised, control, worker, client>>

\* apply_shortfall_action.  Both answers replace progress_json; only the
\* acceptance is enqueued, a cancellation waits for the watchdog.
DecideShortfall ==
  /\ ~Locked
  /\ state = Awaiting
  /\ \/ /\ Transition("ANALYZING")
        /\ Enqueue(Execute("ANALYZING"))
        /\ consent' = TRUE
     \/ /\ Transition("CANCEL_REQUESTED")
        /\ UNCHANGED <<queue, faults>>
        /\ consent' = FALSE
  /\ pausedFrom' = "QUEUED"
  /\ failedStage' = "QUEUED"
  /\ UNCHANGED <<short, synthesised, control, worker, client>>

-----------------------------------------------------------------------------

\* create_run: the row is committed QUEUED with no paper counted, then enqueued,
\* unless the broker refuses.
Init ==
  /\ mode \in Modes
  /\ state = "QUEUED"
  /\ version = 0
  /\ short = TRUE
  /\ pausedFrom = "QUEUED"
  /\ failedStage = "QUEUED"
  /\ consent = FALSE
  /\ synthesised = FALSE
  /\ control = "none"
  /\ \/ queue = {Execute("QUEUED")} /\ faults = 0
     \/ queue = {} /\ MaxFaults > 0 /\ faults = 1
  /\ worker = [w \in Workers |-> Idle]
  /\ client = [c \in Clients |-> NoRequest]

WorkerStep(w) ==
  \/ \E m \in queue : Receive(w, m)
  \/ PrepareAnalysis(w)
  \/ IgnoreStale(w)
  \/ BarrierWaits(w)
  \/ BeginStage(w)
  \/ StageReturns(w)
  \/ SynthesisDiffers(w)
  \/ CommitStage(w)
  \/ RefuseStage(w)
  \/ ReadForFailure(w)
  \/ MarkFailed(w)

Next ==
  \/ \E w \in Workers : WorkerStep(w) \/ StageRaises(w) \/ Crash(w)
  \/ \E c \in Clients : ReadForControl(c) \/ RequestControl(c)
  \/ Resume
  \/ DecideShortfall
  \/ ShardReports
  \/ Watchdog

Spec == Init /\ [][Next]_vars

\* A Celery worker that is up works on what it has taken, the queues are FIFO
\* lists in Redis, so a barrier task is not passed over for ever, and the beat
\* schedule keeps starting the watchdog; users, failures and shards owe nothing.
Fairness ==
  /\ \A w \in Workers : WF_vars(WorkerStep(w))
  /\ SF_vars(\E w \in Workers : Receive(w, Finalize))
  /\ WF_vars(Watchdog)

FairSpec == Spec /\ Fairness

-----------------------------------------------------------------------------
\* Properties.

TypeOK ==
  /\ mode \in Modes
  /\ state \in States
  /\ version \in 0..MaxVersion
  /\ short \in BOOLEAN
  /\ pausedFrom \in Stages
  /\ failedStage \in Stages
  /\ consent \in BOOLEAN
  /\ synthesised \in BOOLEAN
  /\ control \in {"none", "pause", "cancel"}
  /\ queue \subseteq Deliveries
  /\ worker \in [Workers -> WorkerStates]
  /\ client \in [Clients -> ClientStates]
  /\ faults \in 0..MaxFaults

\* However many deliveries of a stage are about, at most one worker is inside a
\* stage, and until it ends the row is in the state and version that worker saw:
\* no stage runs twice at once, or for a run that has moved on.
StageOwnsRow ==
  \A w \in Workers :
    worker[w].step \in {"stage", "commit"} =>
      /\ state = worker[w].msg.stage
      /\ version = worker[w].ver
      /\ \A v \in Workers \ {w} : worker[v].step \notin {"stage", "commit"}

\* The stages the run is at or may be resumed at.
Places ==
  CASE state = "PAUSED"           -> {pausedFrom}
    [] state = "FAILED_RETRYABLE" -> {failedStage}
    [] OTHER                      -> {state}

\* Fewer papers than the target are never analysed behind the user's back: no
\* pause, failure, resumption or late delivery takes a run with a shortfall
\* past SELECTING without ACCEPT_STRICT_SHORTFALL.
ShortfallConsented ==
  short /\ Places \cap {"ANALYZING", "EVIDENCE_AUDITING", "SYNTHESIZING"} # {} => consent

\* A full-research run is rendered and released only from a persisted synthesis,
\* whatever interrupted the stages before.
SynthesisBeforeRelease ==
  /\ mode = "full_research"
  /\ Places \cap {"RENDERING", "RELEASE_CHECKING", "COMPLETED", "PARTIALLY_COMPLETED"} # {}
  => synthesised

\* COMPLETED promises the target count and PARTIALLY_COMPLETED discloses that it
\* was missed, by the counts of the row, which nothing changes once the run is over.
OutcomeDisclosesShortfall ==
  /\ state = "COMPLETED" /\ mode # "validate_only" => ~short
  /\ state = "PARTIALLY_COMPLETED" => short

\* The chain of deliveries never breaks by itself: as long as nothing crashed,
\* got lost or failed, a run at a stage other than ANALYZING has a delivery for
\* this stage waiting or in a worker's hands, so the watchdog is only a net.
NoOrphan ==
  faults = 0 /\ state \in Stages \ {"ANALYZING"} =>
    \/ Execute(state) \in queue
    \/ \E w \in Workers :
         /\ worker[w].msg = Execute(state)
         /\ \/ worker[w].step \in {"received", "stage", "commit"}
            \/ worker[w].step \in {"failed", "marking"} /\ worker[w].ver = version

\* The stage an interrupted run continues with.
ResumeAt ==
  CASE state = "PAUSED"           -> pausedFrom
    [] state = "FAILED_RETRYABLE" -> failedStage
    [] OTHER                      -> NoState

\* A run implements the lifecycle its user was promised, whatever interrupts,
\* repeats or crashes its stages.
Lifecycle == INSTANCE RunLifecycle WITH resumeAt <- ResumeAt

ImplementsLifecycle == Lifecycle!ObservedSpec

\* Its execution mode confines a run for life: no pause, failure or resumption,
\* late delivery or answer to a shortfall lets a validate-only run discover or a
\* search-only run touch full texts.
ConfinedByMode == Lifecycle!ModeConfined

\* Every stage is left in the end, whatever was lost or crashed on the way;
\* ANALYZING, which waits for its shards, once a pause or a cancellation is
\* requested.  (The last version of the bound stands for everything after it.)
StageLeft ==
  \A s \in Stages :
    state = s /\ (s = "ANALYZING" => control # "none")
      ~> state # s \/ version = MaxVersion

-----------------------------------------------------------------------------
\* What the documentation says of a run and the code does not keep.

\* models/literature_research/run.py:117 calls the control row a "Durable control
\* request".  A recorded cancellation would then last until it is carried out or
\* withdrawn by another request; but a stage that read "pause" before the user
\* changed it to "cancel" deletes the row unread.
CancelIsDurable ==
  [][control = "cancel" /\ control' = "none" => state' = "CANCEL_REQUESTED"]_vars

\* ACADEMIC_RESEARCH_AGENT_DELIVERY_STATUS.md:24 reports that a cancellation ends
\* in CANCELLED.  A second request that is recorded while the run is already in
\* CANCEL_REQUESTED makes every later stage decide on an illegal transition.
CancelCompletes ==
  state = "CANCEL_REQUESTED" ~> state = "CANCELLED" \/ version = MaxVersion

=============================================================================
