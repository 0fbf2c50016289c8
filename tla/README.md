# A verified model of the research assistant

The repository is a research assistant: a FastAPI backend with Celery workers,
PostgreSQL, Redis, Qdrant and a web frontend. A user compiles a research
protocol and starts a *research run*; workers take it through a pipeline of 15
stages (discovery, filtering, scoring, full texts, analysis by language models,
synthesis, rendering, a release gate), for minutes or hours, while the user
watches its events and may pause, resume or cancel it. Beside the runs the user
keeps a private library of papers, mirrored from a Zotero export, has jobs
analyse papers of it, and fills collections of a vector store from directories
and connectors. This directory models the parts of the program where the
difficulty is concurrency, failure and order: the run and its control, the
fan-out of paper analyses, the event outbox, the outputs of a run, the analysis
jobs, both synchronisations, and the entity resolution of discovery.

Paths below are relative to `src/backend/app/` unless they start with `src/`,
`docs/` and the like being directories of `src/`. Files of the literature
research are abbreviated: `workflow.py`, `run.py`, `pipeline_stages.py`,
`local_paper_analysis.py`, `local_paper_analysis_orchestrator.py`,
`local_paper_library.py`, `entity_resolution.py` are in
`services/literature_research/`, `literature_research_tasks.py`,
`local_paper_library_tasks.py` and `rag_tasks.py` in `worker/tasks/`, `runs.py`
and `events.py` in `api/routes/v1/literature_research/`, `ingestion.py` in
`services/rag/`.

## 1. Inventory

| Component | State | Operations | Interacts by | Hard behaviour | Correct when | Model |
|---|---|---|---|---|---|---|
| Run state machine (`workflow.py`, `repositories/.../run.py`) | `research_runs.state`, `state_version`, `progress_json`, counts | `execute_stage`, `transition`, guarded UPDATE | called by tasks and routes | two writers of one row, illegal successors | only legal steps, mode respected, outcome honest | `RunStates`, `RunLifecycle`, `ResearchRun` |
| Stage execution and recovery (`literature_research_tasks.py`) | Celery deliveries, row lock | `execute_research_stage`, `_mark_stage_failed`, `recover_stalled_research_runs` | Celery, PostgreSQL | at-least-once delivery, worker death, lost follow-ups | one stage at a time, every stage is left | `ResearchRun` |
| Run control (`runs.py`) | `research_run_controls` | create, pause, cancel, resume, shortfall decision | upserts a control row, enqueues | reads without lock, requests during a stage | a request is carried out, consent is needed | `ResearchRun` |
| Paper-analysis shards (`literature_research_tasks.py`, `repositories/.../analysis.py`) | `research_task_executions` | prepare, analyse, retry, barrier | Celery queues, row locks | duplicated and lost shards, last shards together | each paper analysed once, barrier neither early nor missed | `AnalysisBarrier` |
| Outbox and event stream (`repositories/.../outbox.py`, `events.py`) | `research_outbox_events`, Redis channel, client position | create, publish, replay, forward | written in every transaction, published by beat | numbering under concurrency, publisher death, reconnects | dense numbers, everything published, no event missed | `ResearchOutbox` |
| Outputs: reanalysis and generations (`literature_research_tasks.py`, `pipeline_stages.py`, `catalog.py`) | attempts, generations, `artifacts_require_regeneration` | synthesise, render, check, reanalyse, regenerate | Celery, the run's row | a reanalysis beside a regeneration or a stage, repeated and failing tasks | what is served is current, generations are of one piece, made once | `OutputGenerations` |
| Local paper analysis jobs (`local_paper_analysis_orchestrator.py`) | job, stages, leases, provider responses | create, run, claim, submit, poll, cancel, recover | Celery, model provider | commits inside a locked section, copies of rows, lost polls | outcome agrees with the analyses, cancelled stays unreported, the job ends | `LocalJobs`, `LocalAnalysis`, `BackgroundAnalysis` |
| Local paper library (`local_paper_library.py`) | catalogue, versions, quarantine, sync runs, Qdrant points | request, sync, build, reconcile | Celery, Zotero export, Qdrant | redelivery, crash half-way, changing source | catalogue and quarantine say what the source says | `LibrarySync` |
| Collections (`rag_tasks.py`, `rag_sync.py`, `ingestion.py`) | sync logs, documents of a collection | start, trigger, schedule, cancel, look up, replace, complete | Celery, Qdrant, connectors | a store without transactions, deliveries that overlap | done means the collection mirrors the files | `CollectionSync` |
| Discovery and entity resolution (`entity_resolution.py`, `discovery.py`) | works, sources, decisions | query, compare, merge, persist | inside a stage, replayed after a pause | order of merges, path halving, key collisions | works are the components of the decisions | `EntityResolution` |
| Other stage handlers (`pipeline_stages.py`) | papers, versions, evidence | 12 handlers | called inside the stage transaction | repeated execution | idempotent outputs | what the workflow sees of them, in `ResearchRun` |
| Release gate, evidence | latest analyses, claims | one conjunction | inside RELEASE_CHECKING | evaluated over changing analyses | no release with a failing analysis | the verdict, in `OutputGenerations` and `ResearchRun` |
| Protocol versions, usage budget, projects, organisations, memory, metrics, reports | rows | CRUD, rules, rendering | routes, stages | approval of an outdated draft, checks before charges | by unit tests | not modelled (section 7) |
| Constraints, quality, relevance, full texts, document safety, agents | data of one run | pure or I/O | inside a stage | data, not interleaving | by unit tests | not modelled |
| Chat sessions, users, authentication, conversations, files, rate limits, administration | rows, one task per socket | CRUD, messages | HTTP, WebSocket | stop against finish | by unit tests | not modelled |
| Frontend | cursor of the event stream | resume from the last sequence | WebSocket | reconnects | nothing shown twice | its cursor, in `ResearchOutbox` |

`PROJECT.json` lists every component with its sources, and every hazard at its
line, with the properties that would catch it or the reason there is none.

## 2. Modules

How they build on each other:

1. `RunStates` - constant definitions: stages, `ALLOWED_TRANSITIONS`, and
   `NextState`, the decision at the end of `execute_stage`. Four members of the
   enumeration `RunState` that nothing in the program ever writes to a run
   (`DRAFT`, `PROTOCOL_VALIDATING`, `AWAITING_PROTOCOL_APPROVAL`,
   `AWAITING_USER_CLARIFICATION`) are left out.
2. `RunLifecycle` - the abstract specification: what a run promises its user,
   with four variables and no workers, locks or messages.
3. `ResearchRun` - the run as it is executed; implements `RunLifecycle` under
   the mapping `mode`, `state`, `consent` to themselves and `resumeAt` to
   `paused_from` or `failure.stage` of an interrupted run.
   `MCResearchRun` adds starts at a later stage and symmetry.
4. `AnalysisBarrier` - inside ANALYZING, which `ResearchRun` abstracts to a
   barrier that opens or stays closed as the behaviour chooses.
5. `ResearchOutbox` - the event every transaction of 3 and 4 inserts, which those
   modules leave out.
6. `OutputGenerations` - what the run's last three stages make, and what
   reanalysis and regeneration make of it later. Deliveries of stages are the
   subject of 3; here a stage is one step.
7. `LocalJobs`, and on it `LocalAnalysis` (staged mode) and
   `BackgroundAnalysis` (background mode) - the analysis jobs.
8. `LibrarySync` - the library a job's papers come from.
9. `CollectionSync` (`MCCollectionSync`: symmetry) - the collections of the
   vector store.
10. `EntityResolution` (`MCEntityResolution`: kinds of records, title scores) -
    inside DISCOVERING, which 3 takes as a stage that succeeds or fails.
11. `*_proofs` - the theorems of the module they are named after; those of
    `RunLifecycle` stand in `ResearchRun_proofs`, which uses them.

Every module has a type invariant `TypeOK`. Definitions introduced by a comment
"Mutation:" are deliberately wrong variants of the definition that follows.
They are used by no specification; each property of a passing run is known to
fail when one of them takes the place of the right definition, so it does say
something about the code.

### ResearchRun and the code

| Model | Code |
|---|---|
| `mode`, `state`, `version`, `short`, `pausedFrom`, `failedStage`, `consent` | the row of `research_runs`; `short` is `strict_count < target_count` |
| `synthesised` | a persisted synthesis of generation 1 |
| `control` | the row of `research_run_controls` |
| `queue` | Celery messages not yet taken; a set, so equal messages coincide, but a message can come back while its copy is in a worker's hands |
| `worker[w].step` | where a task stands between two points at which others can interfere: waiting for the row, in the handler, before the commit, before `_mark_stage_failed` and between its read and its write |
| `client[c]` | a pause or cancel request between reading the run and recording its control row |
| `BeginStage`, `StageReturns`, `CommitStage` | `execute_stage` to its handler, the second read of the control row, the rest of it with the commit and the next `apply_async` |
| `StageRaises`, `RefuseStage`, `SynthesisDiffers`, `ReadForFailure`, `MarkFailed` | a failing stage and its record |
| `PrepareAnalysis`, `BarrierWaits`, `ShardReports` | ANALYZING seen from outside |
| `Finish`, `Enqueue`, `Crash`, `Fault` | broker refusals, worker death before or after the follow-up, redelivery |
| `Watchdog` | `recover_stalled_research_runs` |

The row lock is `Locked`: it lasts from `BeginStage` to the end of the stage.
Transitions of the routes and of `_mark_stage_failed` are UPDATEs guarded by
state and version and wait for it. `finalize_research_analysis` locks
FOR UPDATE, which also holds up the foreign key of a first control row
(`KeyLocked`).

Abstractions: time is absent, so a delivery may be arbitrarily late and the
watchdog may consider any unlocked run stalled; this has every behaviour the
lease and the cutoff allow and more. Handlers are reduced to what decides the
run's path. The verdict of the release gate and the papers' counts are
nondeterministic. A synthesis that is computed again is taken to differ, as
text from a language model does; the equal one would pass.

### AnalysisBarrier and the code

The coordinator and the barrier task run in one transaction each, with the run
locked FOR UPDATE, and are one action each (`Prepare`, `Finalize`). A shard is
three steps, because it holds the shard's row, not the run's, while it works:
`StartShard`, then `Succeed` or `Raise`, then `MarkShardFailed` in another
transaction. `deliveries` are shard messages with their retry counter, `tasks`
the other messages. `Quiescent` is when a run is really stalled: nothing is
waiting or being worked on; `Watchdog` may also wake a run that is merely slow,
and such needless wakes share the bound `MaxFaults` with the faults.

### ResearchOutbox and the code

A writer goes through its transaction: begin (which fixes `occurred_at`), lock
the run in the way of its kind, compute `max + 1`, insert (unique index), check
the foreign key, commit. A stage that leaves a shortfall to the user commits a
second event with it (`EventsOf`). `taken` and `batch` are what a publisher holds
locked and has not yet sent. The stream subscribes, replays, forwards larger sequences
and disconnects; the client resumes from its last sequence.

### OutputGenerations and the code

`outputs` are the generations: for each, the attempts the synthesis was made
of, those rendered, and whether the gate released it. `Stage`, `PausedStage` and
`FailedStage` are the last three stages with their possible ends, and `Resume`
brings the run back. `BeginReanalysis` ... `StoreAnalysis` is
`reanalyze_research_paper`: it reads the run without a lock, calls the model and
writes back the whole `progress_json` (`worker[w].copy`). `BeginRegeneration`,
`Synthesise`, `Render`, `Release` is `regenerate_research_artifacts`, which holds
the run's row (`Locked`). `MarkFailed` is the record of a failure in a later
transaction; `Crash`, `DeliverTwice` and `Taken` are Celery's.

### LocalAnalysis, BackgroundAnalysis and the code

A worker's database session keeps every row it has loaded (`LocalJobs`), so
`worker[w]` holds its copies and `Written` decides what a flush writes. The
step "entered" is the time the job row is locked, which ends at the first of
several commits.

| LocalAnalysis | Code |
|---|---|
| `Create`, `Enqueue`, `RequestCancel` | `create_job`, `_create_job` of the route with its broker call, `request_cancel` |
| `Start`, `Prepare`, `PrepareFails`, `PrepareConflicts` | `run` and `_prepare`, with a failing retrieval and a second preparation |
| `Claim`, `Store`, `Leave`, `Finalize` | the loop of `_run_staged`: claim up to the concurrency, call the model, store results with their retries, and `_finalize` |
| `Synthesise`, `StoreSynthesis` | the synthesis stage |
| `Recover`, `RunRecovered` | `recover_staged_stage` of the sweep and the run after it |

| BackgroundAnalysis | Code |
|---|---|
| `Start`, `Submit`, `AfterSubmissions` | `_run_background`: fill the free slots, then synthesise or finalise |
| `PollIgnored`, `PollStops`, `PollFails`, `PollPaperCompletes`, `PollSynthesisCompletes`, `PollAgain` | the outcomes of `poll_stage` |
| `Rerun` | the job run inside a poll's session once a stage is settled |
| `FallDue`, `Sweep`, `LosePoll` | `next_poll_at` passes, the sweep of beat, a lost message |
| `CancelJob` | a run or poll that finds the cancellation and cancels at the provider |

### LibrarySync and the code

`Request`, `AskActive`, `AskIdle` are `request_sync` for the administrator and
for beat: an active run is enqueued again. An attempt is `Begin` or
`Redelivered`, `Discover` (empties the quarantine, reads the entries), then per
entry `Match`, `Conflict`, `Build`, `CommitVersion` or `IndexFails`, then
`Reconcile` (what was not seen becomes MISSING), `Complete`; `SyncFails` and
`Crash` end it early. `points` is what Qdrant holds of the active versions.

### CollectionSync and the code

A task is `Take` (with the log it creates, if the scheduler sent it), then per
file `Check` (cancelled?) or `Download`, `Look` (the modes' comparison), `Parse`,
`Find`, `Delete`, `Insert` - one step per call of the store, as it has no
transactions - then `Complete`. `IngestFails` is `ingest_file` returning an error,
`Raise` a task that is retried, `Crash` a dead worker or a hard time limit.
Both `Take` and `Schedule` show that a scheduled synchronisation is sent twice:
its task calls `trigger_sync`, which sends another for the same log. Every lookup
reads one page of the collection (`Pages`, `PageLimit` for the 10000 points of
`get_documents`); identifiers are random, so which documents are on it is left
open. A document is one point in the model and has one per chunk in the code.
`Insert` includes the row of `rag_documents` a local synchronisation writes next
only in that it may be refused, which counts the file as failed.

### EntityResolution and the code

`Compare` takes the pair the two nested loops have reached; a merge walks `find` step by step (`Halve`) for
the left and the right paper (`LeftFound`, `Union`); `Group` and `Grouped` build
the clusters; `Persist` is `persist_cluster` for all of them; `Replay` executes
the stage again after a pause, with another answer of the sources. A paper is a
record of identifiers, a title class, authors, a year and a version type, and a
run takes every assignment of such records to the places of the list, so every
order of merges occurs.

## 3. Model-checking runs

| Run | Bounds | States | Question |
|---|---|---|---|
| `run_workflow` | QUEUED (validate-only, full), SELECTING (search-only, full) and SYNTHESIZING, 2 workers, 1 request in flight, 4 transitions, 1 fault, 2 waiting deliveries | 2.2 million | do stages exclude each other, does the chain of deliveries hold, is a shortfall consented to, is a release synthesised, does the final state agree with the counts, does its execution mode confine the run, does it implement `RunLifecycle`? |
| `run_stage_liveness` | QUEUED and ANALYZING, 1 worker, 2 transitions, 1 fault, fairness | 21 thousand | is every stage left? |
| `run_lost_cancel` | QUEUED, 1 worker, 3 transitions, no fault | violation | section 6 |
| `barrier` | 2 papers, 2 workers, 1 retry, 1 fault or needless wake, fairness | 418 thousand | analysed once, nothing left out or forgotten, does the barrier open? |
| `outbox` | 2 writers of all kinds, 2 publishers, 2 transactions of one event or two, 1 fault, replay of 4, fairness | 79 thousand | dense sequences, published means sent, what can a client miss, do deadlocks end, is everything published? |
| `output_generations` | 1 paper, 2 requests, 2 workers, 1 fault, 1 pause, fairness | 101 thousand | is what is served current and of one piece, is it made once, is every request answered? |
| `output_resume` | 1 paper, 1 request, 1 worker, 1 pause, no fault | violation | section 6 |
| `local_staged` | 2 papers, 2 workers, concurrency 1, 1 retry, 1 fault, 1 cancellation, fairness | 156 thousand | is the outcome honest, how often is the model asked, do job and stages end? |
| `local_background` | 2 papers, 2 workers, concurrency 2, 1 fault, 1 cancellation, 1 poll answered "running", fairness | 102 thousand | no report without analysis or after a cancellation; is every submitted stage settled? |
| `library_sync` | 2 entries, 2 contents, 2 workers, 1 run, 1 waiting delivery, 1 change, 1 fault, fairness | 426 thousand | do catalogue and quarantine say what the source says, does a failed rebuild keep serving, does the run end? |
| `collection_sync` | 2 files, 2 contents, 2 workers, page of 2, 2 logs, 3 documents, 1 change or cancellation, 1 fault | 3 million | is a collection that is "done" a mirror, is a content lost between two synchronisations? |
| `entity_resolution` | 4 records of 6 kinds, 2 executions, fairness | 277 thousand | are works the components of the decisions, do keys identify, does `find` end? |

Why the bounds are enough. The conflicts of the code are between two: two
deliveries of a stage, a stage and a request, a request and a failure record,
two shards at the barrier, two writers of a sequence, two publishers of an
event, a reanalysis and a regeneration, a job's run and its poll or sweep, two
deliveries of a synchronisation. Two workers and one request in flight give
three actors around a row with one lock.

*ResearchRun.* `MaxVersion` bounds transitions, not steps: four transitions
contain a stage, its pause or failure, its resumption and the next stage with
deliveries of all of them still under way; starts at later stages let the same
window reach the shortfall decision, the synthesis and the end of a run. They
begin in the state an uninterrupted run is in there: SELECTING with a shortfall,
which it counts anew, and later stages without one, because a run that has one is
followed from SELECTING on. Up to SELECTING search-only and full runs go the
same way, so from QUEUED one of the two is taken. `RunLifecycle` is
correspondingly observed from a stage on (`ObservedSpec`). In the liveness run
`version = MaxVersion` is admitted as an outcome, because beyond the last
transition of the bound no stage can commit.

*Faults.* One fault lets each crash, loss or refusal happen at each point; the
proofs of section 5 hold for any number. A fault and a needless wake of the
barrier share one bound, as each is followed to its end and their combination
multiplies the states without a new conflict; the safety proofs have no such
limit. `Mirrored` speaks of behaviours in which deliveries took turns and lookups
answered (`clean`), `NothingLost` of behaviours without a fault; where neither
is given it never will be again, so `collection_sync` does not follow such states
(`Relevant`, a constraint of `MCCollectionSync`).

*Sizes.* Two papers are needed for a barrier, for a job that is partly
successful and for a concurrency that is used up; two entries and two contents
let two entries hold the same file and a file change. Three documents are one
more than a page holds, so lookups miss what overlapping synchronisations and
connectors have added. Two transactions commit four events at most, so a replay of four
is never cut. Four records make trees in which a path
of length two is halved and two trees of two are united; six kinds contain every
rule of `duplicate_decision` and records that are linked only through a third.

*Deadlock* is not checked: a run or a job that is over, and a bounded instance
that has used up its transitions, stop.

*Histories.* `analysed`, `made`, `alone`, `clean` and `fresh` record what the
code does not; they are read by properties only, or restrict them: a
synchronisation answers for its collection or catalogue only if nobody else
changed it or the source meanwhile.

## 4. Fairness

- Weak fairness of each worker's next step, and of each writer's and
  publisher's: a process that is up executes what it has begun. Nothing is
  assumed of failures, crashes, rollbacks or users.
- Strong fairness of taking a waiting barrier task (`ResearchRun`) and a waiting
  reanalysis or regeneration (`OutputGenerations`): Celery's queues are FIFO
  lists, so a message is not overtaken for ever while others come and go.
- Weak fairness of the watchdog of runs, of the sweeps of jobs and of the
  library's periodic request: beat starts them at their intervals. The watchdog
  must find the row unlocked, which holds whenever nothing is under way.
- Weak fairness of polls and of `FallDue`: a poll that waits is taken, and
  `next_poll_at` passes.
- The outbox publisher is started by beat every second; PostgreSQL's deadlock
  detector aborts one of two transactions that wait for each other; the
  client's page reconnects.

The code justifies no fairness for failures, retries or user actions, and none
is used. Properties of jobs that hold only without a lost message or dead worker
say so (`faults > 0` as an outcome). If needless wakes of the barrier were
unbounded, `BarrierOpens` would fail: a watchdog that restarts a slow shard for
ever keeps the barrier from being reached.

## 5. Theorems

36 theorems in 8 modules, for every value of the constants: any number of
workers, papers, requests, records, entries, transitions, edits and faults.
Assumed is only what the modules name: bounds are natural numbers, sizes
positive, the words used for "nothing" are not names of papers or records, and
two assumptions of `EntityResolution` that are explained below. Every safety
invariant and action property of the runs is proved but the two of
`CollectionSync`.

**ResearchRun_proofs.** `TypeCorrect` is inductive as it stands, given the lemmas
on the transition table: legal successors are states, and only a stage can be
paused or fail (`InterruptedAtStage`). `StageHasRowToItself`: `StageOwnsRow` is
inductive together with the types - whoever changes the row is the worker inside
or has seen `~Locked`. `NoSilentShortfall`, `OutcomeIsHonest`: `RowMoves` lists
the ways the row can change in one step, from any actor; the stages beyond
SELECTING are entered only from SELECTING without a shortfall or by consent, and a
shortfall cannot reappear there because the stages that count papers are
elsewhere. `ReleaseNeedsSynthesis` needs the invariant `HandlerRan`: a worker about
to commit a stage without a pending request has run its handler.

`DeliveryNeverOrphaned`: `NoOrphan` is inductive with the types. Per action, either
the delivery stays where it is, or the step that moves the row also enqueues the
delivery of the new state (`HeldOn`, `HeldWorker`); a step that loses one shows in
`faults` (`FaultShows`).

`RunImplementsLifecycle` is the refinement: the initial states are initial, and
`LifecycleStep` takes the ways of `RowMoves` one by one to a step of
`RunLifecycle` - a stage's commit to `Advance`, `Interrupt`, `RequestCancel` or
`ConfirmCancel` by `DecidedWays`, a recorded failure to `Interrupt` or
`ExhaustBudget`, the routes to `Resume`, `AcceptShortfall` and `RequestCancel`;
everything else is a stutter. It needs `ConsentIsLate`: consent is on record only
behind the decision it belongs to, so a run awaits the decision without it.

`LifecycleTypeCorrect`, `RunStaysInMode` are about the lifecycle itself, with
`ResumeAt` left opaque. Its type invariant must also say that an interrupted run
knows its stage (`LifecycleKept`), otherwise `Resume` could lead nowhere; that a
mode confines a run then follows from one lemma on where a stage can lead
(`OnwardConfined`). `RunIsConfined` carries it to the executed run through the
refinement.

**AnalysisBarrier_proofs.** `BarrierTypeCorrect` with `HasJob`: a busy worker has
a delivery in hand. `ShardsAnalysedOnce` needs `Locks`: a shard that is being
analysed has not ended and is held by one worker. `BarrierOpensOnAll` needs
`Persisted`: without a fault the coordinator has persisted all shards or none
has begun. `NoShardIsForgotten` is inductive with the types.

**ResearchOutbox_proofs.** `SequencesAreDense` needs `Numbering`: the committed
sequences are 1 to the number of events, a writer's number is at most the next,
and the unique index lets one writer hold an uncommitted one. `Dated` bounds the
events by two for each transaction.
`PublishedEventsWereSent` follows publisher and batch. `SkippedOnlyIfOvertaken`
has the largest invariant, `Promised`: a client that reads live messages has, or
will read before a later sequence, every event that was sent, and every event
that precedes one still to be sent by a publisher that was alone. It assumes
`2 * MaxTx <= ReplayLimit`, that the client is never further behind than one replay; section 6 has what happens otherwise.

**OutputGenerations_proofs.** `OutputTypeCorrect` with `Jobs` and `Begun`: a worker
works on what was requested, a stage after the first finds a generation.
`RequestsMakeOne` needs `Single`: a request that has succeeded has made one thing,
any other none, and one delivery of it is at work. `SuccessIsKept` follows from
the same types. `RegenerationIsOfOnePiece` needs `Pieces`: one regeneration at a
time holds the run's row, and what it has put together are the latest attempts.
`FinishedRunServesCurrent` needs `Current`: before the run is over its first
generation is made of the latest attempts unless the mark is set.

**LocalAnalysis_proofs.** `LocalTypeCorrect`. `OutcomesAreHonest` needs `Sound`: a
stored row that says SUCCEEDED has its analysis; so has a session's copy of it,
however stale it is; and every session but that of a worker that has reclaimed one
stage and not read the others holds all rows or none. Without the last a worker
could find "no paper left" in a copy that lacks papers. `StagesRetriedOnce` needs
`Lone`, as long as no fault has happened: one delivery exists and one worker is
inside (`Solo`, `Asked`), its copy is the stored rows but for the synthesis, which
it loads later (`Coherence`), a RUNNING stage has a worker at work on it
(`Leases`), so the sweep finds none, and a stage that may still be claimed has an
attempt left (`Bounded`). A cancelled job may be delivered more often; then its
workers stop before they claim.

**LibrarySync_proofs.** `LibraryTypeCorrect`, with `Parsed`: what is being indexed
was not rejected and has a content. The three action properties speak of an
attempt that was alone, and rest on one invariant: while an attempt is alone nobody
else is at work and its run was completed by nobody else (`Solo`), and its
`Account` is right. It begins with empty hands (`Unblemished`); the quarantine is
its own, its session shows the catalogue with the papers that are about to be
INDEXED again, and it knows every catalogued content (`Copied`); every entry it is
done with is quarantined or as in the source, and a paper whose rebuild failed is
among the seen ones if it is INDEXED (`Settled`); a new paper brings a content that
no other paper has (`AtEntry`), so a failed rebuild preserves no other paper. `AloneSteps` shows that only its own
steps and steps that touch none of this leave it alone; then one lemma per action.
`QuarantineIsExact`, `CatalogueReflectsSource` and `RebuildFailureServes` read off
what the commit of `Complete` writes (`CompletedRows`).

**BackgroundAnalysis_proofs.** `BackgroundTypeCorrect`; `ReportsAreGrounded`, with
`Grounded`: a paper's stage that succeeded has left its analysis;
`CancelledStayUnreported`, with `Flagged`: a job is cancelled, or about to be, only
while the flag is set.

**EntityResolution_proofs.** `ResolutionTypeCorrect`; `WorksAreComponents`. Call a
set of papers *linked* if no parent link leads into it or out of it. The linked
sets are the sets no merge decision leads out of (`Merged`): halving a path
changes no linked set, and a union excludes exactly those that part the two
papers of the decision. Whoever follows the links comes to a root and two roots
can be parted (`Forest`), so two papers have one root exactly if every linked set
holds both or neither; `Standing` says where a walk has got to.

`KeysAreIdentifying` adds `Compared` to that invariant: every pair that has been
compared and is to be merged has its decision. Two papers with one DOI, or one
arXiv identifier, are therefore connected and in one cluster, and two clusters
with one key can only have a title in common. That the preferred paper exists in
every cluster (`BestExists`) is proved by taking a smallest counterexample.
`NameSpacesAssumption` says that DOIs, arXiv identifiers and normalised titles are
never equal, as the key does not say which it is: a DOI has a slash, a normalised
title has no punctuation, and what the program keeps of an arXiv identifier is what
follows the last slash (`metadata_normalizer.py:271`), with a dot since 2007; that
no title is the digits of an older identifier is assumed. Kept so, two older
identifiers of different archives may coincide and their papers are merged, which
the theorem does not speak of. `YearsAssumption`: years are numbers or absent.

Each strengthening was first checked by TLC as an invariant, on the instances of
the runs with one more fault and edit or cancellation where that was feasible.

Model-checked only: all liveness (the prover handles neither fairness nor
ENABLED), `Mirrored` and `NothingLost` of `CollectionSync`, and the refuted
statements of section 6, of which the runs show the counterexamples.

## 6. Where the code and its documentation part

Two divergences have a run whose counterexample shows them:

- **A cancellation can be lost** (`run_lost_cancel`, `workflow.py:253`). A stage
  reads "pause"; before it commits the user changes the request to "cancel",
  which is answered 202; the stage deletes the control row unread. The run is
  PAUSED and nothing remembers the cancellation, though the model class calls
  the request durable.
- **A finished analysis starts over** (`output_resume`,
  `repositories/.../run.py:203`). A reanalysis reads the run's progress without a
  lock, calls the model for minutes and writes the progress back whole. A pause
  in between has stored `paused_from` there; it is gone, and resuming falls back
  to QUEUED.

More statements of documents and comments are definitions beside the properties,
in the section "What ... does not keep" or marked "Refuted". No run checks them;
the named specification with these constants refutes each:

| Definition | Specification and constants | Says |
|---|---|---|
| `ResearchRun!CancelCompletes` | `FairSpec`; 1 worker, 1 client, `MaxVersion` 3, no fault, `MaxQueue` 2 | A cancellation completes (`src/ACADEMIC_RESEARCH_AGENT_DELIVERY_STATUS.md:24`). A second request recorded while the run is in CANCEL_REQUESTED wins over the checkpoint that would make it CANCELLED (`workflow.py:165`); the decided transition is illegal, the stage is rolled back with the request still there, and so for ever. |
| `AnalysisBarrier!BarrierComplete` | `Spec`; as `barrier.cfg` | ANALYZING ends only after the shards are complete (`literature_research_tasks.py:378`). The coordinator sends the barrier task even if it found the run elsewhere (`:110`); arriving after a failed coordinator and a resumption it counts zero of zero shards. |
| `ResearchOutbox!NothingSkipped` | `Spec`; 2 writers of kinds "stage" and "shard", 1 publisher, `ReplayLimit` 4, `MaxTx` 2, no fault | A client misses nothing (`docs/literature-research-implementation.md:51`). Publication follows the start times of transactions, the stream forwards only larger sequences (`repositories/.../outbox.py:62`). `SkippedWasOvertaken` shows that this is the only way. |
| `EntityResolution!ReviewsCounted` | `Spec` of `MCEntityResolution`; as `entity_resolution.cfg` | A decision for review is counted by the release gate (`repositories/.../analysis.py:251`). Decisions are stored only with a cluster that holds both papers (`entity_resolution.py:148`), which a decision for review usually is not. |
| `LibrarySync!IndexedHasPoints` | `Spec`; 2 entries, contents "a" and "b", 1 worker, `RunCount` 3, `MaxWaiting` 1, `MaxEdits` 2, no fault | An INDEXED paper is searchable (`local_paper_library.py:1638`). A paper that went MISSING has lost its points (`:2229`); when its content returns it is declared INDEXED without them. |
| `BackgroundAnalysis!JobEnds` | `FairSpec`; 2 papers, 2 workers, `MaxConcurrency` 2, no fault, cancellation or repeated poll | A job ends (`local_paper_analysis.py:348`). A synthesis that the provider refuses to take is marked FAILED (`local_paper_analysis_orchestrator.py:667`) and nothing runs the job again, which would finalise it: it stays ANALYZING. |
| `CollectionSync!FullReplaces` | `Spec`; 2 files, 2 contents, 1 worker, `PageLimit` 1, `SyncCount` 2, `MaxDocs` 3, no change, no fault | Existing documents are replaced (`docs/howto/configure-sync-sources.md:107`). `get_documents` reads one scroll of 10000 points and drops the offset of the next (`vectorstore.py:242`): a lookup that raises nothing misses a stored document behind the page, and its file gets a second one. |
| `CollectionSync!NewOnlySkips` | `Spec`; 1 file, 1 content, 1 worker, `PageLimit` 2, `SyncCount` 2, `MaxDocs` 4, `MaxEdits` 1, no fault | Unchanged files are skipped (`docs/howto/configure-sync-sources.md:108`). A connector in mode new_only adds every file again. |
| `CollectionSync!CancelStands` | the same | "Sync cancelled" (`api/routes/v1/rag.py:302`). `complete_sync` writes over the cancellation; connector synchronisations never look. |

Read while modelling. In the models, unless "not modelled" is said:

*Runs and barrier.* A stage paused after its handler ran is executed again,
which in SYNTHESIZING ends in a refusal, for ever (`repositories/.../analysis.py:82`,
`SynthesisDiffers`, `Synthesised`). `_mark_stage_failed` compares states and not
versions, so the failure of an attempt may hit a later visit of the stage
(`ReadForFailure`). A second delivery's failure overwrites FAILED_TERMINAL of a
shard (`Recordable`). Cancelling in FAILED_RETRYABLE takes effect only after a
resumption.

*Outbox.* A replay is cut at 500 events and the first live event moves the
client past the rest (`ReplayLimit`, which the run keeps above the number of
events). Overlapping publishers can send in either order (`overlapped`).

*Outputs.* A message lost between the commit and `apply_async` leaves its request
PENDING, and a FAILED one is not tried again under the same
`client_request_id`. Generation 1 may mix attempts of a paper reanalysed between
two stages; the mark says so.

*Analysis jobs.* A session that was stale when a staged job was cancelled goes
on to SYNTHESIZING and COMPLETED over it, though "DB state, not Celery, is the
authority" (`local_paper_library_tasks.py:35`); `OutcomeHonest` holds all the
same. A crash, a redelivered run and a sweep whose sessions each believe the other
at work leave a job ANALYZING with nothing under way, though duplicates are called
harmless (`:94`); this is why `JobEnds` admits faults. With three papers a slow
submission and a rerun from a poll submit one paper twice. A paper with an empty
title stays PENDING (not modelled).

*Library.* Overlapping deliveries of a run lose the fence of event numbers to
one another, and one that fails turns a COMPLETED run into FAILED until it is
delivered again. A renamed citekey is rejected as DUPLICATE_SOURCE for ever.
Two requests at once start two runs. A source without text makes an existing paper
MISSING (`Rejected`). Not modelled: `_require_source` fails outside the handler that
would end the run; another embedding model violates the unique constraint of
sections.

*Collections.* `ingest_file` returns errors that connectors and uploads count as
successes. update_only that dies between `Delete` and `Insert` loses the document,
as the retry skips files without one. Lookups that fail, and synchronisations that
overlap, leave duplicates for ever. Files with one name, or one content, replace
each other. In a collection of more than 10000 points new_only adds a second
document of a file it does not see and update_only skips an outdated one, like
`FullReplaces` without an error; `Mirrored` speaks of collections whose files fit on
a page (`OnePage`), and is refuted without that condition. A hard time limit leaves
a log "running" for ever. Not modelled: rows of `rag_documents` that outlive their document or are missing after a crash.

*Discovery.* Two clusters with one title and no identifier share a key and the
second is dropped (`Kept`). After a replay a paper may be in two works, one of
each execution, though preprint and published version shall not be counted
twice (`src/ACADEMIC_RESEARCH_AGENT_EXECUTION_PROGRESS_2026-08-21.md:555`). The fuzzy rule does not look at
years (`Alike`). Not modelled: decisions are keyed by a source's identifier
alone, and `candidate_count` may exceed the rows stored.

## 7. Not modelled

- The data the handlers compute, documents, prompts, formats, scores. Of the
  constraint engine, quality and relevance scoring the program uses the verdicts,
  which the models choose freely.
- Leases of runs: the columns are written and rate-limit the watchdog only. Leases
  of job stages are modelled by their purpose: a stage is not swept while a worker
  is at work on it.
- More than one run, job, library or collection. The watchdog claims up to a
  hundred runs in a transaction; a conflict on one delays the others, which the
  model allows at any time.
- Of analysis jobs: the hash-chained ledger of events, conversation turns, memory
  candidates and project grants. Of the provider: what it does with a submission
  that was doubled or never committed. `LocalAnalysis!Recover` locks a stage and its
  job in one step; the code locks the stage first
  (`local_paper_analysis_orchestrator.py:786`) and a run the job first (`:557`), so
  the two can deadlock and PostgreSQL aborts one: a fault, or a sweep that comes
  again.
- Of the library: DOI conflicts, sources without an entry, changes of the index format, the search. `MATCHING` and `INDEXING` are one
  checkpoint, and event numbers are reduced to whether a copy is behind (`fresh`).
- Of collections: uploads, `rag_documents`, deletion, the command line, search;
  that a task may miss the log of its own message, which the retry finds.
- Of discovery: planning of queries, the sources' protocols, normalisation.
- Protocol versions and projects, organisations, users, conversations, files:
  each request is one transaction on rows of its own. The usage budget is one
  counter in memory, whose exhaustion is a failing stage of `ResearchRun`. Chat
  sessions have one task per socket.
- Migrations, deployment, command line, the presentation of the frontend.

## 8. Plan

Done: the run, the barrier, the outbox, outputs, jobs, the library, collections,
entity resolution, and proofs for all of them but the collections. What would add
most next:

1. `Mirrored` of `CollectionSync` as a theorem: its invariant relates the files a
   synchronisation has handled to the documents in the store, per mode.
2. That a completed library run leaves no INDEXED paper without points unless it was
   MISSING before, the part of `IndexedHasPoints` that the code does keep.
3. Uploads and deletions beside a synchronisation in `CollectionSync`.
4. `ProtocolVersions` (approval of a draft being revised) and the event ledger of
   analysis jobs (one chain under several commits).
5. The constraint evaluation as pure operators, against a definition by its
   three-valued truth tables.
