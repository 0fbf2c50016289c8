----------------------- MODULE AnalysisBarrier_proofs -----------------------
(***************************************************************************)
(* Theorems about AnalysisBarrier: types, that a paper is analysed once,   *)
(* and that no shard is left out or forgotten as long as nothing is lost.  *)
(***************************************************************************)
EXTENDS AnalysisBarrier, TLAPS

\* A worker that is not idle has a delivery in hand.
HasJob == \A w \in Workers : worker[w].step # "idle" => worker[w].job \in Deliveries

TInv == TypeOK /\ HasJob

Analysing(w) == worker[w].step = "analysing"

\* The lock of a shard's row: one worker at a time, and only while the shard is open.
Locks ==
  /\ \A w \in Workers : Analysing(w) => ~Ended(worker[w].job.paper)
  /\ \A v, w \in Workers :
       Analysing(v) /\ Analysing(w) /\ worker[v].job.paper = worker[w].job.paper => v = w

\* Without a fault a coordinator has persisted all shards, or nothing has begun.
Persisted ==
  faults = 0 =>
    \/ Existing = Papers
    \/ /\ run = "ANALYZING" /\ tasks \subseteq {"prepare"} /\ deliveries = {}
       /\ \A w \in Workers : worker[w].step = "idle"

-----------------------------------------------------------------------------
(* Types *)

LEMMA FreeWorker ==
  ASSUME TInv, NEW w \in Workers, Free(w)
  PROVE  /\ worker' \in [Workers -> WorkerStates] /\ HasJob'
         /\ worker'[w].step = "idle" /\ \A v \in Workers \ {w} : worker'[v] = worker[v]
<1>1. Idle \in WorkerStates /\ Idle.step = "idle"
  BY DEF Idle, WorkerStates, NoJob
<1>2. /\ worker' = [worker EXCEPT ![w] = Idle] /\ worker \in [Workers -> WorkerStates]
  BY DEF Free, TInv, TypeOK
<1> HIDE DEF Idle
<1>3. /\ worker' \in [Workers -> WorkerStates] /\ worker'[w] = Idle
      /\ \A v \in Workers \ {w} : worker'[v] = worker[v]
  BY <1>1, <1>2
<1> QED
  BY <1>1, <1>3 DEF TInv, HasJob

\* A worker that takes a delivery, or whose work is rolled back.
LEMMA BusyWorker ==
  ASSUME TInv, NEW w \in Workers, NEW step \in {"analysing", "failed"}, NEW d \in Deliveries,
         worker' = [worker EXCEPT ![w] = [step |-> step, job |-> d]]
  PROVE  /\ worker' \in [Workers -> WorkerStates] /\ HasJob'
         /\ worker'[w].step = step /\ worker'[w].job = d
         /\ \A v \in Workers \ {w} : worker'[v] = worker[v]
<1> DEFINE busy == [step |-> step, job |-> d]
<1>1. busy \in WorkerStates /\ busy.step = step /\ busy.job = d
  BY DEF WorkerStates
<1>2. worker' = [worker EXCEPT ![w] = busy] /\ worker \in [Workers -> WorkerStates]
  BY DEF TInv, TypeOK
<1> HIDE DEF busy
<1>3. /\ worker' \in [Workers -> WorkerStates] /\ worker'[w] = busy
      /\ \A v \in Workers \ {w} : worker'[v] = worker[v]
  BY <1>1, <1>2
<1> QED
  BY <1>1, <1>3 DEF TInv, HasJob

LEMMA FailedWorker ==
  ASSUME TInv, NEW w \in Workers, Raise(w)
  PROVE  /\ worker' = [worker EXCEPT ![w] = [step |-> "failed", job |-> worker[w].job]]
         /\ worker[w].job \in Deliveries
<1>1. worker[w].job \in Deliveries /\ worker[w] \in WorkerStates
  BY DEF TInv, TypeOK, HasJob, Raise
<1>2. [worker[w] EXCEPT !.step = "failed"] = [step |-> "failed", job |-> worker[w].job]
  BY <1>1 DEF WorkerStates
<1>3. worker' = [worker EXCEPT ![w] = [worker[w] EXCEPT !.step = "failed"]]
  BY DEF Raise
<1> QED
  BY <1>1, <1>2, <1>3

LEMMA RetryType ==
  ASSUME NEW d \in Deliveries
  PROVE  /\ Retry(d) \subseteq Deliveries
         /\ d.retries < MaxRetries => \E r \in Retry(d) : r.paper = d.paper
<1> DEFINE again == [d EXCEPT !.retries = @ + 1]
<1>1. d.retries < MaxRetries => again \in Deliveries /\ again.paper = d.paper
  BY BoundsAssumption DEF Deliveries
<1>2. d.retries \in Nat /\ MaxRetries \in Nat
  BY BoundsAssumption DEF Deliveries
<1>3. Retry(d) = IF d.retries >= MaxRetries THEN {} ELSE {again}
  BY DEF Retry
<1> HIDE DEF again
<1> QED
  BY <1>1, <1>2, <1>3

LEMMA TypeInit == Init => TInv
<1>1. Idle \in WorkerStates /\ Idle.step = "idle"
  BY DEF Idle, WorkerStates, NoJob
<1> QED
  BY <1>1, BoundsAssumption DEF Init, TInv, TypeOK, HasJob, RunStates, Statuses

\* What a coordinator's transaction does to the shards, and what it sends.
LEMMA PrepareTypes ==
  ASSUME TInv, Prepare
  PROVE  /\ shard' \in [Papers -> Statuses]
         /\ \A p \in Papers : shard[p] # "ABSENT" => shard'[p] = shard[p]
         /\ run = "ANALYZING" => \A p \in Papers : shard'[p] # "ABSENT"
         /\ run = "ANALYZING" => \A p \in Papers : shard[p] = "ABSENT" => shard'[p] = "PENDING"
         /\ run # "ANALYZING" => shard' = shard
         /\ deliveries \subseteq deliveries' /\ deliveries' \subseteq Deliveries
         /\ tasks' \subseteq tasks \cup {"finalize"} /\ faults' \in 0..MaxFaults /\ faults' >= faults
         /\ faults' = 0 /\ run = "ANALYZING" =>
              \A p \in Papers : shard'[p] \in TerminalStatuses
                                \/ \E d \in deliveries' : d.paper = p
         /\ UNCHANGED <<row, worker, analyses, wakes>>
<1> DEFINE open == IF run = "ANALYZING"
                   THEN {p \in Papers : shard'[p] \notin {"ABSENT"} \cup TerminalStatuses}
                   ELSE {}
           sent == [paper : open, retries : {0}]
<1>1. IF run = "ANALYZING" THEN shard' \in PersistedShards ELSE shard' = shard
  BY DEF Prepare
<1>2. /\ shard' \in [Papers -> Statuses]
      /\ \A p \in Papers : shard[p] # "ABSENT" => shard'[p] = shard[p]
      /\ run = "ANALYZING" => \A p \in Papers : shard'[p] # "ABSENT"
      /\ run = "ANALYZING" => \A p \in Papers : shard[p] = "ABSENT" => shard'[p] = "PENDING"
      /\ run # "ANALYZING" => shard' = shard
  BY <1>1 DEF PersistedShards, TInv, TypeOK, Statuses
<1>3. \/ /\ deliveries' = deliveries \cup sent
         /\ tasks' = (tasks \ {"prepare"}) \cup {"finalize"} /\ UNCHANGED faults
      \/ /\ Fault /\ \E some \in SUBSET sent : deliveries' = deliveries \cup some
         /\ tasks' \in {tasks, tasks \ {"prepare"}}
  BY DEF Prepare
<1>4. sent \subseteq Deliveries /\ \A p \in open : \E d \in sent : d.paper = p
  <2>1. open \subseteq Papers /\ 0 \in 0..MaxRetries
    BY BoundsAssumption
  <2>2. \A p \in open : [paper |-> p, retries |-> 0] \in sent
    OBVIOUS
  <2> HIDE DEF open
  <2>3. sent \subseteq Deliveries
    BY <2>1 DEF Deliveries
  <2> HIDE DEF sent
  <2> QED
    BY <2>2, <2>3
<1>5. run = "ANALYZING" => \A p \in Papers : shard'[p] \in TerminalStatuses \/ p \in open
  BY <1>2
<1>6. /\ faults \in 0..MaxFaults /\ faults \in Nat /\ wakes \in Nat /\ MaxFaults \in Nat
      /\ deliveries \subseteq Deliveries
  BY BoundsAssumption DEF TInv, TypeOK
<1>7. UNCHANGED <<row, worker, analyses, wakes>>
  BY DEF Prepare
<1> HIDE DEF open, sent
<1>8. CASE /\ deliveries' = deliveries \cup sent
           /\ tasks' = (tasks \ {"prepare"}) \cup {"finalize"} /\ UNCHANGED faults
  BY <1>2, <1>4, <1>5, <1>6, <1>7, <1>8
<1>9. CASE /\ Fault /\ \E some \in SUBSET sent : deliveries' = deliveries \cup some
           /\ tasks' \in {tasks, tasks \ {"prepare"}}
  <2>1. faults' = faults + 1 /\ faults < MaxFaults
    BY <1>6, <1>9 DEF Fault
  <2>2. deliveries \subseteq deliveries' /\ deliveries' \subseteq Deliveries
        /\ tasks' \subseteq tasks \cup {"finalize"}
    BY <1>4, <1>6, <1>9
  <2> QED
    BY <1>2, <1>6, <1>7, <2>1, <2>2
<1> QED
  BY <1>3, <1>8, <1>9

LEMMA TypeNext == TInv /\ [Next]_vars => TInv'
<1> SUFFICES ASSUME TInv, [Next]_vars PROVE TInv'
  OBVIOUS
<1>b. MaxFaults \in Nat
  BY BoundsAssumption
<1> USE DEF TypeOK
<1>1. CASE Prepare
  <2>1. tasks' \subseteq {"prepare", "finalize", "prepare_failed"}
    BY <1>1, PrepareTypes DEF TInv
  <2> QED
    BY <1>1, <2>1, PrepareTypes DEF TInv, HasJob, row
<1>2. CASE PrepareRaises
  BY <1>2, <1>b DEF PrepareRaises, Fault, TInv, HasJob, row
<1>3. CASE MarkPrepareFailed
  BY <1>3 DEF MarkPrepareFailed, TInv, HasJob, RunStates
<1>4. ASSUME NEW w \in Workers, NEW d \in deliveries, StartShard(w, d) PROVE TInv'
  <2>1. d \in Deliveries
    BY DEF TInv
  <2>2. \/ worker' = worker \/ worker' = [worker EXCEPT ![w] = [step |-> "analysing", job |-> d]]
    BY <1>4 DEF StartShard
  <2>3. worker' \in [Workers -> WorkerStates] /\ HasJob'
    BY <2>1, <2>2, BusyWorker DEF TInv, HasJob
  <2>4. /\ deliveries' = deliveries \ {d} /\ tasks' \subseteq tasks \cup {"finalize"}
        /\ UNCHANGED <<row, shard, analyses, faults, wakes>>
    BY <1>4 DEF StartShard
  <2> QED
    BY <2>3, <2>4 DEF TInv, row
<1>5. ASSUME NEW w \in Workers, Succeed(w) PROVE TInv'
  <2>1. worker' \in [Workers -> WorkerStates] /\ HasJob'
    BY <1>5, FreeWorker DEF Succeed
  <2>2. worker[w].job \in Deliveries /\ worker[w].job.paper \in Papers
    BY <1>5 DEF TInv, HasJob, Succeed, Deliveries
  <2>3. shard' \in [Papers -> Statuses] /\ analyses' \in [Papers -> Nat]
    BY <1>5, <2>2 DEF TInv, Succeed, Statuses, TerminalStatuses
  <2>4. deliveries' \subseteq Deliveries /\ tasks' \subseteq tasks \cup {"finalize"}
        /\ faults' \in 0..MaxFaults /\ UNCHANGED <<row, wakes>>
    BY <1>5, <1>b, <2>2 DEF TInv, Succeed, Fault
  <2> QED
    BY <2>1, <2>3, <2>4 DEF TInv, row
<1>6. ASSUME NEW w \in Workers, Raise(w) PROVE TInv'
  <2>1. worker' \in [Workers -> WorkerStates] /\ HasJob'
    BY <1>6, FailedWorker, BusyWorker
  <2> QED
    BY <1>6, <2>1 DEF TInv, Raise, row
<1>7. ASSUME NEW w \in Workers, MarkShardFailed(w) PROVE TInv'
  <2>1. worker' \in [Workers -> WorkerStates] /\ HasJob'
    BY <1>7, FreeWorker DEF MarkShardFailed
  <2>2. worker[w].job \in Deliveries
    BY <1>7 DEF TInv, HasJob, MarkShardFailed
  <2>3. Retry(worker[w].job) \subseteq Deliveries
    BY <2>2, RetryType
  <2>4. /\ shard' \in [Papers -> Statuses] /\ deliveries' \subseteq Deliveries
        /\ tasks' \subseteq tasks \cup {"finalize"} /\ UNCHANGED <<row, analyses, faults, wakes>>
    BY <1>7, <2>3 DEF TInv, MarkShardFailed, Statuses, TerminalStatuses
  <2> QED
    BY <2>1, <2>4 DEF TInv, row
<1>8. ASSUME NEW w \in Workers, LoseShard(w) PROVE TInv'
  <2>1. worker' \in [Workers -> WorkerStates] /\ HasJob'
    BY <1>8, FreeWorker DEF LoseShard
  <2>2. worker[w].job \in Deliveries
    BY <1>8 DEF TInv, HasJob, LoseShard
  <2> QED
    BY <1>8, <1>b, <2>1, <2>2 DEF TInv, LoseShard, Fault, row
<1>9. CASE Finalize
  BY <1>9 DEF Finalize, TInv, HasJob, RunStates, row
<1>10. CASE LoseTask
  BY <1>10, <1>b DEF LoseTask, Fault, TInv, HasJob, row
<1>11. CASE RequestControl
  BY <1>11 DEF RequestControl, TInv, HasJob
<1>12. CASE Resume
  BY <1>12 DEF Resume, TInv, HasJob, RunStates
<1>13. CASE Watchdog
  BY <1>13, <1>b DEF Watchdog, TInv, HasJob, row
<1>14. CASE UNCHANGED vars
  BY <1>14 DEF vars, TInv, HasJob, row
<1> QED
  BY <1>1, <1>2, <1>3, <1>4, <1>5, <1>6, <1>7, <1>8, <1>9, <1>10, <1>11, <1>12, <1>13, <1>14
  DEF Next, ShardStep

\* Every variable of the stage keeps its type.
THEOREM BarrierTypeCorrect == Spec => []TypeOK
<1>1. TInv => TypeOK
  BY DEF TInv
<1> QED
  BY TypeInit, TypeNext, <1>1, PTL DEF Spec

-----------------------------------------------------------------------------
(* One analysis for each paper *)

OnceInv == Locks /\ AnalysedOnce

\* Steps that leave the analyses alone, the status SUCCEEDED too, start no analysis
\* and end no open shard that is being analysed.
LEMMA OnceKept ==
  ASSUME TInv, OnceInv, UNCHANGED analyses,
         \A w \in Workers : Analysing(w)' => Analysing(w) /\ worker'[w].job = worker[w].job,
         \A p \in Papers : shard'[p] = "SUCCEEDED" <=> shard[p] = "SUCCEEDED",
         \A w \in Workers : Analysing(w)' => ~Ended(worker[w].job.paper)'
  PROVE  OnceInv'
<1>1. Locks'
  BY DEF OnceInv, Locks
<1>2. AnalysedOnce'
  BY DEF OnceInv, AnalysedOnce
<1> QED
  BY <1>1, <1>2 DEF OnceInv

LEMMA OnceNext == TInv /\ TInv' /\ OnceInv /\ [Next]_vars => OnceInv'
<1> SUFFICES ASSUME TInv, TInv', OnceInv, [Next]_vars PROVE OnceInv'
  OBVIOUS
<1>j. \A w \in Workers : worker[w].step # "idle" => worker[w].job.paper \in Papers
  BY DEF TInv, HasJob, Deliveries
<1>0. ASSUME UNCHANGED <<shard, worker, analyses>> PROVE OnceInv'
  BY <1>0 DEF OnceInv, Locks, AnalysedOnce, Analysing, Ended
<1>1. CASE Prepare
  <2>1. /\ \A p \in Papers : shard'[p] # shard[p] => shard[p] = "ABSENT" /\ shard'[p] = "PENDING"
        /\ UNCHANGED <<worker, analyses>>
    BY <1>1, PrepareTypes
  <2>2. \A p \in Papers : shard'[p] = "SUCCEEDED" <=> shard[p] = "SUCCEEDED"
    BY <2>1
  <2>3. \A p \in Papers : ~Ended(p) => ~Ended(p)'
    BY <2>1 DEF Ended, TerminalStatuses
  <2>4. \A w \in Workers : Analysing(w)' => Analysing(w) /\ worker'[w].job = worker[w].job
    BY <2>1 DEF Analysing
  <2>5. \A w \in Workers : Analysing(w)' => ~Ended(worker[w].job.paper)'
    BY <1>j, <2>1, <2>3, <2>4 DEF OnceInv, Locks, Analysing
  <2> QED
    BY <2>1, <2>2, <2>4, <2>5, OnceKept
<1>2. CASE PrepareRaises \/ MarkPrepareFailed \/ Finalize \/ LoseTask \/ RequestControl \/ Resume
           \/ Watchdog
  BY <1>0, <1>2 DEF PrepareRaises, MarkPrepareFailed, Finalize, LoseTask, RequestControl, Resume,
                    Watchdog
<1>3. ASSUME NEW w \in Workers, NEW d \in deliveries, StartShard(w, d) PROVE OnceInv'
  <2>1. CASE UNCHANGED worker
    BY <1>0, <1>3, <2>1 DEF StartShard
  <2>2. CASE worker' = [worker EXCEPT ![w] = [step |-> "analysing", job |-> d]]
    <3>1. CASE Ended(d.paper) \/ run # "ANALYZING"
      BY <1>0, <1>3, <3>1 DEF StartShard
    <3>2. CASE ~Ended(d.paper)
      <4>1. /\ worker'[w].step = "analysing" /\ worker'[w].job = d
            /\ \A v \in Workers \ {w} : worker'[v] = worker[v]
        BY <2>2, BusyWorker DEF TInv, TypeOK
      <4>2. UNCHANGED <<shard, analyses>> /\ \A v \in Workers : Analysing(v) => worker[v].job.paper # d.paper
        BY <1>3 DEF StartShard, ShardLocked, Analysing
      <4>3. Locks'
        BY <3>2, <4>1, <4>2 DEF OnceInv, Locks, Analysing, Ended
      <4> QED
        BY <4>2, <4>3 DEF OnceInv, AnalysedOnce
    <3> QED
      BY <3>1, <3>2
  <2> QED
    BY <1>3, <2>1, <2>2 DEF StartShard
<1>4. ASSUME NEW w \in Workers, Succeed(w) PROVE OnceInv'
  <2> DEFINE p == worker[w].job.paper
  <2>1. p \in Papers /\ Analysing(w) /\ ~Ended(p) /\ shard[p] # "SUCCEEDED"
    BY <1>4, <1>j DEF Succeed, Analysing, OnceInv, Locks, Ended, TerminalStatuses
  <2>2. worker'[w].step = "idle" /\ \A v \in Workers \ {w} : worker'[v] = worker[v]
    BY <1>4, FreeWorker DEF Succeed
  <2>3. shard' = [shard EXCEPT ![p] = "SUCCEEDED"] /\ analyses' = [analyses EXCEPT ![p] = @ + 1]
    BY <1>4 DEF Succeed
  <2>4. \A v \in Workers : Analysing(v)' => v # w /\ Analysing(v) /\ worker[v].job.paper # p
    BY <2>1, <2>2 DEF OnceInv, Locks, Analysing
  <2> HIDE DEF p
  <2>5. AnalysedOnce'
    BY <2>1, <2>3 DEF OnceInv, AnalysedOnce, TInv, TypeOK
  <2>6. Locks'
    BY <1>j, <2>1, <2>2, <2>3, <2>4 DEF OnceInv, Locks, Analysing, Ended, TInv, TypeOK
  <2> QED
    BY <2>5, <2>6 DEF OnceInv
<1>5. ASSUME NEW w \in Workers, Raise(w) PROVE OnceInv'
  <2>1. worker'[w].step = "failed" /\ \A v \in Workers \ {w} : worker'[v] = worker[v]
    BY <1>5, FailedWorker, BusyWorker
  <2>2. UNCHANGED <<shard, analyses>>
    BY <1>5 DEF Raise
  <2> QED
    BY <2>1, <2>2 DEF OnceInv, Locks, AnalysedOnce, Analysing, Ended
<1>6. ASSUME NEW w \in Workers, MarkShardFailed(w) PROVE OnceInv'
  <2> DEFINE p == worker[w].job.paper
  <2>1. worker'[w].step = "idle" /\ \A v \in Workers \ {w} : worker'[v] = worker[v]
    BY <1>6, FreeWorker DEF MarkShardFailed
  <2>2. p \in Papers /\ \A v \in Workers : Analysing(v) => worker[v].job.paper # p
    BY <1>6, <1>j DEF MarkShardFailed, ShardLocked, Analysing
  <2>3. /\ \A q \in Papers \ {p} : shard'[q] = shard[q]
        /\ shard[p] = "SUCCEEDED" => shard'[p] = shard[p]
        /\ shard[p] # "SUCCEEDED" => shard'[p] # "SUCCEEDED"
        /\ UNCHANGED analyses
    BY <1>6, <2>2 DEF MarkShardFailed, Recordable, TInv, TypeOK
  <2> HIDE DEF p
  <2>4. \A v \in Workers : Analysing(v)' => Analysing(v) /\ worker'[v].job = worker[v].job
    BY <2>1 DEF Analysing
  <2>5. \A v \in Workers : Analysing(v)' => ~Ended(worker[v].job.paper)'
    BY <1>j, <2>2, <2>3, <2>4 DEF OnceInv, Locks, Analysing, Ended
  <2> QED
    BY <2>2, <2>3, <2>4, <2>5, OnceKept
<1>7. ASSUME NEW w \in Workers, LoseShard(w) PROVE OnceInv'
  <2>1. worker'[w].step = "idle" /\ \A v \in Workers \ {w} : worker'[v] = worker[v]
    BY <1>7, FreeWorker DEF LoseShard
  <2>2. UNCHANGED <<shard, analyses>>
    BY <1>7 DEF LoseShard
  <2> QED
    BY <2>1, <2>2 DEF OnceInv, Locks, AnalysedOnce, Analysing, Ended
<1>8. CASE UNCHANGED vars
  BY <1>0, <1>8 DEF vars
<1> QED
  BY <1>1, <1>2, <1>3, <1>4, <1>5, <1>6, <1>7, <1>8 DEF Next, ShardStep

\* However often a shard is delivered, to however many workers, its paper is analysed
\* and persisted at most once.
THEOREM ShardsAnalysedOnce == Spec => []AnalysedOnce
<1>1. Init => OnceInv
  BY DEF Init, OnceInv, Locks, AnalysedOnce, Analysing, Idle
<1>2. OnceInv => AnalysedOnce
  BY DEF OnceInv
<1> QED
  BY TypeInit, TypeNext, OnceNext, <1>1, <1>2, PTL DEF Spec

-----------------------------------------------------------------------------
(* As long as nothing is lost *)

\* Shards are never deleted and faults never taken back.
LEMMA Growing ==
  ASSUME TInv, [Next]_vars
  PROVE  /\ \A p \in Papers : shard[p] # "ABSENT" => shard'[p] # "ABSENT"
         /\ faults' = 0 => faults = 0
<1>f. faults \in Nat
  BY BoundsAssumption DEF TInv, TypeOK
<1>1. CASE Prepare
  BY <1>1, <1>f, PrepareTypes
<1>2. CASE PrepareRaises \/ LoseTask
  BY <1>2, <1>f DEF PrepareRaises, LoseTask, Fault
<1>3. CASE MarkPrepareFailed \/ Finalize \/ RequestControl \/ Resume \/ Watchdog
  BY <1>3 DEF MarkPrepareFailed, Finalize, RequestControl, Resume, Watchdog
<1>4. ASSUME NEW w \in Workers, NEW d \in deliveries, StartShard(w, d)
      PROVE  UNCHANGED <<shard, faults>>
  BY <1>4 DEF StartShard
<1>5. ASSUME NEW w \in Workers, Succeed(w)
      PROVE  /\ \A p \in Papers : shard[p] # "ABSENT" => shard'[p] # "ABSENT"
             /\ faults' = 0 => faults = 0
  BY <1>5, <1>f DEF Succeed, Fault, TInv, TypeOK
<1>6. ASSUME NEW w \in Workers, Raise(w) PROVE UNCHANGED <<shard, faults>>
  BY <1>6 DEF Raise
<1>7. ASSUME NEW w \in Workers, MarkShardFailed(w)
      PROVE  /\ \A p \in Papers : shard[p] # "ABSENT" => shard'[p] # "ABSENT"
             /\ UNCHANGED faults
  BY <1>7 DEF MarkShardFailed, TInv, TypeOK
<1>8. ASSUME NEW w \in Workers, LoseShard(w)
      PROVE  UNCHANGED shard /\ (faults' = 0 => faults = 0)
  BY <1>8, <1>f DEF LoseShard, Fault
<1>9. CASE UNCHANGED vars
  BY <1>9 DEF vars
<1> QED
  BY <1>1, <1>2, <1>3, <1>4, <1>5, <1>6, <1>7, <1>8, <1>9 DEF Next, ShardStep

LEMMA PersistedNext == TInv /\ Persisted /\ [Next]_vars => Persisted'
<1> SUFFICES ASSUME TInv, Persisted, [Next]_vars, faults' = 0
             PROVE  \/ Existing' = Papers
                    \/ /\ run' = "ANALYZING" /\ tasks' \subseteq {"prepare"} /\ deliveries' = {}
                       /\ \A w \in Workers : worker'[w].step = "idle"
  BY DEF Persisted
<1>1. faults = 0 /\ \A p \in Papers : shard[p] # "ABSENT" => shard'[p] # "ABSENT"
  BY Growing
<1>2. CASE Existing = Papers
  BY <1>1, <1>2 DEF Existing
<1>3. CASE /\ run = "ANALYZING" /\ tasks \subseteq {"prepare"} /\ deliveries = {}
           /\ \A w \in Workers : worker[w].step = "idle"
  <2>1. CASE Prepare
    BY <1>3, <2>1, PrepareTypes DEF Existing
  <2>2. CASE RequestControl \/ Watchdog
    BY <1>3, <2>2 DEF RequestControl, Watchdog, row
  <2>3. CASE UNCHANGED vars
    BY <1>3, <2>3 DEF vars, row
  <2>4. ~PrepareRaises /\ ~LoseTask
    BY <1>1 DEF PrepareRaises, LoseTask, Fault
  <2>5. ~MarkPrepareFailed /\ ~Finalize /\ ~Resume
    BY <1>3 DEF MarkPrepareFailed, Finalize, Resume
  <2>6. ASSUME NEW w \in Workers, ShardStep(w) \/ LoseShard(w) PROVE FALSE
    BY <1>3, <2>6 DEF ShardStep, StartShard, Succeed, Raise, MarkShardFailed, LoseShard
  <2> QED
    BY <2>1, <2>2, <2>3, <2>4, <2>5, <2>6 DEF Next
<1> QED
  BY <1>1, <1>2, <1>3 DEF Persisted

\* The barrier opens on the complete shard set as long as no transaction failed and
\* nothing got lost, however pauses, retries and watchdog calls are interleaved.
THEOREM BarrierOpensOnAll == Spec => []NothingLeftOut
<1>1. Init => Persisted
  BY DEF Init, Persisted, Idle
<1>2. Persisted => NothingLeftOut
  BY DEF Persisted, NothingLeftOut
<1> QED
  BY TypeInit, TypeNext, PersistedNext, <1>1, <1>2, PTL DEF Spec

\* What keeps a shard from being forgotten.
OnItsWay(p) ==
  \/ Ended(p)
  \/ "prepare" \in tasks
  \/ \E d \in deliveries : d.paper = p
  \/ \E w \in Workers : worker[w].step # "idle" /\ worker[w].job.paper = p

LEMMA OnItsWayNext == TInv /\ NoShardForgotten /\ [Next]_vars => NoShardForgotten'
<1> SUFFICES ASSUME TInv, NoShardForgotten, [Next]_vars, run' = "ANALYZING", faults' = 0,
                    NEW p \in Papers
             PROVE  OnItsWay(p)'
  BY DEF NoShardForgotten, OnItsWay
<1>1. faults = 0
  BY Growing
<1>2. run = "ANALYZING" => OnItsWay(p)
  BY <1>1 DEF NoShardForgotten, OnItsWay
<1>3. CASE Prepare
  <2>1. run = "ANALYZING"
    BY <1>3, PrepareTypes DEF row
  <2> QED
    BY <1>3, <2>1, PrepareTypes DEF OnItsWay, Ended
<1>4. CASE PrepareRaises \/ LoseTask
  BY <1>1, <1>4 DEF PrepareRaises, LoseTask, Fault
<1>5. CASE MarkPrepareFailed
  BY <1>2, <1>5 DEF MarkPrepareFailed, OnItsWay, Ended
<1>6. ASSUME NEW w \in Workers, NEW d \in deliveries, StartShard(w, d) PROVE OnItsWay(p)'
  <2>0. run = "ANALYZING" /\ OnItsWay(p) /\ UNCHANGED shard
    BY <1>2, <1>6 DEF StartShard, row
  <2>1. CASE Ended(d.paper)
    <3>1. UNCHANGED worker /\ deliveries' = deliveries \ {d} /\ tasks \subseteq tasks'
      BY <1>6, <2>1 DEF StartShard
    <3>2. d.paper = p => Ended(p)
      BY <2>1
    <3> QED
      BY <2>0, <3>1, <3>2 DEF OnItsWay, Ended
  <2>2. CASE ~Ended(d.paper)
    <3>1. /\ worker' = [worker EXCEPT ![w] = [step |-> "analysing", job |-> d]]
          /\ UNCHANGED tasks /\ deliveries' = deliveries \ {d} /\ worker[w].step = "idle"
      BY <1>6, <2>0, <2>2 DEF StartShard
    <3>2. /\ worker'[w].step = "analysing" /\ worker'[w].job = d
          /\ \A v \in Workers \ {w} : worker'[v] = worker[v]
      BY <3>1, BusyWorker DEF TInv, TypeOK
    <3> QED
      BY <2>0, <3>1, <3>2 DEF OnItsWay, Ended
  <2> QED
    BY <2>1, <2>2
<1>7. ASSUME NEW w \in Workers, Succeed(w) PROVE OnItsWay(p)'
  <2>1. \A v \in Workers \ {w} : worker'[v] = worker[v]
    BY <1>7, FreeWorker DEF Succeed
  <2>2. /\ run = "ANALYZING" /\ tasks \subseteq tasks' /\ deliveries \subseteq deliveries'
        /\ shard' = [shard EXCEPT ![worker[w].job.paper] = "SUCCEEDED"]
    BY <1>7 DEF Succeed, row
  <2>3. worker[w].job.paper \in Papers
    BY <1>7 DEF Succeed, TInv, HasJob, Deliveries
  <2>4. Ended(p) => Ended(p)'
    BY <2>2, <2>3 DEF Ended, TerminalStatuses, TInv, TypeOK
  <2>5. worker[w].job.paper = p => Ended(p)'
    BY <2>2, <2>3 DEF Ended, TerminalStatuses, TInv, TypeOK
  <2> QED
    BY <1>2, <2>1, <2>2, <2>4, <2>5 DEF OnItsWay
<1>8. ASSUME NEW w \in Workers, Raise(w) PROVE OnItsWay(p)'
  <2>1. /\ worker'[w].step = "failed" /\ worker'[w].job = worker[w].job
        /\ \A v \in Workers \ {w} : worker'[v] = worker[v]
    BY <1>8, FailedWorker, BusyWorker
  <2>2. UNCHANGED <<run, shard, tasks, deliveries>>
    BY <1>8 DEF Raise, row
  <2> QED
    BY <1>2, <2>1, <2>2 DEF OnItsWay, Ended
<1>9. ASSUME NEW w \in Workers, MarkShardFailed(w) PROVE OnItsWay(p)'
  <2> DEFINE d == worker[w].job
  <2>1. \A v \in Workers \ {w} : worker'[v] = worker[v]
    BY <1>9, FreeWorker DEF MarkShardFailed
  <2>2. d \in Deliveries /\ d.paper \in Papers
    BY <1>9 DEF MarkShardFailed, TInv, HasJob, Deliveries
  <2>3. PICK terminal \in {d.retries >= MaxRetries, TRUE} :
          IF Recordable(d.paper)
          THEN /\ shard' = [shard EXCEPT ![d.paper] =
                              IF terminal THEN "FAILED_TERMINAL" ELSE "FAILED_RETRYABLE"]
               /\ tasks' = IF terminal THEN tasks \cup {"finalize"} ELSE tasks
               /\ deliveries' = IF terminal THEN deliveries ELSE deliveries \cup Retry(d)
          ELSE deliveries' = deliveries \cup Retry(d) /\ UNCHANGED <<shard, tasks>>
    BY <1>9 DEF MarkShardFailed
  <2>4. UNCHANGED run
    BY <1>9 DEF MarkShardFailed, row
  <2>5. ~terminal => \E r \in Retry(d) : r.paper = d.paper
    <3>1. d.retries \in Nat /\ MaxRetries \in Nat
      BY <2>2, BoundsAssumption DEF Deliveries
    <3>2. ~terminal => ~(d.retries >= MaxRetries)
      BY <2>3, Zenon
    <3>3. ~terminal => d.retries < MaxRetries
      <4> HIDE DEF d
      <4> QED
        BY <3>1, <3>2
    <3> QED
      BY <2>2, <3>3, RetryType
  <2> HIDE DEF d
  <2>6. CASE p # d.paper
    <3>1. tasks \subseteq tasks' /\ deliveries \subseteq deliveries' /\ shard'[p] = shard[p]
      BY <2>2, <2>3, <2>6 DEF TInv, TypeOK
    <3>2. worker[w].job.paper # p
      BY <2>6 DEF d
    <3> QED
      BY <1>2, <2>1, <2>4, <3>1, <3>2 DEF OnItsWay, Ended
  <2>7. CASE p = d.paper /\ Recordable(p) /\ terminal
    <3>1. shard'[p] = "FAILED_TERMINAL"
      BY <2>2, <2>3, <2>7 DEF TInv, TypeOK
    <3> QED
      BY <3>1 DEF OnItsWay, Ended, TerminalStatuses
  <2>8. CASE p = d.paper /\ Recordable(p) /\ ~terminal
    BY <2>3, <2>5, <2>8 DEF OnItsWay
  <2>9. CASE p = d.paper /\ ~Recordable(p)
    BY <2>3, <2>9 DEF OnItsWay, Ended, Recordable, TerminalStatuses
  <2> QED
    BY <2>6, <2>7, <2>8, <2>9
<1>10. ASSUME NEW w \in Workers, LoseShard(w) PROVE OnItsWay(p)'
  BY <1>1, <1>10 DEF LoseShard, Fault
<1>11. CASE Finalize
  BY <1>2, <1>11 DEF Finalize, OnItsWay, Ended, row
<1>12. CASE RequestControl \/ Resume \/ Watchdog
  BY <1>12 DEF RequestControl, Resume, Watchdog, OnItsWay
<1>13. CASE UNCHANGED vars
  BY <1>2, <1>13 DEF vars, row, OnItsWay, Ended
<1> QED
  BY <1>3, <1>4, <1>5, <1>6, <1>7, <1>8, <1>9, <1>10, <1>11, <1>12, <1>13 DEF Next, ShardStep

\* As long as nothing was lost, a shard that is not terminal is delivered, worked on
\* or about to be sent, for any number of papers, workers and retries.
THEOREM NoShardIsForgotten == Spec => []NoShardForgotten
<1>1. Init => NoShardForgotten
  BY DEF Init, NoShardForgotten
<1> QED
  BY TypeInit, TypeNext, OnItsWayNext, <1>1, PTL DEF Spec

=============================================================================
